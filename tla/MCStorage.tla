------------------------------ MODULE MCStorage ------------------------------
(***************************************************************************)
(* What is kept on disk: the configuration and its correction, and the     *)
(* plugins, and the effects.  The parts share no state: a behaviour runs   *)
(* one of them.                                                            *)
(***************************************************************************)
EXTENDS SchemaChecker, SettingsStore, PluginLifecycle, EffectFiles

VARIABLE part

vars == <<part, schemaVars, storeVars, pluginVars, effectVars>>

Integer(min, max, required) ==
  [type |-> "number", minimum |-> min, maximum |-> max, required |-> required, default |-> Number(min)]

(* like a section of the schema of hyperion: scalars, an enumeration, an    *)
(* array with a default; nothing but these                                  *)
Section(required) ==
  [type |-> "object", required |-> required, additionalProperties |-> FALSE,
   properties |-> [a |-> Integer(1, 2, TRUE),
                   b |-> [type |-> "boolean", required |-> TRUE, default |-> Bool(TRUE)],
                   l |-> [type |-> "array", required |-> TRUE, minItems |-> 1, uniqueItems |-> TRUE,
                          items |-> Integer(1, 2, FALSE), default |-> Array(<<Number(1)>>)]]]
FlatSchema ==
  [type |-> "object", additionalProperties |-> FALSE, properties |-> [s |-> Section(TRUE), t |-> Section(FALSE)]]
Partials(S, V(_)) == UNION {{f \in [d -> UNION {V(n) : n \in S}] : \A n \in d : f[n] \in V(n)} : d \in SUBSET S}

SectionValues(n) ==
  CASE n = "a" -> {Number(1), Number(2), Number(3), Bool(TRUE)}
    [] n = "b" -> {Bool(FALSE), Number(1)}
    [] n = "l" -> {Array(<<>>), Array(<<Number(2), Number(1)>>), Array(<<Number(2), Number(2)>>), Array(<<Number(2), Number(3)>>)}
    [] OTHER -> {Number(1)}
SectionConfigs == {Object(f) : f \in Partials({"a", "b", "l", "x"}, SectionValues)} \union {Number(1)}
FlatCases == {[schema |-> FlatSchema, config |-> Object([s |-> c])] : c \in SectionConfigs}
  \union {[schema |-> FlatSchema, config |-> Object([t |-> c])] : c \in SectionConfigs}

(* like color.channelAdjustment: a list of objects *)
ListSchema ==
  [type |-> "object", additionalProperties |-> FALSE,
   properties |-> [l |-> [type |-> "array", required |-> TRUE, items |->
     [type |-> "object", required |-> TRUE, additionalProperties |-> FALSE,
      properties |-> [a |-> Integer(1, 2, TRUE), b |-> Integer(1, 2, TRUE)]]]]]
Entries == {Object(f) : f \in Partials({"a", "b", "x"}, LAMBDA n : {Number(2), Number(3)})}
ListCases(lengths) ==
  {[schema |-> ListSchema, config |-> Object([l |-> Array(s)])] : s \in UNION {[1 .. n -> Entries] : n \in lengths}}

MCNames == <<"a", "b", "l", "s", "t", "x">>
MCCases == FlatCases \union ListCases({0, 1})
MCInternal == 1 :> "rainbow"
MCFileName == "rainbow" :> 1 @@ "my mood" :> 2 @@ "mymood" :> 2
MCArgs == {[smoothing |-> 0], [smoothing |-> 500]}

MCNeeds == [i \in Ids |-> IF i \in Services THEN Modules ELSE {}]

(* the parts that do not run start from one state *)
SchemaIdle  == SchemaInit  /\ config = Object([l |-> Array(<<>>)]) /\ schema = ListSchema
StoreIdle   == StoreInit   /\ table = TORN /\ file = [k \in Keys |-> DefaultValue]
PluginsIdle == PluginInit  /\ installed = Empty
EffectsIdle == EffectsInit /\ disabled = {} /\ \A p \in Places : p[1] # 0 => disk[p] = NoFile

Init ==
  \/ part = "schema"  /\ StoreIdle /\ PluginsIdle /\ EffectsIdle /\ SchemaInit
  \/ part = "store"   /\ SchemaIdle /\ PluginsIdle /\ EffectsIdle /\ StoreInit
  \/ part = "plugins" /\ SchemaIdle /\ StoreIdle /\ EffectsIdle /\ PluginInit
  \/ part = "effects" /\ SchemaIdle /\ StoreIdle /\ PluginsIdle /\ EffectsInit

Next ==
  \/ part = "schema"  /\ SchemaNext /\ UNCHANGED <<part, storeVars, pluginVars, effectVars>>
  \/ part = "store"   /\ StoreNext  /\ UNCHANGED <<part, schemaVars, pluginVars, effectVars>>
  \/ part = "plugins" /\ PluginNext /\ UNCHANGED <<part, schemaVars, storeVars, effectVars>>
  \/ part = "effects" /\ EffectsNext /\ UNCHANGED <<part, schemaVars, storeVars, pluginVars>>

Spec == Init /\ [][Next]_vars /\ PluginFairness
=============================================================================
