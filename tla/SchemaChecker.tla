---------------------------- MODULE SchemaChecker ----------------------------
(***************************************************************************)
(* Validation and automatic correction of a configuration                  *)
(* (QJsonSchemaChecker.cpp, QJsonUtils.h).  validate() walks value and     *)
(* schema together; getAutoCorrectedConfig() walks three times, and each   *)
(* walk reads the configuration as it was before it and rebuilds the whole *)
(* tree for every correction.                                              *)
(* A value is a pair of a kind and its content.  Kinds of numbers and the  *)
(* lengths of strings are one kind "number"; a schema is a function from   *)
(* its attributes.  Positions in arrays are counted from 1.                *)
(***************************************************************************)
EXTENDS Integers, SequencesExt

CONSTANTS
  Names,        \* property names, in the order in which QJsonObject keeps them
  Cases         \* pairs [schema, config] to check

VARIABLES schema, original, config, pass

schemaVars == <<schema, original, config, pass>>

Null      == <<"null", 0>>
Object(f) == <<"object", f>>
Array(s)  == <<"array", s>>
Number(n) == <<"number", n>>
Bool(b)   == <<"boolean", b>>

Nothing   == Object([n \in {} |-> Null])
IsEmpty(v) == v \in {Nothing, Array(<<>>)}
Fields(v)  == IF v[1] = "object" THEN v[2] ELSE [n \in {} |-> Null]
In(f)      == SelectSeq(Names, LAMBDA n : n \in DOMAIN f)
Put(f, n, v) == [m \in DOMAIN f \union {n} |-> IF m = n THEN v ELSE f[m]]

Get(s, attribute, otherwise) == IF attribute \in DOMAIN s THEN s[attribute] ELSE otherwise
Default(s)  == Get(s, "default", Null)
Required(s) == Get(s, "required", FALSE)
DefaultOr(s, bound) == IF "default" \in DOMAIN s THEN s.default ELSE bound

-----------------------------------------------------------------------------
(* QJsonUtils::createValue(): null, or a value that validates *)
RECURSIVE Create(_)
Create(s) ==
  LET parts == Get(s, "properties", [n \in {} |-> s])
      Made  == {n \in DOMAIN parts : Required(parts[n])}
      item  == Create(s.items)
  IN  CASE ~Required(s) -> Null
        [] Required(s) /\ s.type = "object" -> Object([n \in Made |-> Create(parts[n])])
        [] Required(s) /\ s.type = "array" /\ "default" \notin DOMAIN s ->
             Array(IF Fields(item) = Fields(Nothing) THEN <<>> ELSE <<item>>)
        [] OTHER -> Default(s)

Element(i, index, old, new) == IF i = index THEN new ELSE old

(* QJsonUtils::modifyValue(): rebuilds an object with new at path; a null   *)
(* new removes, prop is the name to create and is cleared once it is used.  *)
(* Each name that matches shortens the path for its later siblings too, and *)
(* below an array every element is rebuilt with the same rest of the path.  *)
RECURSIVE Rebuild(_, _, _, _)
Rebuild(obj, path, new, prop) ==
  LET Elements(items, index, rest, p) ==
        FoldLeft(LAMBDA a, i :
            LET r == IF rest = <<>> THEN [value |-> new, prop |-> a.prop]
                     ELSE Rebuild(items[i], rest, new, a.prop)
                v == IF ~IsEmpty(r.value) /\ r.value[1] = "object" THEN <<r.value>>
                     ELSE IF new # Null /\ index # 0 THEN <<Element(i, index, items[i], r.value)>>
                     ELSE <<>>
            IN  [items |-> a.items \o v, prop |-> r.prop],
          [items |-> <<>>, prop |-> p], [i \in 1 .. Len(items) |-> i])
      Step(a, name) ==
        LET sub  == obj[2][name]
            Keep == [a EXCEPT !.target = Put(@, name, sub)]
            rest == Tail(a.path)
            onIndex == rest # <<>> /\ sub[1] = "array" /\ Head(rest) \in Nat
            below == IF onIndex THEN Tail(rest) ELSE rest
            deep == IF sub[1] = "object" /\ rest # <<>>
                    THEN Rebuild(sub, rest, new, a.prop) ELSE [value |-> new, prop |-> a.prop]
            all  == Elements(sub[2], IF onIndex THEN Head(rest) ELSE 0, below, a.prop)
            Into(v, q, keep) == [target |-> IF keep THEN Put(a.target, name, v) ELSE a.target,
                                 path |-> below, prop |-> q]
        IN  CASE a.path = <<>> -> IF IsEmpty(sub) THEN a ELSE Keep
              [] a.path # <<>> /\ name # Head(a.path) ->
                   IF Head(a.path) = a.prop /\ new # Null
                   THEN [Keep EXCEPT !.target = Put(@, a.prop, new), !.prop = ""] ELSE Keep
              [] a.path # <<>> /\ name = Head(a.path) /\ sub[1] = "object" ->
                   Into(deep.value, deep.prop, deep.value[1] = "object" /\ ~IsEmpty(deep.value))
              [] a.path # <<>> /\ name = Head(a.path) /\ sub[1] = "array" ->
                   IF all.items = <<>> THEN Into(new, all.prop, new # Null /\ ~onIndex)
                   ELSE Into(Array(all.items), all.prop, TRUE)
              [] OTHER ->
                   IF rest # <<>> THEN Into(sub, a.prop, TRUE)
                   ELSE Into(new, a.prop, new # Null /\ a.prop = "")
      done == FoldLeft(Step, [target |-> Fields(Nothing), path |-> path, prop |-> prop], In(Fields(obj)))
  IN  IF Fields(obj) = Fields(Nothing) /\ new # Null /\ prop # ""
      THEN [value |-> Object(Put(Fields(Nothing), prop, new)), prop |-> ""]
      ELSE [value |-> Object(done.target), prop |-> done.prop]

Modify(value, fix) == Rebuild(value, fix.path, fix.new, fix.prop).value

-----------------------------------------------------------------------------
(* What validate() objects to in value v of schema s, in the order of the   *)
(* attributes.  "by" is the walk that corrects it with "new".               *)
Finding(path, by, new) == <<[path |-> path, by |-> by, new |-> new, prop |-> "", error |-> TRUE]>>
When(condition, found) == IF condition THEN found ELSE <<>>

CheckType(v, s, path) ==
  When("type" \in DOMAIN s /\ v[1] # s.type, Finding(path, "modify", Default(s)))

CheckEnum(v, s, path) ==
  When("enum" \in DOMAIN s /\ v \notin Get(s, "enum", {}),
       Finding(path, "modify", DefaultOr(s, Get(s, "first", Null))))

(* a bound on a value of another kind is an error that this check cannot    *)
(* correct; minItems without a default becomes the number itself            *)
CheckBound(v, s, path, attribute, kind) ==
  LET size == IF kind = "array" THEN Len(v[2]) ELSE v[2]
      outside == IF attribute \in {"maxItems", "maximum"} THEN size > s[attribute] ELSE size < s[attribute]
  IN  When(attribute \in DOMAIN s,
           IF v[1] # kind THEN Finding(path, "nothing", Null)
           ELSE When(outside, Finding(path, "modify", DefaultOr(s, Number(s[attribute])))))

CheckAdditional(v, s, path) ==
  FlattenSeq([i \in 1 .. Len(In(Fields(v))) |->
    LET n == In(Fields(v))[i]
    IN  When(~Get(s, "additionalProperties", TRUE) /\ n \notin DOMAIN Get(s, "properties", Fields(Nothing)),
             Finding(path \o <<n>>, "remove", Null))])

CheckUnique(v, s, path) ==
  LET First(a, x) == IF Contains(a, x) THEN a ELSE Append(a, x)
      once == FoldLeft(First, <<>>, IF v[1] = "array" THEN v[2] ELSE <<>>)
  IN  When(Get(s, "uniqueItems", FALSE) /\ v # Array(once), Finding(path, "modify", Array(once)))

RECURSIVE Validate(_, _, _)
Validate(v, s, path) ==
  LET parts == Get(s, "properties", Fields(Nothing))
      Items == IF "items" \notin DOMAIN s THEN <<>>
               ELSE IF v[1] # "array" THEN Finding(path, "nothing", Null)
               ELSE When(v[2] = <<>>, <<[Finding(path, "remove", Null)[1] EXCEPT !.error = FALSE]>>)
                    \o FlattenSeq([i \in 1 .. Len(v[2]) |-> Validate(v[2][i], s.items, Append(path, i))])
      Property(n) ==
        IF n \in DOMAIN Fields(v) THEN Validate(v[2][n], parts[n], Append(path, n))
        ELSE When(Required(parts[n]),
                  <<[Finding(Append(path, n), "create", Create(parts[n]))[1] EXCEPT !.prop = n]>>)
  IN  CheckAdditional(v, s, path) \o CheckEnum(v, s, path) \o Items
      \o CheckBound(v, s, path, "maxItems", "array") \o CheckBound(v, s, path, "maximum", "number")
      \o CheckBound(v, s, path, "minItems", "array") \o CheckBound(v, s, path, "minimum", "number")
      \o (IF v[1] # "object" THEN <<>>
          ELSE FlattenSeq([i \in 1 .. Len(In(parts)) |-> Property(In(parts)[i])]))
      \o CheckType(v, s, path) \o CheckUnique(v, s, path)

Valid(v, s) == \A i \in DOMAIN Validate(v, s, <<>>) : ~Validate(v, s, <<>>)[i].error

(* one walk of getAutoCorrectedConfig() *)
Walk(v, s, by) ==
  FoldLeft(Modify, v, SelectSeq(Validate(v, s, <<>>), LAMBDA f : f.by = by))

-----------------------------------------------------------------------------
SchemaInit ==
  \E c \in Cases : /\ schema = c.schema /\ original = c.config /\ config = c.config
                   /\ pass = IF Valid(c.config, c.schema) THEN 4 ELSE 1

(* mutant: members are created before wrong ones are removed *)
Sequence_Early == <<"remove", "create", "modify">>

Sequence == <<"remove", "modify", "create">>

AutoCorrect ==
  /\ pass <= Len(Sequence)
  /\ config' = Walk(config, schema, Sequence[pass])
  /\ pass' = pass + 1
  /\ UNCHANGED <<schema, original>>

SchemaNext == AutoCorrect

-----------------------------------------------------------------------------
RECURSIVE Leaves(_, _)
Leaves(v, path) ==
  CASE v[1] \in {"object", "array"} -> UNION {Leaves(v[2][n], Append(path, n)) : n \in DOMAIN v[2]}
    [] OTHER -> {<<path, v>>}

Done == pass > Len(Sequence)

(* What saveSettings() writes validates: it does not look again after the  *)
(* correction (QJsonSchemaChecker.cpp, getAutoCorrectedConfig()).          *)
CorrectedValid == Done => Valid(config, schema)

(* The correction leaves alone what is in order: a value that no check      *)
(* objects to, nor to anything around it, is in the corrected configuration *)
(* at its place (QJsonUtils.h, modifyValue()).                              *)
KeepsValid ==
  LET found == Validate(original, schema, <<>>)
      Blamed(path) == \E i \in DOMAIN found : IsPrefix(found[i].path, path)
  IN  Done => \A leaf \in Leaves(original, <<>>) : ~Blamed(leaf[1]) => leaf \in Leaves(config, <<>>)

(* The corrected configuration is valid and loses nothing that was          *)
(* (saveSettings(), schemaChecker.getAutoCorrectedConfig()).                *)
Corrected == CorrectedValid /\ KeepsValid
=============================================================================
