----------------------------- MODULE EffectFiles -----------------------------
(***************************************************************************)
(* The effects that can be run: EffectEngine::readEffects() with the files *)
(* of the internal directory 0 and of the directories of the settings, and *)
(* JsonAPI's commands that create and delete them.  A file is a number, in *)
(* the order a directory lists them.                                       *)
(***************************************************************************)
EXTENDS Integers, FiniteSets, Sequences, Functions

CONSTANTS EffectNames,
          Internal,       \* those of directory 0: file number -> name
          FileName,       \* name -> file number: blanks are left out
          Directories,    \* 1 .. n, "paths" of the settings
          EffectArgs,     \* [smoothing]: 0, or the custom settling time
          MaxReads,       \* bound on readings of the files
          NoFile

ASSUME DirectoriesAssumption ==
  /\ IsFiniteSet(Directories) /\ 1 \in Directories /\ Directories \subseteq Nat \ {0}
ASSUME FileNamesAssumption ==
  /\ IsFiniteSet(EffectNames) /\ FileName \in [EffectNames -> Nat]
  /\ IsFiniteSet(DOMAIN Internal) /\ Internal \in [DOMAIN Internal -> EffectNames]
  /\ DOMAIN Internal \subseteq Nat
ASSUME ArgsAssumption ==
  /\ \E a \in EffectArgs : a.smoothing = 0
  /\ NoFile \notin [name : EffectNames, args : EffectArgs]

VARIABLES reads,
          disk,           \* [directory, file] -> [name, args] or NoFile
          disabled,       \* "disable" of the settings the engine was made with
          availableEffects, \* name -> [at, args, smoothCfg]
          cfgList,        \* the settings at 0, a pause at 1, then one per file read
          edited,         \* files were changed by others since they were read
          asked           \* the last effect that was created: [name, args], or NoFile

effectVars == <<reads, disk, disabled, availableEffects, cfgList, edited, asked>>

FileNumbers == {FileName[n] : n \in EffectNames} \cup DOMAIN Internal
Places == ({0} \cup Directories) \X FileNumbers
DefaultArgs == CHOOSE a \in EffectArgs : a.smoothing = 0
Before(p, q) == p[1] < q[1] \/ (p[1] = q[1] /\ p[2] < q[2])

Contents == {NoFile} \cup {[name |-> n, args |-> DefaultArgs] : n \in EffectNames}

(* loadEffectDefinition(): a file that it refuses counts as absent *)
Loaded(files)  == {p \in Places : files[p] # NoFile}
NamesIn(files) == {files[p].name : p \in Loaded(files)}

(* p is the n-th file that is read *)
Position(files, p) == Cardinality({q \in Loaded(files) : q = p \/ Before(q, p)})

(* the last file read with a name defines the effect *)
Definition(files, n) == CHOOSE p \in Loaded(files) :
  /\ files[p].name = n
  /\ \A q \in Loaded(files) : files[q].name = n => q = p \/ Before(q, p)

AddSmoothingConfig(args) == [pause |-> args.smoothing = 0, time |-> args.smoothing]

(* a definition refers to the configuration that was added for it, behind  *)
(* the default 0 and the pause 1                                           *)
SmoothCfg == Len(cfgList) - 1

Effects(files, base) ==
  [n \in NamesIn(files) \ disabled |->
     LET p == Definition(files, n)
     IN [at |-> p, args |-> files[p].args, smoothCfg |-> base + Position(files, p)]]

EffectConfigs(files) ==
  [i \in 1 .. Cardinality(Loaded(files)) |->
     LET p == CHOOSE q \in Loaded(files) : Position(files, q) = i
     IN AddSmoothingConfig(files[p].args)]

(* readEffects() *)
ReadEffects(files) ==
  /\ reads < MaxReads /\ reads' = reads + 1
  /\ availableEffects' = Effects(files, SmoothCfg)
  /\ cfgList' = cfgList \o EffectConfigs(files)

EffectsInit ==
  /\ reads = 0
  /\ \E own \in [Directories \X FileNumbers -> Contents] :
       disk = [p \in Places |-> IF p[1] # 0 THEN own[p]
                                ELSE IF p[2] \in DOMAIN Internal THEN [name |-> Internal[p[2]], args |-> DefaultArgs]
                                ELSE NoFile]
  /\ disabled \in SUBSET Range(Internal)
  /\ cfgList = <<[pause |-> FALSE, time |-> 200], [pause |-> TRUE, time |-> 0]>> \o EffectConfigs(disk)
  /\ availableEffects = Effects(disk, 1)
  /\ edited = FALSE /\ asked = NoFile

(* mutant: an effect is written to the first directory, where it may be    *)
(* hidden by the one that is in use                                        *)
NewFileName_First(name) == <<1, FileName[name]>>

(* where handleCreateEffectCommand() writes *)
NewFileName(name) == IF name \in DOMAIN availableEffects THEN availableEffects[name].at ELSE <<1, FileName[name]>>

Writable(at) == at[1] # 0

(* with arguments the schema of the script accepts; the internal effects   *)
(* are refused.  written is FALSE when the file cannot be                  *)
CreateEffect(name, args, written) ==
  LET at == NewFileName(name)
      files == [disk EXCEPT ![at] = [name |-> name, args |-> args]]
  IN /\ Writable(at)
     /\ IF written
        THEN /\ disk' = files /\ ReadEffects(files)
             /\ edited' = FALSE
             /\ asked' = IF edited THEN NoFile ELSE [name |-> name, args |-> args]
        ELSE UNCHANGED <<reads, disk, availableEffects, cfgList, edited, asked>>
     /\ UNCHANGED disabled

(* handleDeleteEffectCommand(): a file that is gone already is an error *)
DeleteEffect(name) ==
  /\ name \in DOMAIN availableEffects
  /\ LET at == availableEffects[name].at
         files == [disk EXCEPT ![at] = NoFile]
     IN Writable(at) /\ disk[at] # NoFile /\ disk' = files /\ ReadEffects(files)
  /\ edited' = FALSE /\ asked' = NoFile
  /\ UNCHANGED disabled

(* somebody edits, adds or removes a file, one between two readings; it is *)
(* read with the next reload                                               *)
EditEffectFile(p, content) ==
  /\ ~edited /\ p[1] # 0 /\ disk[p] # content
  /\ disk' = [disk EXCEPT ![p] = content]
  /\ edited' = TRUE /\ asked' = NoFile
  /\ UNCHANGED <<reads, disabled, availableEffects, cfgList>>

EffectsNext ==
  \/ \E n \in EffectNames : DeleteEffect(n) \/ \E a \in EffectArgs, w \in BOOLEAN : CreateEffect(n, a, w)
  \/ \E p \in Places, content \in Contents : EditEffectFile(p, content)

EffectsSpec == EffectsInit /\ [][EffectsNext]_effectVars

-----------------------------------------------------------------------------
(* An effect that a client has created runs as created: no other file of   *)
(* its name hides it, whatever the directories held when they were last    *)
(* read, unless it is disabled (readEffects(), handleCreateEffectCommand()). *)
CreatedRuns ==
  asked # NoFile /\ asked.name \notin disabled =>
    asked.name \in DOMAIN availableEffects /\ availableEffects[asked.name].args = asked.args

(* The internal effects stay: clients neither overwrite nor delete them,   *)
(* and each is found unless it is disabled or a file overloads it.         *)
InternalKept ==
  \A f \in DOMAIN Internal :
    /\ disk[<<0, f>>] # NoFile
    /\ Internal[f] \notin disabled => Internal[f] \in DOMAIN availableEffects

(* An effect is smoothed as its arguments say, through every reload: its   *)
(* configuration is still the one added for it (addSmoothingConfig()).     *)
SmoothedAsAsked ==
  \A n \in DOMAIN availableEffects :
    LET def == availableEffects[n] IN cfgList[def.smoothCfg + 1] = AddSmoothingConfig(def.args)

(* Each effect that a client may ask for is found, and is the one it means  *)
(* (EffectEngine.cpp, readEffects()).                                       *)
EffectsFound == CreatedRuns /\ InternalKept /\ SmoothedAsAsked
=============================================================================
