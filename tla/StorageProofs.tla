--------------------------- MODULE StorageProofs ----------------------------
(***************************************************************************)
(* What is stored: the settings and the plugins, each for every value of   *)
(* its constants.  They share no state, so each keeps its own invariant.   *)
(***************************************************************************)
EXTENDS SettingsStore, PluginLifecycle, EffectFiles, FiniteSetTheorems, SequenceTheorems,
        WellFoundedInduction, TLAPS

-----------------------------------------------------------------------------
(***************************************************************************)
(* The settings for every set of keys and values.  SettingsAgree is not    *)
(* inductive: a save that is under way has to be described by what it has  *)
(* done so far.  The records already visited are those that are no longer  *)
(* in todo; they are in the table, the file and the configuration.         *)
(***************************************************************************)

(* No save is under way, or one that has come this far.                     *)
Underway ==
  \/ saving = IDLE
  \/ /\ origin = "saving" /\ qconfig # DOWN
     /\ saving = [step |-> saving.step, config |-> saving.config, todo |-> saving.todo]
     /\ saving.config \in Configs /\ Validates(saving.config)
     /\ saving.step \in {"file", "table"} /\ saving.todo \subseteq Keys
     /\ saving.step = "file" =>
          /\ saving.todo = Keys
          /\ agreed => applied = qconfig /\ qconfig = table
     /\ saving.step = "table" =>
          /\ file = saving.config /\ qconfig = saving.config
          /\ \A k \in Keys \ saving.todo : table[k] = saving.config[k]
          /\ agreed => applied = table

(* While the program runs the table has a record for every key. *)
Up ==
  qconfig # DOWN => /\ qconfig \in Configs /\ table \in Configs /\ applied \in [Keys -> Values]
                    /\ agreed => applied = table

StoreInv ==
  /\ file \in Configs \union {TORN}
  /\ Up /\ Underway
  /\ agreed \in BOOLEAN
  /\ SettingsAgree

LEMMA NotDown == \A c \in Configs : c # DOWN
<1> SUFFICES ASSUME NEW c \in Configs, c = DOWN PROVE FALSE
  OBVIOUS
<1>1. DOMAIN c = Keys /\ DOMAIN c = {}
  BY DEF Configs, DOWN, TORN
<1> QED
  BY <1>1, StoreAssumption DEF Keys

LEMMA CorrectFacts ==
  ASSUME NEW c PROVE Correct(c) \in Configs /\ Validates(Correct(c))
BY StoreAssumption DEF Correct, Configs, Validates, Values

(* What is valid is not changed by its correction, nor by filling it.       *)
LEMMA ValidStays ==
  ASSUME NEW c \in Configs, Validates(c) PROVE Correct(Filled(c)) = c
<1>1. DOMAIN c = Keys /\ \A k \in Keys : Filled(c)[k] = c[k]
  BY DEF Configs, Filled, RecordExists
<1>2. \A k \in Keys : Correct(Filled(c))[k] = c[k]
  BY <1>1 DEF Correct, Validates
<1>3. Correct(Filled(c)) \in Configs
  BY CorrectFacts
<1> QED
  BY <1>2, <1>3 DEF Configs

LEMMA StoreInitInv == StoreInit => StoreInv
<1> SUFFICES ASSUME StoreInit PROVE StoreInv
  OBVIOUS
<1>1. file \in Configs /\ qconfig = DOWN /\ saving = IDLE /\ origin = "edited" /\ agreed = FALSE
  BY DEF StoreInit
<1> QED
  BY <1>1 DEF StoreInv, Up, Underway, SettingsAgree, SavedEverywhere, AppliedIsConfig

LEMMA StartInv == ASSUME StoreInv, StartManagers PROVE StoreInv'
<1>1. /\ qconfig = DOWN /\ file \in Configs /\ table' = Correct(Filled(table))
      /\ qconfig' = file /\ file' = file /\ saving' = saving /\ origin' = origin
      /\ applied' = [k \in Keys |-> IF k \in ServiceKeys THEN table'[k] ELSE file[k]]
      /\ agreed' = (table' = file)
  BY DEF StoreInv, StartManagers, StartConfig
<1>2. table' \in Configs /\ qconfig' # DOWN
  BY <1>1, CorrectFacts, NotDown
<1>3. applied' \in Configs /\ (agreed' => applied' = table')
  BY <1>1, <1>2 DEF Configs
<1>4. origin = "saved" => table' = file
  BY <1>1, ValidStays DEF StoreInv, SettingsAgree, SavedEverywhere
<1>5. saving = IDLE
  BY <1>1 DEF StoreInv, Underway
<1> QED
  BY <1>1, <1>2, <1>3, <1>4, <1>5
     DEF StoreInv, Up, Underway, SettingsAgree, SavedEverywhere, AppliedIsConfig, Configs, Validates

LEMMA SaveInv == ASSUME StoreInv, NEW c \in Configs, Save(c) PROVE StoreInv'
<1>1. /\ qconfig # DOWN /\ saving = IDLE /\ UNCHANGED <<table, qconfig, applied, agreed>>
      /\ saving' = [step |-> "file", config |-> Correct(c), todo |-> Keys]
      /\ file' = TORN /\ origin' = "saving"
  BY DEF Save
<1>2. /\ saving' # IDLE /\ saving'.step = "file" /\ saving'.config = Correct(c)
      /\ saving'.todo = Keys
  BY <1>1 DEF IDLE
<1>3. agreed => applied = qconfig /\ qconfig = table
  BY <1>1 DEF StoreInv, SettingsAgree, AppliedIsConfig
<1>4. saving'.config \in Configs /\ Validates(saving'.config)
  BY <1>2, CorrectFacts
<1>5. Underway'
  BY <1>1, <1>2, <1>3, <1>4 DEF Underway, Validates
<1>6. Up' /\ SettingsAgree'
  BY <1>1, <1>2 DEF StoreInv, Up, SettingsAgree, SavedEverywhere, AppliedIsConfig
<1> QED
  BY <1>1, <1>5, <1>6 DEF StoreInv

LEMMA SaveFileInv == ASSUME StoreInv, SaveFile PROVE StoreInv'
<1>1. /\ saving.step = "file" /\ UNCHANGED <<table, applied, origin, agreed>>
      /\ file' = saving.config /\ qconfig' = saving.config
      /\ saving' = [saving EXCEPT !.step = "table"]
  BY DEF SaveFile
<1>2. saving # IDLE
  BY <1>1 DEF IDLE
<1>3. /\ origin = "saving" /\ qconfig # DOWN
      /\ saving = [step |-> saving.step, config |-> saving.config, todo |-> saving.todo]
      /\ saving.config \in Configs /\ Validates(saving.config) /\ saving.todo = Keys
  BY <1>1, <1>2 DEF StoreInv, Underway
<1>4. saving' = [step |-> "table", config |-> saving.config, todo |-> Keys]
  BY <1>1, <1>3
<1>5. qconfig' \in Configs /\ qconfig' # DOWN /\ table \in Configs
  BY <1>1, <1>3, NotDown DEF StoreInv, Up
<1>6. Up'
  BY <1>1, <1>3, <1>5 DEF StoreInv, Up
<1>7. /\ saving'.step = "table" /\ saving'.config = saving.config /\ saving'.todo = Keys
      /\ saving' # IDLE
  BY <1>4 DEF IDLE
<1>8. Underway'
  BY <1>1, <1>3, <1>4, <1>5, <1>6, <1>7 DEF Underway, Up
<1>9. SettingsAgree'
  BY <1>1, <1>3, <1>7 DEF SettingsAgree, SavedEverywhere, AppliedIsConfig
<1> QED
  BY <1>1, <1>3, <1>6, <1>8, <1>9 DEF StoreInv

LEMMA SaveRecordInv == ASSUME StoreInv, NEW k \in Keys, SaveRecord(k) PROVE StoreInv'
<1>1. /\ saving.step = "table" /\ k \in saving.todo
      /\ UNCHANGED <<file, qconfig, origin, agreed>>
      /\ saving' = [saving EXCEPT !.todo = @ \ {k}]
      /\ \/ /\ table[k] # saving.config[k]
            /\ table' = CreateRecord(table, k, saving.config[k])
            /\ applied' = [applied EXCEPT ![k] = saving.config[k]]
         \/ table[k] = saving.config[k] /\ UNCHANGED <<table, applied>>
  BY DEF SaveRecord, Differs
<1>2. saving # IDLE
  BY <1>1 DEF IDLE
<1>3. /\ origin = "saving" /\ qconfig # DOWN
      /\ saving = [step |-> saving.step, config |-> saving.config, todo |-> saving.todo]
      /\ saving.config \in Configs /\ Validates(saving.config) /\ saving.todo \subseteq Keys
      /\ file = saving.config /\ qconfig = saving.config
      /\ \A q \in Keys \ saving.todo : table[q] = saving.config[q]
  BY <1>1, <1>2 DEF StoreInv, Underway
<1>4. table \in Configs /\ applied \in [Keys -> Values] /\ (agreed => applied = table)
  BY <1>3 DEF StoreInv, Up
<1>5. saving.config[k] \in Values
  BY <1>3 DEF Configs
<1>6. CreateRecord(table, k, saving.config[k]) = [table EXCEPT ![k] = saving.config[k]]
  BY <1>4 DEF CreateRecord, Configs
<1>7. /\ table' \in Configs /\ applied' \in [Keys -> Values]
      /\ agreed => applied' = table'
      /\ \A q \in Keys \ (saving.todo \ {k}) : table'[q] = saving.config[q]
  BY <1>1, <1>3, <1>4, <1>5, <1>6 DEF Configs
<1>8. saving' = [step |-> "table", config |-> saving.config, todo |-> saving.todo \ {k}]
  BY <1>1, <1>3
<1>9. /\ saving'.step = "table" /\ saving'.config = saving.config
      /\ saving'.todo = saving.todo \ {k} /\ saving' # IDLE
  BY <1>8 DEF IDLE
<1>10. Up'
  BY <1>1, <1>3, <1>7 DEF Up
<1>11. Underway'
  BY <1>1, <1>3, <1>7, <1>8, <1>9 DEF Underway
<1>12. SettingsAgree'
  BY <1>1, <1>3, <1>9 DEF SettingsAgree, SavedEverywhere, AppliedIsConfig
<1> QED
  BY <1>1, <1>10, <1>11, <1>12 DEF StoreInv

LEMMA SaveDoneInv == ASSUME StoreInv, SaveDone PROVE StoreInv'
<1>1. /\ saving.step = "table" /\ saving.todo = {} /\ saving' = IDLE /\ origin' = "saved"
      /\ UNCHANGED <<file, table, qconfig, applied, agreed>>
  BY DEF SaveDone
<1>2. saving # IDLE
  BY <1>1 DEF IDLE
<1>3. /\ qconfig # DOWN /\ saving.config \in Configs /\ Validates(saving.config)
      /\ file = saving.config /\ qconfig = saving.config
      /\ \A q \in Keys : table[q] = saving.config[q]
      /\ agreed => applied = table
  BY <1>1, <1>2 DEF StoreInv, Underway
<1>4. table = saving.config
  BY <1>3 DEF StoreInv, Up, Configs
<1> QED
  BY <1>1, <1>3, <1>4
     DEF StoreInv, Up, Underway, SettingsAgree, SavedEverywhere, AppliedIsConfig

LEMMA StoreNextInv == StoreInv /\ [StoreNext]_storeVars => StoreInv'
<1> SUFFICES ASSUME StoreInv, [StoreNext]_storeVars PROVE StoreInv'
  OBVIOUS
<1>1. CASE StartManagers
  BY <1>1, StartInv
<1>2. CASE SaveFile
  BY <1>2, SaveFileInv
<1>3. CASE SaveFails
  <2>1. /\ saving.step = "file" /\ saving' = IDLE /\ origin' = "failed"
        /\ UNCHANGED <<file, table, qconfig, applied, agreed>>
    BY <1>3 DEF SaveFails
  <2>2. saving # IDLE
    BY <2>1 DEF IDLE
  <2>3. AppliedIsConfig'
    BY <2>1, <2>2 DEF StoreInv, Underway, AppliedIsConfig
  <2> QED
    BY <2>1, <2>3 DEF StoreInv, Up, Underway, SettingsAgree, SavedEverywhere
<1>4. CASE SaveDone
  BY <1>4, SaveDoneInv
<1>5. CASE Exit
  BY <1>5 DEF Exit, StoreInv, Up, Underway, SettingsAgree, SavedEverywhere, AppliedIsConfig, Validates
<1>6. ASSUME NEW c \in Configs, Save(c) PROVE StoreInv'
  BY <1>6, SaveInv
<1>7. ASSUME NEW c \in Configs, EditFile(c) PROVE StoreInv'
  <2>1. /\ qconfig = DOWN /\ file' = c /\ origin' = "edited"
        /\ UNCHANGED <<table, qconfig, applied, saving, agreed>>
    BY <1>7 DEF EditFile
  <2>2. saving = IDLE
    BY <2>1 DEF StoreInv, Underway
  <2> QED
    BY <2>1, <2>2 DEF StoreInv, Up, Underway, SettingsAgree, SavedEverywhere, AppliedIsConfig
<1>8. ASSUME NEW k \in Keys, SaveRecord(k) PROVE StoreInv'
  BY <1>8, SaveRecordInv
<1>9. CASE UNCHANGED storeVars
  BY <1>9 DEF storeVars, StoreInv, Up, Underway, SettingsAgree, SavedEverywhere, AppliedIsConfig, Validates
<1> QED
  BY <1>1, <1>2, <1>3, <1>4, <1>5, <1>6, <1>7, <1>8, <1>9 DEF StoreNext

(* After a save that completed, file, table and configuration agree, and    *)
(* components run on them, whatever crashes, failures, edits and restarts   *)
(* went before (SettingsManager::saveSettings()).                           *)
THEOREM SettingsStayTogether == StoreSpec => []SettingsAgree
<1>1. StoreInv => SettingsAgree
  BY DEF StoreInv
<1> QED
  BY <1>1, StoreInitInv, StoreNextInv, PTL DEF StoreSpec

-----------------------------------------------------------------------------
(***************************************************************************)
(* What runs is installed, for every set of plugins, versions and          *)
(* dependencies.  RunsInstalled is strengthened with what stop() relies    *)
(* on: the main thread only waits for a thread that is alive, and nothing  *)
(* but services runs or is enabled.                                        *)
(***************************************************************************)

ThreadRecord == [version : Versions, interrupted : BOOLEAN, remove : BOOLEAN, alive : BOOLEAN]

(* What RunsInstalled asks of the thread t of id: inst are the installed    *)
(* versions, en the enabled ids, later those that come back or are waited   *)
(* for.                                                                     *)
Tidy(id, t, inst, en, later) ==
  /\ id \in DOMAIN inst
  /\ t.alive => /\ t.version # inst[id] => t.interrupted
                /\ t.interrupted => id \in later
                /\ id \in en

PluginInv ==
  /\ threads \in [Running -> ThreadRecord] /\ Running \subseteq Services
  /\ enabled \subseteq Services
  /\ installed = [i \in DOMAIN installed |-> installed[i]]
  /\ \A i \in DOMAIN installed : installed[i] \in Versions
  /\ \A i \in DOMAIN available : available[i] \in Versions
  /\ waiting # NOBODY => waiting \in Running /\ threads[waiting].alive
  /\ \A id \in Running : Tidy(id, threads[id], installed, enabled \union {waiting}, restarts \union {waiting})

LEMMA PluginInvImplies == PluginInv => RunsInstalled
BY DEF PluginInv, Tidy, RunsInstalled

LEMMA NewThread ==
  ASSUME NEW v \in Versions
  PROVE  /\ Thread(v) \in ThreadRecord
         /\ Thread(v).alive /\ ~Thread(v).interrupted /\ Thread(v).version = v
BY DEF Thread, ThreadRecord

(* Plugins::start() keeps the threads tidy: the id it starts may run in a   *)
(* version that has been replaced.                                          *)
LEMMA StartedKeeps ==
  ASSUME NEW ts, NEW en, NEW re, NEW id \in Ids, NEW inst,
         ts \in [DOMAIN ts -> ThreadRecord], DOMAIN ts \subseteq Services, en \subseteq Services,
         \A i \in DOMAIN inst : inst[i] \in Versions,
         inst = installed', waiting' = NOBODY,
         \A j \in DOMAIN ts : j # id => Tidy(j, ts[j], inst, en, re),
         id \in DOMAIN ts => /\ id \in DOMAIN inst
                             /\ ts[id].alive => id \in en /\ (ts[id].interrupted => id \in re),
         Becomes(Started([threads |-> ts, enabled |-> en, restarts |-> re], id)),
         id \notin Services => id \notin DOMAIN ts
  PROVE  /\ threads' \in [DOMAIN threads' -> ThreadRecord] /\ DOMAIN threads' \subseteq Services
         /\ enabled' \subseteq Services
         /\ \A j \in DOMAIN threads' : Tidy(j, threads'[j], inst, enabled', restarts')
<1> DEFINE s == [threads |-> ts, enabled |-> en, restarts |-> re]
<1>1. s.threads = ts /\ s.enabled = en /\ s.restarts = re
  OBVIOUS
<1>2. CASE ~(id \in Services /\ id \in DOMAIN inst)
  <2>1. threads' = ts /\ enabled' = en /\ restarts' = re
    BY <1>2 DEF Becomes, Started, Startable
  <2>2. id \notin DOMAIN ts
    BY <1>2
  <2> QED
    BY <2>1, <2>2
<1>3. CASE id \in Services /\ id \in DOMAIN inst /\ id \notin DOMAIN ts
  <2>1. /\ threads' = [i \in DOMAIN ts \union {id} |-> IF i = id THEN Thread(inst[id]) ELSE ts[i]]
        /\ enabled' = en \union {id} /\ restarts' = re
    BY <1>3 DEF Becomes, Started, Startable
  <2>2. /\ DOMAIN threads' = DOMAIN ts \union {id} /\ threads'[id] = Thread(inst[id])
        /\ \A j \in DOMAIN ts : threads'[j] = ts[j]
    BY <1>3, <2>1
  <2>3. /\ Thread(inst[id]) \in ThreadRecord /\ Tidy(id, Thread(inst[id]), inst, enabled', restarts')
    BY <1>3, <2>1, NewThread DEF Tidy
  <2>4. \A j \in DOMAIN ts : Tidy(j, ts[j], inst, enabled', restarts')
    BY <1>3, <2>1 DEF Tidy
  <2> QED
    BY <1>3, <2>1, <2>2, <2>3, <2>4
<1>4. CASE /\ id \in Services /\ id \in DOMAIN inst /\ id \in DOMAIN ts
           /\ ts[id].interrupted /\ ts[id].alive
  <2>1. threads' = ts /\ enabled' = en /\ restarts' = re
    BY <1>4 DEF Becomes, Started, Startable
  <2>2. Tidy(id, ts[id], inst, en, re)
    BY <1>4 DEF Tidy
  <2> QED
    BY <2>1, <2>2
<1>5. CASE /\ id \in Services /\ id \in DOMAIN inst /\ id \in DOMAIN ts
           /\ ~(ts[id].interrupted /\ ts[id].alive)
  <2>1. threads' = [ts EXCEPT ![id] = Interrupt(@)] /\ enabled' = en /\ restarts' = re \union {id}
    BY <1>5 DEF Becomes, Started, Startable
  <2>2. /\ Interrupt(ts[id]) \in ThreadRecord /\ Interrupt(ts[id]).alive = ts[id].alive
        /\ Interrupt(ts[id]).interrupted = ts[id].alive
    BY <1>5 DEF Interrupt, ThreadRecord
  <2>3. Tidy(id, Interrupt(ts[id]), inst, en, re \union {id})
    BY <1>5, <2>2 DEF Tidy
  <2>4. \A j \in DOMAIN ts : j # id => Tidy(j, ts[j], inst, en, re \union {id})
    BY DEF Tidy
  <2> QED
    BY <1>5, <2>1, <2>2, <2>3, <2>4
<1> QED
  BY <1>2, <1>3, <1>4, <1>5

-----------------------------------------------------------------------------
LEMMA PluginInitInv == PluginInit => PluginInv
<1> SUFFICES ASSUME PluginInit PROVE PluginInv
  OBVIOUS
<1>1. PICK S \in SUBSET Ids : installed \in [S -> Versions]
  BY DEF PluginInit
<1>2. /\ available = Empty /\ waiting = NOBODY /\ restarts = {}
      /\ enabled \subseteq Services /\ enabled \subseteq DOMAIN installed
      /\ threads = [i \in enabled |-> Thread(installed[i])]
  BY DEF PluginInit
<1>3. \A i \in enabled : /\ threads[i] \in ThreadRecord
                         /\ Tidy(i, threads[i], installed, enabled, {})
  BY <1>1, <1>2, NewThread DEF Tidy
<1>4. threads \in [Running -> ThreadRecord] /\ Running = enabled
  BY <1>2, <1>3 DEF Running
<1>5. \A i \in Running : Tidy(i, threads[i], installed, enabled \union {waiting}, restarts \union {waiting})
  BY <1>3, <1>4 DEF Tidy
<1> QED
  BY <1>1, <1>2, <1>4, <1>5 DEF PluginInv, Empty

(* Steps that leave the threads and what is installed alone.                *)
LEMMA OnlyDownloads ==
  ASSUME PluginInv, UNCHANGED <<installed, enabled, threads, restarts, waiting>>,
         \A i \in DOMAIN available' : available'[i] \in Versions
  PROVE  PluginInv'
BY DEF PluginInv, Running, Tidy

LEMMA DownloadedInv ==
  ASSUME PluginInv, NEW id \in Ids, Downloaded(id) PROVE PluginInv'
<1>1. /\ waiting = NOBODY /\ waiting' = NOBODY /\ id \in DOMAIN available /\ UNCHANGED available
      /\ installed' = [i \in DOMAIN installed \union {id} |-> IF i = id THEN available[id] ELSE installed[i]]
      /\ \/ AfterInstall(id) /\ Becomes(Started(State, id))
         \/ ~AfterInstall(id) /\ UNCHANGED <<threads, enabled, restarts>>
  BY DEF Downloaded, MainFree
<1>2. /\ DOMAIN installed' = DOMAIN installed \union {id}
      /\ \A i \in DOMAIN installed' : installed'[i] \in Versions
      /\ \A i \in DOMAIN installed : i # id => installed'[i] = installed[i]
  BY <1>1 DEF PluginInv
<1>3. NOBODY \notin Services
  BY PluginAssumption
<1>4. \A j \in Running : j # id => Tidy(j, threads[j], installed', enabled, restarts)
  BY <1>1, <1>2, <1>3 DEF PluginInv, Tidy
<1>5. id \in Running => /\ threads[id].alive => /\ id \in enabled
                                                /\ threads[id].interrupted => id \in restarts
  BY <1>1, <1>3 DEF PluginInv, Tidy
<1>6. CASE AfterInstall(id) /\ Becomes(Started(State, id))
  <2>1. /\ threads' \in [DOMAIN threads' -> ThreadRecord] /\ DOMAIN threads' \subseteq Services
        /\ enabled' \subseteq Services
        /\ \A j \in DOMAIN threads' : Tidy(j, threads'[j], installed', enabled', restarts')
    <3>1. /\ threads \in [DOMAIN threads -> ThreadRecord] /\ DOMAIN threads \subseteq Services
          /\ enabled \subseteq Services
          /\ \A j \in DOMAIN threads : j # id => Tidy(j, threads[j], installed', enabled, restarts)
      BY <1>4 DEF PluginInv, Running
    <3>2. id \in DOMAIN threads =>
            /\ id \in DOMAIN installed'
            /\ threads[id].alive => id \in enabled /\ (threads[id].interrupted => id \in restarts)
      BY <1>2, <1>5 DEF Running
    <3>3. id \notin Services => id \notin DOMAIN threads
      BY <3>1
    <3>4. Becomes(Started([threads |-> threads, enabled |-> enabled, restarts |-> restarts], id))
      BY <1>6 DEF State
    <3> QED
      BY <1>1, <1>2, <3>1, <3>2, <3>3, <3>4, StartedKeeps
  <2> QED
    BY <1>1, <1>2, <2>1 DEF PluginInv, Running, Tidy
<1>7. CASE ~AfterInstall(id) /\ UNCHANGED <<threads, enabled, restarts>>
  <2>1. id \in Running => ~threads[id].alive
    BY <1>5, <1>7 DEF AfterInstall
  <2>2. \A j \in Running : Tidy(j, threads[j], installed', enabled, restarts)
    BY <1>2, <1>4, <2>1 DEF Tidy
  <2> QED
    BY <1>1, <1>2, <1>7, <2>2 DEF PluginInv, Running, Tidy
<1> QED
  BY <1>1, <1>6, <1>7

LEMMA StartPluginInv ==
  ASSUME PluginInv, NEW id \in Ids, StartPlugin(id) PROVE PluginInv'
<1>1. /\ waiting = NOBODY /\ waiting' = NOBODY /\ UNCHANGED <<installed, available>>
      /\ Becomes(Started(State, id))
  BY DEF StartPlugin, MainFree
<1>2. NOBODY \notin Services
  BY PluginAssumption
<1>3. \A j \in Running : Tidy(j, threads[j], installed', enabled, restarts)
  BY <1>1, <1>2 DEF PluginInv, Tidy
<1>4. id \in Running => /\ id \in DOMAIN installed'
                        /\ threads[id].alive => /\ id \in enabled
                                                /\ threads[id].interrupted => id \in restarts
  BY <1>3 DEF Tidy
<1>5. \A i \in DOMAIN installed' : installed'[i] \in Versions
  BY <1>1 DEF PluginInv
<1>6. /\ threads' \in [DOMAIN threads' -> ThreadRecord] /\ DOMAIN threads' \subseteq Services
      /\ enabled' \subseteq Services
      /\ \A j \in DOMAIN threads' : Tidy(j, threads'[j], installed', enabled', restarts')
  BY <1>1, <1>3, <1>4, <1>5, StartedKeeps DEF PluginInv, Running, State
<1> QED
  BY <1>1, <1>6 DEF PluginInv, Running, Tidy

LEMMA StopPluginInv ==
  ASSUME PluginInv, NEW id, NEW remove \in BOOLEAN, StopPlugin(id, remove) PROVE PluginInv'
<1> DEFINE t == Ending(threads[id], remove)
<1>1. /\ waiting = NOBODY /\ id \in Running
      /\ threads' = [threads EXCEPT ![id] = t]
      /\ enabled' = enabled \ {id} /\ waiting' = IF threads[id].alive THEN id ELSE NOBODY
      /\ UNCHANGED <<available, installed, restarts>>
  BY DEF StopPlugin, MainFree
<1>2. /\ t \in ThreadRecord /\ (t.alive <=> threads[id].alive) /\ t.version = threads[id].version
      /\ t.interrupted <=> threads[id].alive
  <2>1. threads[id] \in ThreadRecord
    BY <1>1 DEF PluginInv
  <2> DEFINE i == Interrupt(threads[id])
  <2>2. /\ i \in ThreadRecord /\ i.alive = threads[id].alive /\ i.version = threads[id].version
        /\ i.interrupted = threads[id].alive
    BY <2>1 DEF Interrupt, ThreadRecord
  <2> HIDE DEF i
  <2>3. (i.remove \/ remove) \in BOOLEAN
    OBVIOUS
  <2>4. [i EXCEPT !.remove = (i.remove \/ remove)] \in ThreadRecord
    BY <2>2, <2>3 DEF ThreadRecord
  <2> QED
    BY <2>2, <2>4 DEF i, ThreadRecord, Ending
<1>3. t.alive => t.interrupted
  BY <1>2
<1> HIDE DEF t
<1>4. /\ DOMAIN threads' = Running /\ threads'[id] = t
      /\ \A j \in Running : j # id => threads'[j] = threads[j]
      /\ threads' \in [DOMAIN threads' -> ThreadRecord]
  BY <1>1, <1>2 DEF PluginInv, Running
<1>5. Tidy(id, t, installed, enabled' \union {waiting'}, restarts \union {waiting'})
  BY <1>1, <1>2, <1>3 DEF PluginInv, Tidy
<1>6. NOBODY \notin Running
  BY PluginAssumption DEF PluginInv
<1>7. \A j \in Running : j # id =>
        Tidy(j, threads[j], installed, enabled' \union {waiting'}, restarts \union {waiting'})
  BY <1>1, <1>6 DEF PluginInv, Tidy
<1> QED
  BY <1>1, <1>2, <1>4, <1>5, <1>7 DEF PluginInv, Running

LEMMA RemovedInv ==
  ASSUME PluginInv, NEW id, id \notin Running, Removed(id), UNCHANGED <<available, threads, restarts, waiting>>
  PROVE  PluginInv'
<1>1. /\ installed' = [i \in DOMAIN installed \ {id} |-> installed[i]]
      /\ enabled' = enabled \ {id}
  BY DEF Removed, Restrict
<1>2. \A j \in Running : /\ Tidy(j, threads[j], installed, enabled \union {waiting}, restarts \union {waiting})
                         /\ j # id
  BY DEF PluginInv
<1>3. \A j \in Running : Tidy(j, threads[j], installed', enabled' \union {waiting}, restarts \union {waiting})
  BY <1>1, <1>2 DEF Tidy
<1> QED
  BY <1>1, <1>3 DEF PluginInv, Running

LEMMA ThreadEndsInv ==
  ASSUME PluginInv, NEW id, ThreadEnds(id) PROVE PluginInv'
<1>1. /\ id \in Running /\ threads' = [threads EXCEPT ![id].alive = FALSE]
      /\ waiting' = IF waiting = id THEN NOBODY ELSE waiting
      /\ UNCHANGED <<available, installed, enabled, restarts>>
  BY DEF ThreadEnds
<1>2. /\ threads' \in [Running -> ThreadRecord] /\ DOMAIN threads' = Running
      /\ ~threads'[id].alive
      /\ \A j \in Running : j # id => threads'[j] = threads[j]
  BY <1>1 DEF PluginInv, Running, ThreadRecord
<1>3. \A j \in Running : Tidy(j, threads'[j], installed, enabled \union {waiting'}, restarts \union {waiting'})
  BY <1>1, <1>2 DEF PluginInv, Tidy
<1> QED
  BY <1>1, <1>2, <1>3 DEF PluginInv, Running

LEMMA FinishedInv ==
  ASSUME PluginInv, NEW id \in Ids, Finished(id) PROVE PluginInv'
<1> DEFINE ts == [j \in Running \ {id} |-> threads[j]]
           en == IF threads[id].remove THEN enabled \ {id} ELSE enabled
           re == restarts \ {id}
<1>1. /\ waiting = NOBODY /\ waiting' = NOBODY /\ UNCHANGED available /\ id \in Running
      /\ \/ installed' = [i \in DOMAIN installed \ {id} |-> installed[i]]
         \/ installed' = installed
      /\ \/ Becomes(Started([threads |-> ts, enabled |-> en, restarts |-> re], id))
         \/ Becomes([threads |-> ts, enabled |-> en, restarts |-> re])
  <2>1. Restrict(threads, Running \ {id}) = ts
    BY DEF Restrict, Running
  <2>2. [threads |-> ts, restarts |-> re, enabled |-> en] = [threads |-> ts, enabled |-> en, restarts |-> re]
    OBVIOUS
  <2> QED
    BY <2>1, <2>2 DEF Finished, MainFree, Restrict
<1>2. /\ ts \in [DOMAIN ts -> ThreadRecord] /\ DOMAIN ts = Running \ {id} /\ DOMAIN ts \subseteq Services
      /\ en \subseteq Services
      /\ \A j \in DOMAIN ts : ts[j] = threads[j] /\ j # id
      /\ \A j \in Services \ {id} : j \in enabled => j \in en
      /\ \A j \in Services \ {id} : j \in restarts => j \in re
  BY DEF PluginInv, Running
<1> HIDE DEF ts, en, re
<1>3. NOBODY \notin Services
  BY PluginAssumption
<1>4. \A j \in DOMAIN ts : Tidy(j, ts[j], installed, en, re)
  BY <1>1, <1>2, <1>3 DEF PluginInv, Tidy
<1>5. /\ \A i \in DOMAIN installed' : installed'[i] \in Versions
      /\ installed' = [i \in DOMAIN installed' |-> installed'[i]]
      /\ \A j \in DOMAIN installed \ {id} : j \in DOMAIN installed' /\ installed'[j] = installed[j]
  BY <1>1 DEF PluginInv
<1>6. \A j \in DOMAIN ts : Tidy(j, ts[j], installed', en, re)
  BY <1>2, <1>4, <1>5 DEF Tidy
<1>7. /\ threads' \in [DOMAIN threads' -> ThreadRecord] /\ DOMAIN threads' \subseteq Services
      /\ enabled' \subseteq Services
      /\ \A j \in DOMAIN threads' : Tidy(j, threads'[j], installed', enabled', restarts')
  <2>1. CASE Becomes(Started([threads |-> ts, enabled |-> en, restarts |-> re], id))
    BY <1>1, <1>2, <1>5, <1>6, <2>1, StartedKeeps
  <2>2. CASE Becomes([threads |-> ts, enabled |-> en, restarts |-> re])
    BY <1>2, <1>6, <2>2 DEF Becomes
  <2> QED
    BY <1>1, <2>1, <2>2
<1> QED
  BY <1>1, <1>5, <1>7 DEF PluginInv, Running, Tidy

LEMMA RebootInv == ASSUME PluginInv, Reboot PROVE PluginInv'
<1>1. /\ threads' = [i \in enabled \intersect DOMAIN installed |-> Thread(installed[i])]
      /\ available' = Empty /\ waiting' = NOBODY /\ UNCHANGED <<installed, enabled>>
  BY DEF Reboot
<1>2. \A i \in enabled \intersect DOMAIN installed :
        threads'[i] \in ThreadRecord /\ Tidy(i, threads'[i], installed, enabled, {})
  BY <1>1, NewThread DEF PluginInv, Tidy
<1>3. /\ DOMAIN threads' = enabled \intersect DOMAIN installed
      /\ threads' \in [DOMAIN threads' -> ThreadRecord]
  BY <1>1, <1>2
<1>4. \A i \in DOMAIN threads' : Tidy(i, threads'[i], installed, enabled \union {waiting'}, restarts' \union {waiting'})
  BY <1>2, <1>3 DEF Tidy
<1> QED
  BY <1>1, <1>3, <1>4 DEF PluginInv, Running, Empty

-----------------------------------------------------------------------------
LEMMA PluginNextInv == PluginInv /\ [PluginNext]_pluginVars => PluginInv'
<1> SUFFICES ASSUME PluginInv, [PluginNext]_pluginVars PROVE PluginInv'
  OBVIOUS
<1>1. ASSUME NEW repo \in UNION {[S -> Versions] : S \in SUBSET Ids}, Available(repo) PROVE PluginInv'
  <2>1. \A i \in DOMAIN repo : repo[i] \in Versions
    OBVIOUS
  <2> QED
    BY <1>1, <2>1, OnlyDownloads DEF Available
<1>2. ASSUME NEW id \in Ids, Install(id) \/ DownloadFails(id) PROVE PluginInv'
  BY <1>2, OnlyDownloads DEF Install, DownloadFails, PluginInv
<1>3. ASSUME NEW id \in Ids, Downloaded(id) PROVE PluginInv'
  BY <1>3, DownloadedInv
<1>4. ASSUME NEW id \in Ids, StartPlugin(id) PROVE PluginInv'
  BY <1>4, StartPluginInv
<1>5. ASSUME NEW id \in Ids, StopPlugin(id, FALSE) PROVE PluginInv'
  BY <1>5, StopPluginInv
<1>6. ASSUME NEW id \in Ids, RemovePlugin(id) PROVE PluginInv'
  BY <1>6, StopPluginInv, RemovedInv DEF RemovePlugin
<1>7. ASSUME NEW id \in Ids, ThreadEnds(id) PROVE PluginInv'
  BY <1>7, ThreadEndsInv
<1>8. ASSUME NEW id \in Ids, Finished(id) PROVE PluginInv'
  BY <1>8, FinishedInv
<1>9. CASE Reboot
  BY <1>9, RebootInv
<1>10. CASE UNCHANGED pluginVars
  BY <1>10 DEF pluginVars, PluginInv, Running, Tidy
<1> QED
  BY <1>1, <1>2, <1>3, <1>4, <1>5, <1>6, <1>7, <1>8, <1>9, <1>10 DEF PluginNext

(* A plugin that runs is installed in that version or was told to end, and  *)
(* who was told to end is waited for or comes back, however downloads,      *)
(* restarts, removals and the ends of threads interleave (Plugins.cpp).     *)
THEOREM RunningIsInstalled == PluginSpec => []RunsInstalled
<1> QED
  BY PluginInvImplies, PluginInitInv, PluginNextInv, PTL DEF PluginSpec

-----------------------------------------------------------------------------
(***************************************************************************)
(* The effects that can be run, for every set of names, files, directories *)
(* and arguments, and without a bound on readings.  Files are numbered in  *)
(* the order of reading: the last one of a name is its definition, and     *)
(* each has the configuration that was added under its number.             *)
(***************************************************************************)

LEMMA PlacesFacts == Places \subseteq Nat \X Nat /\ IsFiniteSet(Places)
<1> DEFINE named == {FileName[n] : n \in EffectNames}
           f == [n \in EffectNames |-> FileName[n]]
<1>1. f \in Surjection(EffectNames, named)
  BY DEF Surjection
<1>2. IsFiniteSet(named)
  BY <1>1, FileNamesAssumption, FS_Surjection
<1>3. IsFiniteSet(FileNumbers) /\ FileNumbers \subseteq Nat
  <2>1. FileNumbers = named \cup DOMAIN Internal /\ named \subseteq Nat
    BY FileNamesAssumption DEF FileNumbers
  <2> HIDE DEF named
  <2> QED
    BY <1>2, <2>1, FileNamesAssumption, FS_Union
<1>4. IsFiniteSet({0} \cup Directories) /\ {0} \cup Directories \subseteq Nat
  <2>1. IsFiniteSet(Directories \cup {0})
    BY DirectoriesAssumption, FS_AddElement
  <2>2. {0} \cup Directories = Directories \cup {0}
    OBVIOUS
  <2> QED
    BY <2>1, <2>2, DirectoriesAssumption
<1> DEFINE D == {0} \cup Directories
<1>5. Places = D \X FileNumbers
  BY DEF Places
<1> HIDE DEF D
<1>6. IsFiniteSet(D \X FileNumbers)
  BY <1>3, <1>4, FS_Product DEF D
<1>7. D \X FileNumbers \subseteq Nat \X Nat
  BY <1>3, <1>4 DEF D
<1> QED
  BY <1>5, <1>6, <1>7

LEMMA BeforeOrders ==
  \A p, q, r \in Places :
    /\ ~Before(p, p)
    /\ Before(p, q) /\ Before(q, r) => Before(p, r)
    /\ p = q \/ Before(p, q) \/ Before(q, p)
<1> SUFFICES ASSUME NEW p \in Nat \X Nat, NEW q \in Nat \X Nat, NEW r \in Nat \X Nat
             PROVE  /\ ~Before(p, p)
                    /\ Before(p, q) /\ Before(q, r) => Before(p, r)
                    /\ p = q \/ Before(p, q) \/ Before(q, p)
  BY PlacesFacts
<1>1. ~Before(p, p) /\ (Before(p, q) /\ Before(q, r) => Before(p, r))
  BY DEF Before
<1>2. p = q \/ Before(p, q) \/ Before(q, p)
  BY DEF Before
<1> QED
  BY <1>1, <1>2

LEMMA LoadedFinite ==
  ASSUME NEW files
  PROVE  IsFiniteSet(Loaded(files)) /\ Loaded(files) \subseteq Places
BY PlacesFacts, FS_Subset DEF Loaded

(* No two files have the same number. *)
LEMMA PositionFacts ==
  ASSUME NEW files, NEW p \in Loaded(files)
  PROVE  /\ Position(files, p) \in 1 .. Cardinality(Loaded(files))
         /\ \A q \in Loaded(files) : Before(q, p) => Position(files, q) < Position(files, p)
<1> DEFINE L == Loaded(files)
           Below(x) == {q \in L : q = x \/ Before(q, x)}
<1>0. IsFiniteSet(L) /\ L \subseteq Places /\ p \in L
  BY LoadedFinite
<1>1. \A x : Position(files, x) = Cardinality(Below(x))
  BY DEF Position
<1> HIDE DEF L
<1>2. \A x : /\ Below(x) \subseteq L /\ IsFiniteSet(Below(x)) /\ Cardinality(Below(x)) \in Nat
             /\ Cardinality(Below(x)) <= Cardinality(L)
  <2> SUFFICES ASSUME NEW x
               PROVE  /\ Below(x) \subseteq L /\ IsFiniteSet(Below(x)) /\ Cardinality(Below(x)) \in Nat
                      /\ Cardinality(Below(x)) <= Cardinality(L)
    OBVIOUS
  <2>1. Below(x) \in SUBSET L
    OBVIOUS
  <2> HIDE DEF Below
  <2> QED
    BY <1>0, <2>1, FS_Subset, FS_CardinalityType
<1>3. Cardinality(Below(p)) # 0
  <2>1. p \in Below(p)
    BY <1>0
  <2> HIDE DEF Below
  <2> QED
    BY <1>2, <2>1, FS_EmptySet
<1>4. Cardinality(L) \in Nat
  BY <1>0, FS_CardinalityType
<1>5. ASSUME NEW q \in L, Before(q, p)
      PROVE  Cardinality(Below(q)) < Cardinality(Below(p))
  <2>1. Below(q) \in SUBSET Below(p)
    BY <1>0, <1>5, BeforeOrders
  <2>2. p \in Below(p) /\ p \notin Below(q)
    BY <1>0, <1>5, BeforeOrders
  <2> HIDE DEF Below
  <2>3. /\ Cardinality(Below(q)) <= Cardinality(Below(p))
        /\ Cardinality(Below(p)) = Cardinality(Below(q)) => Below(p) = Below(q)
    BY <1>2, <2>1, FS_Subset
  <2> QED
    BY <1>2, <2>2, <2>3
<1> HIDE DEF Below
<1>6. Cardinality(Below(p)) \in 1 .. Cardinality(L)
  BY <1>2, <1>3, <1>4
<1>7. \A q \in L : Before(q, p) => Position(files, q) < Position(files, p)
  BY <1>1, <1>5
<1> QED
  BY <1>1, <1>6, <1>7 DEF L

LEMMA PositionsDiffer ==
  ASSUME NEW files, NEW p \in Loaded(files), NEW q \in Loaded(files), Position(files, p) = Position(files, q)
  PROVE  p = q
<1>1. p \in Places /\ q \in Places
  BY LoadedFinite
<1>2. /\ Position(files, p) \in 1 .. Cardinality(Loaded(files))
      /\ ~Before(q, p) /\ ~Before(p, q)
  BY PositionFacts
<1> QED
  BY <1>1, <1>2, BeforeOrders

(* A name that was read has a last file. *)
LEMMA DefinitionFacts ==
  ASSUME NEW files, NEW n \in NamesIn(files)
  PROVE  /\ Definition(files, n) \in Loaded(files) /\ files[Definition(files, n)].name = n
         /\ \A q \in Loaded(files) :
              files[q].name = n => q = Definition(files, n) \/ Before(q, Definition(files, n))
<1> DEFINE K == {p \in Loaded(files) : files[p].name = n}
           Later(p) == Cardinality(Loaded(files)) - Position(files, p)
           Ranks == {Later(p) : p \in K}
<1>0. Cardinality(Loaded(files)) \in Nat
  BY LoadedFinite, FS_CardinalityType
<1>1. \A p \in K : p \in Places /\ Later(p) \in Nat /\ Position(files, p) \in Nat
  BY <1>0, PositionFacts, LoadedFinite
<1>2. PICK k \in Ranks : \A j \in Ranks : ~(j < k)
  <2>1. IsWellFoundedOn(OpToRel(<, Nat), Nat)
    BY NatLessThanWellFounded
  <2>2. Ranks \subseteq Nat /\ Ranks # {}
    BY <1>1 DEF NamesIn
  <2> HIDE DEF Ranks
  <2>3. \E m \in Ranks : \A j \in Ranks : ~(<<j, m>> \in OpToRel(<, Nat))
    BY <2>1, <2>2, WFMin
  <2> QED
    BY <2>2, <2>3 DEF OpToRel
<1>3. PICK p \in K : k = Later(p)
  OBVIOUS
<1>4. ASSUME NEW q \in K PROVE q = p \/ Before(q, p)
  <2>1. ~(Later(q) < Later(p))
    BY <1>2, <1>3
  <2>2. ~(Position(files, p) < Position(files, q))
    BY <1>0, <1>1, <2>1
  <2>3. ~Before(p, q)
    BY <2>2, PositionFacts
  <2> QED
    BY <1>1, <2>3, BeforeOrders
<1> QED
  BY <1>3, <1>4 DEF Definition

-----------------------------------------------------------------------------
Files   == [Places -> [name : EffectNames, args : EffectArgs] \cup {NoFile}]
CfgType == [pause : BOOLEAN, time : {0, 200} \cup {a.smoothing : a \in EffectArgs}]

(* The effects av are those of files, which were read last. *)
Known(files, av) ==
  /\ DOMAIN av = NamesIn(files) \ disabled
  /\ \A n \in DOMAIN av : av[n].at = Definition(files, n)

LEMMA LoadedFacts ==
  ASSUME NEW files \in Files
  PROVE  /\ \A p \in Loaded(files) : files[p].name \in EffectNames /\ files[p].args \in EffectArgs
         /\ \A p \in Places : p \notin Loaded(files) => files[p] = NoFile
BY DEF Files, Loaded

(* As many numbers as files: each is taken. *)
LEMMA PositionsTaken ==
  ASSUME NEW files
  PROVE  \A i \in 1 .. Cardinality(Loaded(files)) : \E p \in Loaded(files) : Position(files, p) = i
<1> DEFINE L == Loaded(files)
           m == Cardinality(L)
           f == [p \in L |-> Position(files, p)]
<1>1. IsFiniteSet(L) /\ m \in Nat
  BY LoadedFinite, FS_CardinalityType
<1>2. \A p, q \in L : Position(files, p) \in 1 .. m /\ (Position(files, p) = Position(files, q) => p = q)
  BY PositionFacts, PositionsDiffer
<1> HIDE DEF m, L
<1>3. f \in Injection(L, 1 .. m)
  BY <1>2 DEF Injection, IsInjective
<1>4. IsFiniteSet(1 .. m) /\ Cardinality(1 .. m) = m
  BY <1>1, FS_Interval
<1> HIDE DEF f
<1>5. f \in Surjection(L, 1 .. m)
  BY <1>3, <1>4, FS_Injection DEF m
<1>6. \A i \in 1 .. m : \E p \in L : f[p] = i
  BY <1>5 DEF Surjection
<1> QED
  BY <1>6 DEF f, m, L

LEMMA ConfigsFacts ==
  ASSUME NEW files \in Files
  PROVE  /\ EffectConfigs(files) \in Seq(CfgType)
         /\ Len(EffectConfigs(files)) = Cardinality(Loaded(files))
         /\ \A p \in Loaded(files) :
              EffectConfigs(files)[Position(files, p)] = AddSmoothingConfig(files[p].args)
<1> DEFINE m == Cardinality(Loaded(files))
           chosen(i) == CHOOSE q \in Loaded(files) : Position(files, q) = i
           config(i) == AddSmoothingConfig(files[chosen(i)].args)
<1>0. m \in Nat
  BY LoadedFinite, FS_CardinalityType
<1>1. EffectConfigs(files) = [i \in 1 .. m |-> config(i)]
  BY DEF EffectConfigs
<1> HIDE DEF chosen
<1>2. ASSUME NEW p \in Loaded(files) PROVE chosen(Position(files, p)) = p
  <2>1. /\ chosen(Position(files, p)) \in Loaded(files)
        /\ Position(files, chosen(Position(files, p))) = Position(files, p)
    BY DEF chosen
  <2> QED
    BY <2>1, PositionsDiffer
<1>3. ASSUME NEW i \in 1 .. m PROVE config(i) \in CfgType
  <2>1. chosen(i) \in Loaded(files)
    BY PositionsTaken DEF chosen
  <2>2. PICK a \in EffectArgs : config(i) = [pause |-> a.smoothing = 0, time |-> a.smoothing]
    BY <2>1, LoadedFacts DEF AddSmoothingConfig
  <2> QED
    BY <2>2 DEF CfgType
<1>4. \A p \in Loaded(files) : Position(files, p) \in 1 .. m
  BY PositionFacts
<1> HIDE DEF config, m
<1>5. EffectConfigs(files) \in Seq(CfgType) /\ Len(EffectConfigs(files)) = m
  BY <1>0, <1>1, <1>3
<1>6. \A p \in Loaded(files) : EffectConfigs(files)[Position(files, p)] = AddSmoothingConfig(files[p].args)
  BY <1>1, <1>2, <1>4 DEF config
<1> QED
  BY <1>5, <1>6 DEF m


(* readEffects(): what is available then is what files define, and each    *)
(* definition has its own configuration behind those there were.           *)
Offered(files, av, list) ==
  /\ list \in Seq(CfgType)
  /\ Known(files, av)
  /\ \A n \in DOMAIN av : /\ av[n].at \in Places
                          /\ av[n].args = files[av[n].at].args
                          /\ list[av[n].smoothCfg + 1] = AddSmoothingConfig(av[n].args)

LEMMA ReadFacts ==
  ASSUME NEW files \in Files, NEW list \in Seq(CfgType)
  PROVE  Offered(files, Effects(files, Len(list) - 1), list \o EffectConfigs(files))
<1> DEFINE av == Effects(files, Len(list) - 1)
           r == list \o EffectConfigs(files)
<1> DEFINE cfgs == EffectConfigs(files)
           m == Cardinality(Loaded(files))
<1>0. m \in Nat /\ Len(list) \in Nat
  BY LoadedFinite, FS_CardinalityType
<1>1. cfgs \in Seq(CfgType) /\ Len(cfgs) = m
  BY ConfigsFacts
<1>2. \A p \in Loaded(files) : /\ Position(files, p) \in 1 .. m
                               /\ cfgs[Position(files, p)] = AddSmoothingConfig(files[p].args)
  BY ConfigsFacts, PositionFacts
<1> HIDE DEF cfgs, m
<1>3. r = list \o cfgs
  BY DEF cfgs
<1>4. r \in Seq(CfgType) /\ \A i \in 1 .. m : r[Len(list) + i] = cfgs[i]
  BY <1>0, <1>1, <1>3, ConcatProperties
<1>5. DOMAIN av = NamesIn(files) \ disabled
  BY DEF Effects
<1>6. ASSUME NEW n \in DOMAIN av
      PROVE  /\ av[n].at = Definition(files, n)
             /\ av[n].args = files[Definition(files, n)].args
             /\ av[n].smoothCfg = Len(list) - 1 + Position(files, Definition(files, n))
  <2> DEFINE p == Definition(files, n)
             base == Len(list) - 1 + Position(files, p)
  <2>1. av[n] = [at |-> p, args |-> files[p].args, smoothCfg |-> base]
    BY <1>5 DEF Effects
  <2> HIDE DEF p, base
  <2>2. av[n].at = p /\ av[n].args = files[p].args /\ av[n].smoothCfg = base
    BY <2>1
  <2> QED
    BY <2>2 DEF base, p
<1>7. ASSUME NEW n \in DOMAIN av
      PROVE  /\ av[n].at = Definition(files, n) /\ av[n].at \in Places
             /\ av[n].args = files[av[n].at].args
             /\ r[av[n].smoothCfg + 1] = AddSmoothingConfig(av[n].args)
  <2> DEFINE p == Definition(files, n)
  <2>1. p \in Loaded(files) /\ p \in Places
    BY <1>5, DefinitionFacts, LoadedFinite
  <2>2. av[n].at = p /\ av[n].args = files[p].args /\ av[n].smoothCfg = Len(list) - 1 + Position(files, p)
    BY <1>6
  <2> HIDE DEF p
  <2>3. av[n].smoothCfg + 1 = Len(list) + Position(files, p)
    BY <1>0, <1>2, <2>1, <2>2
  <2>4. r[av[n].smoothCfg + 1] = AddSmoothingConfig(files[p].args)
    BY <1>2, <1>4, <2>1, <2>3
  <2> QED
    BY <2>1, <2>2, <2>4 DEF p
<1> HIDE DEF av
<1> QED
  BY <1>4, <1>5, <1>7 DEF Known, Offered, av, cfgs

-----------------------------------------------------------------------------
(* The directory 0 holds the internal effects. *)
HasInternal(files) ==
  \A f \in DOMAIN Internal : files[<<0, f>>] # NoFile /\ files[<<0, f>>].name = Internal[f]

(* EffectsFound says what was created runs; that needs that what is known   *)
(* of the files is right until somebody else edits them.                    *)
EffectsInv ==
  /\ disk \in Files /\ edited \in BOOLEAN /\ cfgList \in Seq(CfgType)
  /\ HasInternal(disk)
  /\ \A n \in DOMAIN availableEffects : availableEffects[n].at \in Places
  /\ edited => asked = NoFile
  /\ ~edited => Known(disk, availableEffects)
  /\ EffectsFound

LEMMA InternalPlaces == \A f \in DOMAIN Internal : <<0, f>> \in Places
BY DEF Places, FileNumbers

LEMMA InternalNames ==
  ASSUME NEW files, HasInternal(files)
  PROVE  \A f \in DOMAIN Internal : Internal[f] \in NamesIn(files)
BY InternalPlaces DEF HasInternal, NamesIn, Loaded

LEMMA EffectsInitInv == EffectsInit => EffectsInv
<1> SUFFICES ASSUME EffectsInit PROVE EffectsInv
  OBVIOUS
<1>1. PICK own \in [Directories \X FileNumbers -> Contents] :
        disk = [p \in Places |-> IF p[1] # 0 THEN own[p]
                                 ELSE IF p[2] \in DOMAIN Internal THEN [name |-> Internal[p[2]], args |-> DefaultArgs]
                                 ELSE NoFile]
  BY DEF EffectsInit
<1> DEFINE first == <<[pause |-> FALSE, time |-> 200], [pause |-> TRUE, time |-> 0]>>
<1>2. /\ cfgList = first \o EffectConfigs(disk) /\ availableEffects = Effects(disk, 1)
      /\ edited = FALSE /\ asked = NoFile
  BY DEF EffectsInit
<1>3. DefaultArgs \in EffectArgs
  BY ArgsAssumption DEF DefaultArgs
<1>4. Contents \subseteq [name : EffectNames, args : EffectArgs] \cup {NoFile}
  BY <1>3 DEF Contents
<1>5. disk \in Files
  <2>1. ASSUME NEW p \in Places, p[1] # 0 PROVE p \in Directories \X FileNumbers
    BY <2>1 DEF Places
  <2>2. ASSUME NEW p \in Places, p[1] # 0 PROVE own[p] \in [name : EffectNames, args : EffectArgs] \cup {NoFile}
    BY <1>1, <1>4, <2>1, <2>2
  <2>3. ASSUME NEW f \in DOMAIN Internal
        PROVE  [name |-> Internal[f], args |-> DefaultArgs] \in [name : EffectNames, args : EffectArgs]
    BY <1>3, FileNamesAssumption
  <2> QED
    BY <1>1, <2>2, <2>3 DEF Files
<1>6. HasInternal(disk)
  <2> SUFFICES ASSUME NEW f \in DOMAIN Internal
               PROVE  disk[<<0, f>>] # NoFile /\ disk[<<0, f>>].name = Internal[f]
    BY DEF HasInternal
  <2>1. disk[<<0, f>>] = [name |-> Internal[f], args |-> DefaultArgs]
    BY <1>1, InternalPlaces
  <2>2. [name |-> Internal[f], args |-> DefaultArgs] \in [name : EffectNames, args : EffectArgs]
    BY <1>3, FileNamesAssumption
  <2> QED
    BY <2>1, <2>2, ArgsAssumption
<1>7. first \in Seq(CfgType) /\ Len(first) - 1 = 1
  BY DEF CfgType
<1> HIDE DEF first
<1>8. /\ cfgList \in Seq(CfgType)
      /\ Known(disk, availableEffects)
      /\ \A n \in DOMAIN availableEffects :
           /\ availableEffects[n].at \in Places
           /\ cfgList[availableEffects[n].smoothCfg + 1] = AddSmoothingConfig(availableEffects[n].args)
  <2>0. availableEffects = Effects(disk, Len(first) - 1)
    BY <1>2, <1>7
  <2>1. Offered(disk, availableEffects, cfgList)
    BY <1>2, <1>5, <1>7, <2>0, ReadFacts
  <2> QED
    BY <2>1 DEF Offered
<1>9. EffectsFound
  <2>1. CreatedRuns
    BY <1>2 DEF CreatedRuns
  <2>2. InternalKept
    <3>1. \A f \in DOMAIN Internal : Internal[f] \in NamesIn(disk) /\ disk[<<0, f>>] # NoFile
      BY <1>6, InternalNames DEF HasInternal
    <3> QED
      BY <1>8, <3>1 DEF InternalKept, Known
  <2>3. SmoothedAsAsked
    BY <1>8 DEF SmoothedAsAsked
  <2> QED
    BY <2>1, <2>2, <2>3 DEF EffectsFound
<1> QED
  BY <1>2, <1>5, <1>6, <1>8, <1>9 DEF EffectsInv

(* A step that changes the files and reads them. *)
LEMMA ReadInv ==
  ASSUME EffectsInv, NEW files \in Files, HasInternal(files), disk' = files, ReadEffects(files),
         edited' = FALSE, UNCHANGED disabled,
         asked' # NoFile /\ asked'.name \notin disabled =>
           /\ asked'.name \in NamesIn(files)
           /\ files[Definition(files, asked'.name)].args = asked'.args
  PROVE  EffectsInv'
<1>1. /\ cfgList' = cfgList \o EffectConfigs(files)
      /\ availableEffects' = Effects(files, Len(cfgList) - 1)
      /\ cfgList \in Seq(CfgType)
  BY DEF EffectsInv, ReadEffects, SmoothCfg
<1>2. /\ cfgList' \in Seq(CfgType)
      /\ Known(files, availableEffects')
      /\ \A n \in DOMAIN availableEffects' :
           /\ availableEffects'[n].at \in Places
           /\ availableEffects'[n].args = files[availableEffects'[n].at].args
           /\ cfgList'[availableEffects'[n].smoothCfg + 1] = AddSmoothingConfig(availableEffects'[n].args)
  <2>1. Offered(files, availableEffects', cfgList')
    BY <1>1, ReadFacts
  <2> QED
    BY <2>1 DEF Offered
<1>3. /\ DOMAIN availableEffects' = NamesIn(files) \ disabled'
      /\ \A n \in DOMAIN availableEffects' : availableEffects'[n].at = Definition(files, n)
  BY <1>2 DEF Known
<1>4. CreatedRuns'
  BY <1>2, <1>3 DEF CreatedRuns
<1>5. InternalKept'
  <2>1. \A f \in DOMAIN Internal : files[<<0, f>>] # NoFile
    BY DEF HasInternal
  <2>2. \A f \in DOMAIN Internal : Internal[f] \in NamesIn(files)
    BY InternalNames
  <2>3. \A f \in DOMAIN Internal : Internal[f] \notin disabled' => Internal[f] \in DOMAIN availableEffects'
    BY <1>3, <2>2
  <2>4. \A f \in DOMAIN Internal : disk'[<<0, f>>] # NoFile
    BY <2>1
  <2> QED
    BY <2>3, <2>4 DEF InternalKept
<1>6. SmoothedAsAsked'
  BY <1>2 DEF SmoothedAsAsked
<1>7. (~edited => Known(disk, availableEffects))'
  BY <1>3 DEF Known
<1>8. (edited => asked = NoFile)'
  OBVIOUS
<1>9. disk' \in Files /\ HasInternal(disk')
  OBVIOUS
<1>10. EffectsFound'
  BY <1>4, <1>5, <1>6 DEF EffectsFound
<1> QED
  BY <1>2, <1>7, <1>8, <1>9, <1>10 DEF EffectsInv, HasInternal

(* One file of the user's directories is written or removed. *)
LEMMA FileChanged ==
  ASSUME EffectsInv, NEW at \in Places, at[1] # 0,
         NEW content \in [name : EffectNames, args : EffectArgs] \cup {NoFile}
  PROVE  LET files == [disk EXCEPT ![at] = content]
         IN /\ files \in Files /\ HasInternal(files)
            /\ files[at] = content
            /\ \A p \in Places : p # at => files[p] = disk[p]
<1> DEFINE files == [disk EXCEPT ![at] = content]
<1>1. disk \in Files /\ HasInternal(disk)
  BY DEF EffectsInv
<1>2. /\ files \in Files
      /\ files[at] = content
      /\ \A p \in Places : p # at => files[p] = disk[p]
  BY <1>1 DEF Files
<1>3. \A f \in DOMAIN Internal : <<0, f>> \in Places
  BY InternalPlaces
<1>4. \A f : <<0, f>>[1] = 0
  OBVIOUS
<1>5. \A f : <<0, f>> # at
  BY <1>4
<1> QED
  BY <1>1, <1>2, <1>3, <1>5 DEF HasInternal

(* A client writes to a place of the user's directories, or where it read. *)
LEMMA NewFilePlace ==
  ASSUME EffectsInv, NEW name \in EffectNames
  PROVE  NewFileName(name) \in Places
<1>1. CASE name \in DOMAIN availableEffects
  BY <1>1 DEF NewFileName, EffectsInv
<1>2. CASE name \notin DOMAIN availableEffects
  <2>1. NewFileName(name) = <<1, FileName[name]>>
    BY <1>2 DEF NewFileName
  <2>2. FileName[name] \in FileNumbers
    BY DEF FileNumbers
  <2> QED
    BY <2>1, <2>2, DirectoriesAssumption DEF Places
<1> QED
  BY <1>1, <1>2

(* The file a client writes is the last one with its name. *)
LEMMA WrittenDefines ==
  ASSUME EffectsInv, NEW name \in EffectNames \ disabled, NEW args \in EffectArgs, ~edited,
         Writable(NewFileName(name)),
         NEW files, files = [disk EXCEPT ![NewFileName(name)] = [name |-> name, args |-> args]]
  PROVE  name \in NamesIn(files) /\ Definition(files, name) = NewFileName(name)
<1> DEFINE at == NewFileName(name)
<1>1. Known(disk, availableEffects)
  BY DEF EffectsInv
<1>2. at \in Places
  BY NewFilePlace
<1>3. [name |-> name, args |-> args] \in [name : EffectNames, args : EffectArgs]
  OBVIOUS
<1> DEFINE content == [name |-> name, args |-> args]
<1>a. at[1] # 0 /\ files = [disk EXCEPT ![at] = content]
  BY DEF Writable
<1>b. content \in [name : EffectNames, args : EffectArgs] \cup {NoFile}
  OBVIOUS
<1>4. /\ files[at] = [name |-> name, args |-> args]
      /\ \A p \in Places : p # at => files[p] = disk[p]
  <2> HIDE DEF at, content
  <2>1. files[at] = content /\ \A p \in Places : p # at => files[p] = disk[p]
    BY <1>2, <1>a, <1>b, FileChanged
  <2> QED
    BY <2>1 DEF content
<1>5. at \in Loaded(files) /\ files[at].name = name
  BY <1>2, <1>3, <1>4, ArgsAssumption DEF Loaded
<1>6. name \in NamesIn(files)
  BY <1>5 DEF NamesIn
<1> DEFINE last == Definition(files, name)
<1>7. /\ last \in Loaded(files) /\ files[last].name = name
      /\ last \in Places
      /\ at = last \/ Before(at, last)
  BY <1>5, <1>6, DefinitionFacts, LoadedFinite
<1> HIDE DEF last
<1>8. SUFFICES ASSUME last # at PROVE FALSE
  BY <1>6 DEF last
<1>9. last \in Loaded(disk) /\ disk[last].name = name
  BY <1>4, <1>7, <1>8 DEF Loaded
<1>10. name \in NamesIn(disk)
  BY <1>9 DEF NamesIn
<1>11. name \in DOMAIN availableEffects /\ availableEffects[name].at = Definition(disk, name)
  BY <1>1, <1>10 DEF Known
<1>12. at = Definition(disk, name)
  BY <1>11 DEF NewFileName
<1>13. Before(last, at)
  BY <1>8, <1>9, <1>10, <1>12, DefinitionFacts
<1> QED
  BY <1>2, <1>7, <1>8, <1>13, BeforeOrders

LEMMA CreateInv ==
  ASSUME EffectsInv, NEW name \in EffectNames, NEW args \in EffectArgs, NEW written \in BOOLEAN,
         CreateEffect(name, args, written)
  PROVE  EffectsInv'
<1> DEFINE at == NewFileName(name)
           files == [disk EXCEPT ![at] = [name |-> name, args |-> args]]
<1>1. CASE ~written
  <2>1. UNCHANGED <<disk, disabled, availableEffects, cfgList, edited, asked>>
    BY <1>1 DEF CreateEffect
  <2> QED
    BY <2>1 DEF EffectsInv, EffectsFound, CreatedRuns, InternalKept, SmoothedAsAsked, Known, HasInternal
<1>2. CASE written
  <2>1. /\ Writable(at) /\ disk' = files /\ ReadEffects(files)
        /\ edited' = FALSE /\ UNCHANGED disabled
        /\ asked' = IF edited THEN NoFile ELSE [name |-> name, args |-> args]
    BY <1>2 DEF CreateEffect
  <2>2. at \in Places
    BY NewFilePlace
  <2>3. [name |-> name, args |-> args] \in [name : EffectNames, args : EffectArgs]
    OBVIOUS
  <2>4. files \in Files /\ HasInternal(files) /\ files[at] = [name |-> name, args |-> args]
    <3> DEFINE content == [name |-> name, args |-> args]
    <3>1. at[1] # 0
      BY <2>1 DEF Writable
    <3>2. content \in [name : EffectNames, args : EffectArgs] \cup {NoFile}
      OBVIOUS
    <3>3. files = [disk EXCEPT ![at] = content]
      OBVIOUS
    <3> HIDE DEF at, files, content
    <3>4. files \in Files /\ HasInternal(files) /\ files[at] = content
      BY <2>2, <3>1, <3>2, <3>3, FileChanged
    <3> QED
      BY <3>4 DEF content
  <2>5. ~edited /\ name \notin disabled => name \in NamesIn(files) /\ Definition(files, name) = at
    BY <2>1, WrittenDefines
  <2> HIDE DEF files, at
  <2>6. asked' # NoFile /\ asked'.name \notin disabled =>
          /\ asked'.name \in NamesIn(files)
          /\ files[Definition(files, asked'.name)].args = asked'.args
    BY <2>1, <2>4, <2>5
  <2> QED
    BY <2>1, <2>4, <2>6, ReadInv
<1> QED
  BY <1>1, <1>2

LEMMA DeleteInv == ASSUME EffectsInv, NEW name \in EffectNames, DeleteEffect(name) PROVE EffectsInv'
<1> DEFINE at == availableEffects[name].at
           files == [disk EXCEPT ![at] = NoFile]
<1>1. /\ name \in DOMAIN availableEffects
      /\ Writable(at) /\ disk' = files /\ ReadEffects(files)
      /\ edited' = FALSE /\ asked' = NoFile /\ UNCHANGED disabled
  BY DEF DeleteEffect
<1>2. at \in Places
  BY <1>1 DEF EffectsInv
<1>3. files \in Files /\ HasInternal(files)
  BY <1>1, <1>2, FileChanged DEF Writable
<1> HIDE DEF files, at
<1> QED
  BY <1>1, <1>3, ReadInv

LEMMA EditInv ==
  ASSUME EffectsInv, NEW p \in Places, NEW content \in Contents, EditEffectFile(p, content)
  PROVE  EffectsInv'
<1>1. /\ p[1] # 0 /\ disk' = [disk EXCEPT ![p] = content]
      /\ edited' = TRUE /\ asked' = NoFile
      /\ UNCHANGED <<disabled, availableEffects, cfgList>>
  BY DEF EditEffectFile
<1>2. DefaultArgs \in EffectArgs
  BY ArgsAssumption DEF DefaultArgs
<1>3. content \in [name : EffectNames, args : EffectArgs] \cup {NoFile}
  BY <1>2 DEF Contents
<1>4. disk' \in Files /\ HasInternal(disk')
  BY <1>1, <1>3, FileChanged
<1>5. \A f \in DOMAIN Internal : disk'[<<0, f>>] # NoFile
  BY <1>4 DEF HasInternal
<1>6. InternalKept'
  BY <1>1, <1>5 DEF EffectsInv, EffectsFound, InternalKept
<1>7. CreatedRuns'
  BY <1>1 DEF CreatedRuns
<1>8. SmoothedAsAsked'
  BY <1>1 DEF EffectsInv, EffectsFound, SmoothedAsAsked
<1>9. HasInternal(disk)'
  BY <1>4 DEF HasInternal
<1> QED
  BY <1>1, <1>4, <1>6, <1>7, <1>8, <1>9 DEF EffectsInv, EffectsFound

LEMMA EffectsNextInv == EffectsInv /\ [EffectsNext]_effectVars => EffectsInv'
<1> SUFFICES ASSUME EffectsInv, [EffectsNext]_effectVars PROVE EffectsInv'
  OBVIOUS
<1>1. CASE \E n \in EffectNames : DeleteEffect(n)
  BY <1>1, DeleteInv
<1>2. CASE \E n \in EffectNames : \E a \in EffectArgs, w \in BOOLEAN : CreateEffect(n, a, w)
  BY <1>2, CreateInv
<1>3. CASE \E p \in Places, content \in Contents : EditEffectFile(p, content)
  BY <1>3, EditInv
<1>4. CASE UNCHANGED effectVars
  BY <1>4 DEF effectVars, EffectsInv, EffectsFound, CreatedRuns, InternalKept, SmoothedAsAsked, Known, HasInternal
<1> QED
  BY <1>1, <1>2, <1>3, <1>4 DEF EffectsNext

(* What a client created runs as created, the internal effects stay, and    *)
(* each effect keeps the smoothing its arguments ask for, however effects   *)
(* are created, deleted, edited, hidden and read again (readEffects(),      *)
(* handleCreateEffectCommand(), handleDeleteEffectCommand()).               *)
THEOREM EffectsAreFound == EffectsSpec => []EffectsFound
<1>1. EffectsInv => EffectsFound
  BY DEF EffectsInv
<1> QED
  BY <1>1, EffectsInitInv, EffectsNextInv, PTL DEF EffectsSpec
=============================================================================
