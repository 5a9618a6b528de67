---------------------------- MODULE SettingsStore ----------------------------
(***************************************************************************)
(* The settings in the configuration file and in the settings table        *)
(* (SettingsManager.cpp, SettingsTable.h, DBManager.cpp), through saves,   *)
(* crashes, restarts and edits of the file.  Two managers exist: that of   *)
(* the daemon reads the table once, for the services; that of Hyperion     *)
(* reads the file, saves, and answers getSetting() and getconfig.          *)
(*   file       content of the configuration file, or TORN                 *)
(*   table      rows of the settings table, a partial function             *)
(*   qconfig    _qconfig of Hyperion's manager; DOWN without the program   *)
(*   applied    per setting the value its component got last, from a       *)
(*              constructor or with settingsChanged                        *)
(*   saving     IDLE, or the configuration being saved and the step        *)
(*   origin     how the last save ended, or that the file was edited since *)
(*   agreed     file and table agreed when the program started             *)
(* The correction of a whole configuration is the matter of SchemaChecker; *)
(* here an invalid value becomes the default of its setting.               *)
(***************************************************************************)
EXTENDS Naturals, Functions

CONSTANTS
  ServiceKeys,      \* settings whose components get them from the daemon's manager
  InstanceKeys,     \* settings whose components get them from Hyperion's manager
  ValidValues, InvalidValues, DefaultValue

ASSUME StoreAssumption ==
  /\ ServiceKeys \intersect InstanceKeys = {}
  /\ ValidValues \intersect InvalidValues = {}
  /\ DefaultValue \in ValidValues
  /\ ServiceKeys \union InstanceKeys # {}

VARIABLES file, table, qconfig, applied, saving, origin, agreed

storeVars == <<file, table, qconfig, applied, saving, origin, agreed>>

Keys    == ServiceKeys \union InstanceKeys
Values  == ValidValues \union InvalidValues
Configs == [Keys -> Values]

(* no configuration *)
TORN == [k \in {} |-> DefaultValue]
DOWN == TORN
IDLE == [step |-> "idle"]

(* mutant: saved as it came *)
Correct_None(c) == c

Validates(c) == \A k \in Keys : c[k] \in ValidValues
Correct(c)   == [k \in Keys |-> IF c[k] \in ValidValues THEN c[k] ELSE DefaultValue]

(* DBManager::createRecord(): inserts, or updates the row that exists *)
CreateRecord(t, k, v) == [q \in DOMAIN t \union {k} |-> IF q = k THEN v ELSE t[q]]
RecordExists(t, k)    == k \in DOMAIN t
Filled(t) == [k \in Keys |-> IF RecordExists(t, k) THEN t[k] ELSE DefaultValue]

StoreInit ==
  /\ file \in Configs
  /\ table \in {[k \in K |-> c[k]] : K \in SUBSET Keys, c \in Configs}
  /\ qconfig = DOWN /\ applied = DOWN
  /\ saving = IDLE /\ origin = "edited" /\ agreed = FALSE

-----------------------------------------------------------------------------
(* the file is read without its schema, so it counts as valid *)
StartConfig == file

(* Both constructors: the daemon's corrects the table, so that Hyperion's   *)
(* finds nothing to correct and keeps the file.                             *)
StartManagers ==
  /\ qconfig = DOWN /\ file # TORN
  /\ table' = Correct(Filled(table))
  /\ qconfig' = StartConfig
  /\ applied' = [k \in Keys |-> IF k \in ServiceKeys THEN table'[k] ELSE StartConfig[k]]
  /\ agreed' = (table' = file)
  /\ UNCHANGED <<file, saving, origin>>

(* JsonAPI::handleConfigSetCommand() up to the file: it is truncated   *)
(* first; when it cannot even be opened nothing changes *)
Save(c) ==
  /\ qconfig # DOWN /\ saving = IDLE
  /\ saving' = [step |-> "file", config |-> Correct(c), todo |-> Keys]
  /\ file' = TORN /\ origin' = "saving"
  /\ UNCHANGED <<table, qconfig, applied, agreed>>

SaveFile ==
  /\ saving.step = "file"
  /\ file' = saving.config /\ qconfig' = saving.config
  /\ saving' = [saving EXCEPT !.step = "table"]
  /\ UNCHANGED <<table, applied, origin, agreed>>

(* the disk is full *)
SaveFails ==
  /\ saving.step = "file"
  /\ saving' = IDLE /\ origin' = "failed"
  /\ UNCHANGED <<file, table, qconfig, applied, agreed>>

Differs(k, v) == table[k] # v

(* one record after the other, each with settingsChanged when it differs *)
SaveRecord(k) ==
  /\ saving.step = "table" /\ k \in saving.todo
  /\ saving' = [saving EXCEPT !.todo = @ \ {k}]
  /\ IF Differs(k, saving.config[k])
     THEN /\ table' = CreateRecord(table, k, saving.config[k])
          /\ applied' = [applied EXCEPT ![k] = saving.config[k]]
     ELSE UNCHANGED <<table, applied>>
  /\ UNCHANGED <<file, qconfig, origin, agreed>>

SaveDone ==
  /\ saving.step = "table" /\ saving.todo = {}
  /\ saving' = IDLE /\ origin' = "saved"
  /\ UNCHANGED <<file, table, qconfig, applied, agreed>>

(* the program ends, between saves or within one *)
Exit ==
  /\ qconfig # DOWN
  /\ qconfig' = DOWN /\ applied' = DOWN /\ saving' = IDLE
  /\ UNCHANGED <<file, table, origin, agreed>>

(* the user edits the file while the program does not run *)
EditFile(c) ==
  /\ qconfig = DOWN
  /\ file' = c /\ origin' = "edited"
  /\ UNCHANGED <<table, qconfig, applied, saving, agreed>>

StoreNext ==
  \/ StartManagers \/ SaveFile \/ SaveFails \/ SaveDone \/ Exit
  \/ \E c \in Configs : Save(c) \/ EditFile(c)
  \/ \E k \in Keys : SaveRecord(k)

StoreSpec == StoreInit /\ [][StoreNext]_storeVars

-----------------------------------------------------------------------------
StoreTypeOK ==
  /\ file \in Configs \union {TORN} /\ table \in UNION {[K -> Values] : K \in SUBSET Keys}
  /\ qconfig \in Configs \union {DOWN} /\ applied \in Configs \union {DOWN}
  /\ (qconfig = DOWN) = (applied = DOWN)
  /\ origin \in {"edited", "saving", "failed", "saved"}
  /\ \/ saving = IDLE
     \/ /\ qconfig # DOWN /\ saving.config \in Configs /\ saving.todo \subseteq Keys
        /\ DOMAIN saving = {"step", "config", "todo"} /\ saving.step \in {"file", "table"}

(* Whatever an earlier crash, failure or edit left, a save that completes   *)
(* brings file and table together, and they stay so until the next save or  *)
(* edit, through restarts; the program then runs on a configuration that is *)
(* valid (SettingsManager::saveSettings()).                                 *)
SavedEverywhere ==
  origin = "saved" => /\ file = table /\ Validates(file)
                      /\ qconfig \in {file, DOWN}

(* A component runs on what getSetting() and getconfig say and what a       *)
(* restart would give it, when the program found file and table equal at    *)
(* its start and no save is under way; a save that fails changes nothing    *)
(* but the file (saveSettings(), emit settingsChanged).                     *)
AppliedIsConfig ==
  qconfig # DOWN /\ agreed /\ saving = IDLE => applied = qconfig /\ qconfig = table

(* File, table, configuration and components agree, after a save and until  *)
(* the next one (saveSettings()).                                           *)
SettingsAgree == SavedEverywhere /\ AppliedIsConfig
=============================================================================
