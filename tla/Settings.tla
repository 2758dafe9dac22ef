------------------------------ MODULE Settings ------------------------------
(* The settings the panel changes at run time (settings.ts), over restarts:  *)
(* the running modules have the live values, the storage one row per group   *)
(* of settings, config.yaml and the environment the values of the start.     *)
(* A change that is rejected changes nothing and is left out; the panel is   *)
(* used once the storage is open.                                            *)
EXTENDS Storage, Integers, FiniteSets

CONSTANTS
  Fields,       \* Fields[g]: the settings of group g
  Setting,      \* values
  Given,        \* Given[g]: what the configuration's section of g gives (baseConfig); none of
                \* the fields when there is no section
  Base,         \* Base[g][f]: what the module starts with
  MaxChanges    \* bound: changes between two starts

Groups == DOMAIN Fields
Patches(g) == UNION {[fs -> Setting] : fs \in (SUBSET Fields[g]) \ {{}}}

ASSUME SettingsAssumption ==
  /\ Keys = Groups /\ MaxChanges \in Nat
  /\ Base \in [Groups -> UNION {[Fields[g] -> Setting] : g \in Groups}]
  /\ \A g \in Groups : Base[g] \in [Fields[g] -> Setting] /\ Patches(g) \subseteq Rows
  /\ \A g \in Groups : \E fs \in SUBSET Fields[g] : Given[g] \in [fs -> Setting]

VARIABLES
  live,         \* live[g][f]: in force now
  changes,      \* changes since the start, for the bound
  atSave        \* history: what was in force when the file was last written

settingsVars == <<storageVars, live, changes, atSave>>

Patched(config, patch) ==
  [f \in DOMAIN config |-> IF f \in DOMAIN patch THEN patch[f] ELSE config[f]]

SettingsInit ==
  StorageInit /\ live = Base /\ atSave = Base /\ changes = 0

----------------------------------------------------------------------------
(* updateConfig() of the breaker and of the limiter returns the whole group, *)
(* and routing and cache have one setting each: what is stored is complete.  *)
(* The group "client" stores what this change set.                           *)
StoredPatch(g, patch) == patch
Stored(g, patch) ==
  IF g = "client" THEN patch ELSE Patched(live[g], patch)

Changing == Ready /\ changes < MaxChanges /\ changes' = changes + 1

Apply(g, patch) ==
  /\ Changing
  /\ live' = [live EXCEPT ![g] = Patched(@, patch)]
  /\ Write(g, Stored(g, patch))
  /\ UNCHANGED atSave

(* What the configuration gives and its module does not start with: a 0, for *)
(* which it has a default, or a strategy there is none of.                   *)
NotTaken(g) == {f \in DOMAIN Given[g] : Given[g][f] # Base[g][f]}

(* reset() hands the breaker and the limiter the section that there is, and  *)
(* updateConfig() merges it into what is live; the router refuses a strategy *)
(* it does not know.  The other groups take what the section gives, and for  *)
(* the rest the default.                                                     *)
LeftAsIs(g) ==
  CASE g \in {"circuit_breaker", "bandwidth"} -> Fields[g] \ DOMAIN Given[g]
    [] g = "routing" -> NotTaken(g)
    [] OTHER -> {}
Default(g) ==
  [f \in Fields[g] |-> IF f \in LeftAsIs(g) THEN live[g][f] ELSE Patched(Base[g], Given[g])[f]]

Reset(g) ==
  /\ Changing
  /\ live' = [live EXCEPT ![g] = Default(g)]
  /\ RemoveRow(g)
  /\ UNCHANGED atSave

(* A new process starts from the configuration.                              *)
Start == Open /\ live' = Base /\ changes' = 0 /\ UNCHANGED atSave

(* applyPersisted(), once the storage is open: each group found is applied,  *)
(* and so stored, once more.                                                 *)
ApplyPersisted ==
  /\ live' = [g \in Groups |-> IF db[g] = NoRow THEN Base[g] ELSE Patched(Base[g], db[g])]
  /\ dirty' = \E g \in Groups : db[g] # NoRow

(* The file is written, or the write fails.                                  *)
SaveDone ==
  /\ SaveEnds \/ SaveFails
  /\ IF saving = "start" THEN ApplyPersisted ELSE UNCHANGED live /\ Cleared
  /\ atSave' = IF failed' THEN atSave ELSE live'
  /\ UNCHANGED changes

(* The storage's own steps, and the end of the process.                      *)
StorageOnly ==
  /\ SaveTimer \/ Cleanup \/ Close \/ Crash
  /\ UNCHANGED <<live, changes, atSave>>

SettingsNext ==
  \/ \E g \in Groups : Reset(g) \/ \E patch \in Patches(g) : Apply(g, patch)
  \/ Start \/ SaveDone \/ StorageOnly

SettingsSpec == SettingsInit /\ [][SettingsNext]_settingsVars

----------------------------------------------------------------------------
SettingsTypeOK ==
  /\ StorageTypeOK
  /\ live \in [Groups -> UNION {[Fields[g] -> Setting] : g \in Groups}]
  /\ \A g \in Groups : DOMAIN live[g] = Fields[g] /\ DOMAIN atSave[g] = Fields[g]
  /\ changes \in 0..MaxChanges

(* A start ends with the settings that were in force when the file was last  *)
(* written, whatever changes, resets, failed writes and deaths of the        *)
(* process came before it: all settings of a group that has a row, of        *)
(* "client" those in its row, of a group that has none those that a reset    *)
(* takes back to what the next start begins with.  With a section that gives *)
(* a part of the breaker's or of the limiter's settings, as one variable of  *)
(* the environment makes it, the others are not among these.                 *)
TakenBack(g) == Fields[g] \ (LeftAsIs(g) \cup NotTaken(g))
Lasting(g, row) ==
  IF row = NoRow THEN TakenBack(g) ELSE IF g = "client" THEN DOMAIN row ELSE Fields[g]
Restarted(fields) ==
  saving = "start" /\ saving' = "no" /\ db' # NotOpen =>
    \A g \in Groups : \A f \in fields[g] : live'[g][f] = atSave[g][f]
RestartRestores == [][Restarted([g \in Groups |-> Lasting(g, db[g])])]_settingsVars

(* "... written into storage.config_overrides so it survives restarts", for  *)
(* every group (settings.ts:8).                                              *)
RestartRestoresAll == [][Restarted(Fields)]_settingsVars

(* "Restore a group to its boot-time (config.yaml/env) value"                *)
(* (settings.ts:272), for every group and setting.                           *)
ResetRestores == [][\A g \in Groups : Reset(g) => live'[g] = Base[g]]_settingsVars
=============================================================================
