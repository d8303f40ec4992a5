----------------------------- MODULE SettingMerge ----------------------------
(***************************************************************************)
(* One user setting: merge_setting of the merge engine.  The row of a key  *)
(* holds its value and the timestamp of the op that set it; deleting the   *)
(* setting deletes the row, timestamp and all.                             *)
(*                                                                         *)
(* No program of this repository writes settings through the op log yet:   *)
(* the ops come from other devices (Writer), in any order and any number   *)
(* of times (SyncRelay).  Each device that creates the setting gives it an *)
(* id of its own, while the table has one row per key.                     *)
(***************************************************************************)
EXTENDS SyncEntity

CONSTANTS
  Replica,   \* the devices that run the programs of this repository
  Writer,    \* the devices that write the setting, other than those of Replica
  SettingId, \* the ids they may have given it
  Option     \* its values

\* What stands for "no row" and "no value" is neither an id nor a value.
ASSUME SettingAssumption == "none" \notin SettingId /\ "unset" \notin Option

VARIABLES
  settingOps,    \* every op emitted
  setting,       \* setting[d]: the row of the key
  settingMerged, \* history: the ops d has merged
  shuffled       \* history: whether d has merged an op older than another it
                 \* had merged

settingVars == <<settingOps, setting, settingMerged, shuffled>>

Unset == "unset"
NoSetting == [id |-> "none", value |-> Unset, stamp |-> 0]

\* An upsert (create or update) or, without value, a delete.
SettingOp == [hlc : Hlc, dev : Writer, id : SettingId, value : Option \cup {Unset}]

SettingInit ==
  /\ settingOps = {}
  /\ setting = [d \in Replica |-> NoSetting]
  /\ settingMerged = [d \in Replica |-> {}]
  /\ shuffled = [d \in Replica |-> FALSE]

WriteSetting(o) ==
  /\ \A q \in settingOps : q.hlc # o.hlc /\ (q.dev = o.dev => q.hlc < o.hlc)
  /\ settingOps' = settingOps \cup {o}
  /\ UNCHANGED <<setting, settingMerged, shuffled>>

\* merge_setting_upsert.  Under another id the key is taken: the insert fails,
\* the error ends the pull, nothing is merged.
MergeUpsert(d, o) ==
  /\ o.value # Unset
  /\ setting[d].id \in {"none", o.id}
  /\ setting' = [setting EXCEPT ![d] =
       IF o.hlc > @.stamp THEN [id |-> o.id, value |-> o.value, stamp |-> o.hlc] ELSE @]

\* A faulty MergeRemove, to validate SettingIsNewest: a delete older than the
\* row is refused, and one that is as new.
MergeRemoveKeeps(d, o) ==
  /\ o.value = Unset
  /\ setting' = [setting EXCEPT ![d] =
       IF o.id = @.id /\ o.hlc > @.stamp + 1 THEN NoSetting ELSE @]

\* A faulty MergeRemove, to validate SettingTypeOK: the row stays, without value.
MergeRemoveBlanks(d, o) ==
  /\ o.value = Unset
  /\ setting' = [setting EXCEPT ![d].value = IF o.id = setting[d].id THEN Unset ELSE @]

\* merge_setting_delete: by id, whatever the timestamps say.
MergeRemove(d, o) ==
  /\ o.value = Unset
  /\ setting' = [setting EXCEPT ![d] = IF o.id = @.id THEN NoSetting ELSE @]

MergeSetting(d, o) ==
  /\ MergeUpsert(d, o) \/ MergeRemove(d, o)
  /\ settingMerged' = [settingMerged EXCEPT ![d] = @ \cup {o}]
  /\ shuffled' = [shuffled EXCEPT ![d] =
       @ \/ \E q \in settingMerged[d] : q.id = o.id /\ q.hlc > o.hlc]
  /\ UNCHANGED settingOps

SettingNext ==
  \/ \E o \in SettingOp : WriteSetting(o)
  \/ \E d \in Replica, o \in settingOps : MergeSetting(d, o)

SettingSpec == SettingInit /\ [][SettingNext]_settingVars

-----------------------------------------------------------------------------

SettingTypeOK ==
  /\ settingOps \subseteq SettingOp
  /\ settingMerged \in [Replica -> SUBSET SettingOp]
  /\ setting \in [Replica -> [id : SettingId \cup {"none"}, value : Option \cup {Unset},
                             stamp : 0 .. MaxHlc]]
  /\ shuffled \in [Replica -> BOOLEAN]
  /\ \A d \in Replica : settingMerged[d] \subseteq settingOps
  /\ \A d \in Replica : setting[d].value = Unset <=> setting[d] = NoSetting

(***************************************************************************)
(* A setting is last-write-wins per key: whatever order the upserts come   *)
(* in, the row holds the newest of them.  Deletes keep no tombstone, so    *)
(* once one is merged this holds only while ops come in order: an older    *)
(* upsert that is replayed or late brings the setting back.                *)
(***************************************************************************)
SettingIsNewest ==
  \A d \in Replica : \A i \in SettingId :
    LET ops == {o \in settingMerged[d] : o.id = i}
    IN  (~shuffled[d] \/ \A o \in ops : o.value # Unset) =>
          \A o \in Newest(ops) :
            o.value = (IF setting[d].id = i THEN setting[d].value ELSE Unset)

=============================================================================
