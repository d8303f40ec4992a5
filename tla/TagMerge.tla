------------------------------- MODULE TagMerge ------------------------------
(***************************************************************************)
(* The tags of one book: add_typed_tag_to_book, remove_typed_tag_from_book *)
(* and set_book_pace of BookRepository, and merge_tag of the merge engine. *)
(*                                                                         *)
(* A tag op names the book and the tag and says whether to add or remove   *)
(* it.  Unlike the fields of a book, a tag has no recorded timestamp: the  *)
(* engine obeys an op whatever it was preceded by.  Pulled ops come in any *)
(* order and may be replayed (SyncRelay); a device's own are never pulled. *)
(* The book is there and live on every device.                             *)
(***************************************************************************)
EXTENDS SyncEntity, FiniteSets

CONSTANTS
  Device, \* the devices of one library
  Tag,    \* the tags, of every type
  Pace    \* the tags of type pace, of which set_book_pace keeps one

VARIABLES
  tagOps,      \* every tag op emitted
  tagLog,      \* tagLog[d]: those in d's sync_ops
  onBook,      \* onBook[d]: the tags of the book, its rows of book_tags
  tagMerged,   \* history: the ops d has made or merged
  disordered,  \* history: the tags of which d has merged an op older than
               \* another it had merged
  concurrent   \* history: a pace was set by a device that lacked a pace op

tagVars == <<tagOps, tagLog, onBook, tagMerged, disordered, concurrent>>

TagOp == [hlc : Hlc, dev : Device, tag : Tag, add : BOOLEAN]

TagInit ==
  /\ tagOps = {}
  /\ tagLog = [d \in Device |-> {}]
  /\ onBook = [d \in Device |-> {}]
  /\ tagMerged = [d \in Device |-> {}]
  /\ disordered = [d \in Device |-> {}]
  /\ concurrent = FALSE

-----------------------------------------------------------------------------
(* Local writes: the row and its ops, in one transaction. *)

PaceOps(S) == {o \in S : o.tag \in Pace}

\* emit_local_op, once per op of S: each timestamp is past the log, the ops of
\* one transaction included, hence distinct.
EmitTagOps(d, S) ==
  /\ \A o \in S : o.dev = d
  /\ \A o \in S : (\A q \in tagLog[d] : q.hlc < o.hlc) /\ (\A q \in tagOps : q.hlc # o.hlc)
  /\ tagOps' = tagOps \cup S
  /\ tagLog' = [tagLog EXCEPT ![d] = @ \cup S]
  /\ tagMerged' = [tagMerged EXCEPT ![d] = @ \cup S]
  /\ concurrent' = (concurrent \/ (PaceOps(S) # {} /\ ~(PaceOps(tagOps) \subseteq tagMerged[d])))
  /\ UNCHANGED disordered

\* add_typed_tag_to_book: a tag that is already there is ignored, without op.
AddTag(d, o) ==
  /\ o.add /\ o.tag \notin Pace \cup onBook[d]
  /\ onBook' = [onBook EXCEPT ![d] = @ \cup {o.tag}]
  /\ EmitTagOps(d, {o})

\* remove_typed_tag_from_book: an error for a tag that is not there.
RemoveTag(d, o) ==
  /\ ~o.add /\ o.tag \in onBook[d] \ Pace
  /\ onBook' = [onBook EXCEPT ![d] = @ \ {o.tag}]
  /\ EmitTagOps(d, {o})

\* A faulty SetPace, to validate SequentialPaceIsSingle: only the pace that
\* comes is announced, not those that go.
SetPaceSilently(d, o, at) ==
  /\ o.add /\ o.tag \in Pace
  /\ at \in [onBook[d] \cap Pace -> Hlc]
  /\ onBook' = [onBook EXCEPT ![d] = (@ \ Pace) \cup {o.tag}]
  /\ EmitTagOps(d, {o})

\* set_book_pace: every pace tag is removed, the new one is added, also when it
\* was there, and the ops say so in this order.
SetPace(d, o, at) ==
  /\ o.add /\ o.tag \in Pace
  /\ at \in [onBook[d] \cap Pace -> Hlc]
  /\ \A p, q \in DOMAIN at : p # q => at[p] # at[q]
  /\ \A p \in DOMAIN at : at[p] < o.hlc
  /\ onBook' = [onBook EXCEPT ![d] = (@ \ Pace) \cup {o.tag}]
  /\ EmitTagOps(d, {o} \cup {[hlc |-> at[p], dev |-> d, tag |-> p, add |-> FALSE] :
                               p \in DOMAIN at})

-----------------------------------------------------------------------------
(* Pulled ops. *)

\* insert_remote_op.
StageTagOp(d, o) ==
  /\ o.dev # d /\ o \notin tagLog[d]
  /\ tagLog' = [tagLog EXCEPT ![d] = @ \cup {o}]
  /\ UNCHANGED <<tagOps, onBook, tagMerged, disordered, concurrent>>

\* A faulty MergeTag, to validate TagsInHlcOrder: the removal of a tag that was
\* added by the device itself is refused.
MergeTagKeepsOwn(d, o) ==
  /\ o \in tagLog[d] /\ o.dev # d
  /\ onBook' = [onBook EXCEPT ![d] =
       IF o.add \/ \E q \in tagMerged[d] : q.dev = d /\ q.tag = o.tag /\ q.add
         THEN @ \cup {o.tag} ELSE @ \ {o.tag}]
  /\ tagMerged' = [tagMerged EXCEPT ![d] = @ \cup {o}]
  /\ disordered' = [disordered EXCEPT ![d] =
       IF \E q \in tagMerged[d] : q.tag = o.tag /\ q.hlc > o.hlc THEN @ \cup {o.tag} ELSE @]
  /\ UNCHANGED <<tagOps, tagLog, concurrent>>

\* merge_tag_create and merge_tag_delete.
MergeTag(d, o) ==
  /\ o \in tagLog[d] /\ o.dev # d
  /\ onBook' = [onBook EXCEPT ![d] = IF o.add THEN @ \cup {o.tag} ELSE @ \ {o.tag}]
  /\ tagMerged' = [tagMerged EXCEPT ![d] = @ \cup {o}]
  /\ disordered' = [disordered EXCEPT ![d] =
       IF \E q \in tagMerged[d] : q.tag = o.tag /\ q.hlc > o.hlc THEN @ \cup {o.tag} ELSE @]
  /\ UNCHANGED <<tagOps, tagLog, concurrent>>

-----------------------------------------------------------------------------

TagNext ==
  \E d \in Device :
    \/ \E o \in TagOp :
         \/ AddTag(d, o) \/ RemoveTag(d, o)
         \/ \E at \in [onBook[d] \cap Pace -> Hlc] : SetPace(d, o, at)
    \/ \E o \in tagOps : StageTagOp(d, o) \/ MergeTag(d, o)

TagSpec == TagInit /\ [][TagNext]_tagVars

-----------------------------------------------------------------------------

TagTypeOK ==
  /\ tagOps \subseteq TagOp
  /\ tagLog \in [Device -> SUBSET TagOp] /\ tagMerged \in [Device -> SUBSET TagOp]
  /\ onBook \in [Device -> SUBSET Tag]
  /\ disordered \in [Device -> SUBSET Tag]
  /\ concurrent \in BOOLEAN
  /\ \A d \in Device : tagMerged[d] \subseteq tagLog[d] /\ tagLog[d] \subseteq tagOps
  /\ \A o, q \in tagOps : o.hlc = q.hlc => o = q

(***************************************************************************)
(* "Tag - Apply add/remove in HLC order": as long as a device has merged   *)
(* the ops on a tag in the order of their timestamps, the tag is on its    *)
(* book exactly when the newest of them adds it, so two such devices that  *)
(* have merged the same ops agree.  Nothing in the merge enforces that     *)
(* order, which is why TagsConverge fails; what this shows is that the     *)
(* local writes and their ops keep step, set_book_pace included.           *)
(***************************************************************************)
TagsInHlcOrder ==
  \A d \in Device : \A t \in Tag \ disordered[d] :
    \A o \in Newest({q \in tagMerged[d] : q.tag = t}) : t \in onBook[d] <=> o.add

(***************************************************************************)
(* set_book_pace leaves a book with one pace, and its readers show the     *)
(* first they find.  Devices that set the pace in turn, each having pulled *)
(* what was set before, never show two: the removals travel with the       *)
(* addition and before it.  Set concurrently, or pulled out of order, both *)
(* paces stay.                                                             *)
(***************************************************************************)
SequentialPaceIsSingle ==
  ~concurrent /\ (\A d \in Device : disordered[d] \cap Pace = {}) =>
    \A d \in Device :
      (\A o \in PaceOps(tagMerged[d]), q \in PaceOps(tagOps) :
         q.hlc < o.hlc => q \in tagMerged[d])
      => Cardinality(onBook[d] \cap Pace) <= 1

(***************************************************************************)
(* What the order of the merges is worth: with it the tags follow the ops, *)
(* and the pace is one.                                                    *)
(***************************************************************************)
TagsKeepOrder == TagsInHlcOrder /\ SequentialPaceIsSingle

(***************************************************************************)
(* What the rule promises and the code does not keep: two devices that     *)
(* have both merged every op have the same tags on the book.               *)
(***************************************************************************)
TagsConverge ==
  \A d, e \in Device :
    tagMerged[d] = tagOps /\ tagMerged[e] = tagOps => onBook[d] = onBook[e]

=============================================================================
