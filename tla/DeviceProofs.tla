----------------------------- MODULE DeviceProofs -----------------------------
(***************************************************************************)
(* Theorems about what a device keeps: TagMerge, SettingMerge,             *)
(* DocumentMerge, DatabaseFile and LibraryRestore, for every set of        *)
(* devices, tags, texts, values and libraries, and every bound on          *)
(* timestamps, edits, resolutions, mishaps, files and archives.            *)
(***************************************************************************)
EXTENDS TagMerge, SettingMerge, DocumentMerge, DatabaseFile, LibraryRestore,
        FiniteSetTheorems, TLAPS

-----------------------------------------------------------------------------
(* Tags: the inductive invariant, in parts. *)

TagTypes ==
  /\ tagOps \subseteq TagOp
  /\ tagLog \in [Device -> SUBSET TagOp] /\ tagMerged \in [Device -> SUBSET TagOp]
  /\ onBook \in [Device -> SUBSET Tag]
  /\ disordered \in [Device -> SUBSET Tag]
  /\ concurrent \in BOOLEAN

Contained ==
  \A d \in Device : tagMerged[d] \subseteq tagLog[d] /\ tagLog[d] \subseteq tagOps

OwnTimestamps == \A o, q \in tagOps : o.hlc = q.hlc => o = q

\* The ops that d has merged on t, in TagsInHlcOrder.
OpsOn(d, t) == {q \in tagMerged[d] : q.tag = t}

\* Which tags are on the book is what the newest merged ops say: there is one
\* for a tag that is there, or that d has merged ops on.
BookFollowsOps ==
  \A d \in Device : \A t \in Tag \ disordered[d] :
    /\ \A o \in Newest(OpsOn(d, t)) : t \in onBook[d] <=> o.add
    /\ t \in onBook[d] \/ OpsOn(d, t) # {} => Newest(OpsOn(d, t)) # {}

PaceInOrder == ~concurrent /\ \A d \in Device : disordered[d] \cap Pace = {}

\* Between the addition of one pace and that of another the first was removed.
AdditionsClear ==
  PaceInOrder =>
    \A a, o \in PaceOps(tagOps) :
      a.add /\ o.add /\ o.tag # a.tag /\ o.hlc < a.hlc =>
        \E r \in PaceOps(tagOps) :
          r.tag = o.tag /\ ~r.add /\ o.hlc < r.hlc /\ r.hlc < a.hlc

TagInv ==
  TagTypes /\ Contained /\ OwnTimestamps /\ BookFollowsOps /\ AdditionsClear

\* The ops of S say what becomes of d's tags when they are book.
Announces(S, d, book) ==
  /\ \A t \in Tag : (\A o \in S : o.tag # t) => (t \in book <=> t \in onBook[d])
  /\ \A t \in Tag : (\E o \in S : o.tag = t) =>
       \E o \in S : /\ o.tag = t /\ \A q \in S : q.tag = t => q.hlc <= o.hlc
                    /\ t \in book <=> o.add

-----------------------------------------------------------------------------

(***************************************************************************)
(* The local writes, taken together: the ops of S are new and past d's log,*)
(* and the newest of them on a tag says whether it stays on the book.      *)
(***************************************************************************)
LEMMA LocalWrite ==
  ASSUME TagInv, NEW d \in Device, NEW S \in SUBSET TagOp, NEW book \in SUBSET Tag,
         EmitTagOps(d, S), onBook' = [onBook EXCEPT ![d] = book],
         \A o, q \in S : o.hlc = q.hlc => o = q,
         Announces(S, d, book)
  PROVE  TagTypes' /\ Contained' /\ OwnTimestamps' /\ BookFollowsOps'
<1>1. /\ tagOps' = tagOps \cup S
      /\ tagLog' = [tagLog EXCEPT ![d] = tagLog[d] \cup S]
      /\ tagMerged' = [tagMerged EXCEPT ![d] = tagMerged[d] \cup S]
      /\ UNCHANGED disordered
      /\ \A o \in S : (\A q \in tagLog[d] : q.hlc < o.hlc) /\ (\A q \in tagOps : q.hlc # o.hlc)
  BY DEF EmitTagOps
<1>2. TagTypes'
  <2>1. concurrent' \in BOOLEAN
    BY DEF EmitTagOps
  <2> QED
    BY <1>1, <2>1 DEF TagInv, TagTypes
<1>3. Contained'
  BY <1>1 DEF TagInv, TagTypes, Contained
<1>4. OwnTimestamps'
  BY <1>1 DEF TagInv, OwnTimestamps
<1>5. BookFollowsOps'
  <2> SUFFICES ASSUME NEW e \in Device, NEW t \in Tag \ disordered[e]
               PROVE  /\ \A o \in Newest(OpsOn(e, t)') : t \in onBook'[e] <=> o.add
                      /\ t \in onBook'[e] \/ OpsOn(e, t)' # {} => Newest(OpsOn(e, t)') # {}
    BY <1>1 DEF BookFollowsOps
  <2>1. CASE e # d \/ \A o \in S : o.tag # t
    <3>1. OpsOn(e, t)' = OpsOn(e, t)
      BY <1>1, <2>1 DEF OpsOn, TagInv, TagTypes
    <3>2. t \in onBook'[e] <=> t \in onBook[e]
      BY <2>1 DEF TagInv, TagTypes, Announces
    <3> QED
      BY <3>1, <3>2 DEF TagInv, BookFollowsOps
  <2>2. CASE e = d /\ \E o \in S : o.tag = t
    <3>1. PICK o \in S : /\ o.tag = t /\ \A q \in S : q.tag = t => q.hlc <= o.hlc
                         /\ t \in book <=> o.add
      BY <2>2 DEF Announces
    <3>2. OpsOn(e, t)' = OpsOn(d, t) \cup {q \in S : q.tag = t}
      BY <1>1, <2>2 DEF OpsOn, TagInv, TagTypes
    <3>3. o \in S /\ o.tag = t /\ \A q \in S : q.tag = t => q.hlc <= o.hlc
      BY <3>1
    <3>4. \A q \in OpsOn(d, t) : q.hlc < o.hlc
      BY <1>1, <3>3 DEF OpsOn, TagInv, Contained
    <3>5. \A q \in TagOp : q.hlc \in Nat
      BY SyncEntityAssumption DEF TagOp, Hlc
    <3>6. OpsOn(d, t) \subseteq TagOp
      BY DEF OpsOn, TagInv, TagTypes
    <3>7. o \in Newest(OpsOn(e, t)')
      BY <3>2, <3>3, <3>4, <3>5, <3>6 DEF Newest
    <3>8. ASSUME NEW q \in Newest(OpsOn(e, t)') PROVE q = o
      <4>1. q.hlc = o.hlc
        BY <3>2, <3>3, <3>4, <3>5, <3>6, <3>7, <3>8 DEF Newest
      <4>2. q \in S
        BY <3>2, <3>4, <3>5, <3>6, <3>8, <4>1 DEF Newest
      <4> QED
        BY <3>3, <4>1, <4>2
    <3>9. t \in onBook'[e] <=> t \in book
      BY <2>2 DEF TagInv, TagTypes
    <3> QED
      BY <3>1, <3>7, <3>8, <3>9
  <2> QED
    BY <2>1, <2>2
<1> QED
  BY <1>2, <1>3, <1>4, <1>5

\* Initially no device has a tag or an op.
LEMMA TagInitInv == TagInit => TagInv
<1> SUFFICES ASSUME TagInit PROVE TagInv
  OBVIOUS
<1>1. TagTypes
  <2>1. concurrent \in BOOLEAN
    BY DEF TagInit
  <2> QED
    BY <2>1 DEF TagInit, TagTypes
<1>2. Contained /\ OwnTimestamps /\ AdditionsClear
  BY DEF TagInit, Contained, OwnTimestamps, AdditionsClear, PaceOps
<1>3. BookFollowsOps
  BY DEF TagInit, BookFollowsOps, OpsOn, Newest
<1> QED
  BY <1>1, <1>2, <1>3 DEF TagInv

(***************************************************************************)
(* Ops without an addition of a pace leave AdditionsClear alone when they  *)
(* are newer than what their device has merged.                            *)
(***************************************************************************)
LEMMA NoAddition ==
  ASSUME TagInv, NEW d \in Device, NEW S \in SUBSET TagOp, EmitTagOps(d, S),
         \A o \in S : o.tag \notin Pace
  PROVE  AdditionsClear'
<1>1. tagOps' = tagOps \cup S /\ disordered' = disordered
  BY DEF EmitTagOps
<1>2. PaceOps(tagOps') = PaceOps(tagOps)
  BY <1>1 DEF PaceOps
<1>3. ~concurrent' => ~concurrent
  BY DEF EmitTagOps
<1>4. PaceInOrder' => PaceInOrder
  BY <1>1, <1>3 DEF PaceInOrder
<1> QED
  BY <1>2, <1>4 DEF AdditionsClear, TagInv

\* A tag that is no pace is added or removed with one op.
LEMMA AddTagStep ==
  ASSUME TagInv, NEW d \in Device, NEW o \in TagOp, AddTag(d, o) \/ RemoveTag(d, o)
  PROVE  TagInv'
<1> DEFINE book == IF o.add THEN onBook[d] \cup {o.tag} ELSE onBook[d] \ {o.tag}
<1>1. EmitTagOps(d, {o}) /\ onBook' = [onBook EXCEPT ![d] = book] /\ o.tag \notin Pace
  BY DEF AddTag, RemoveTag
<1>2. book \in SUBSET Tag
  BY DEF TagInv, TagTypes, TagOp
<1>3. o.hlc <= o.hlc
  BY SyncEntityAssumption DEF TagOp, Hlc
<1>4. o.tag \in book <=> o.add
  OBVIOUS
<1>5. \A t \in Tag : o.tag # t => (t \in book <=> t \in onBook[d])
  OBVIOUS
<1> HIDE DEF book
<1>6. \A t \in Tag : (\E q \in {o} : q.tag = t) =>
        \E p \in {o} : /\ p.tag = t /\ \A q \in {o} : q.tag = t => q.hlc <= p.hlc
                       /\ t \in book <=> p.add
  BY <1>3, <1>4
<1>7. TagTypes' /\ Contained' /\ OwnTimestamps' /\ BookFollowsOps'
  <2> DEFINE S == {o}
  <2>1. S \in SUBSET TagOp /\ EmitTagOps(d, S) /\ \A p, q \in S : p.hlc = q.hlc => p = q
    BY <1>1
  <2>2. Announces(S, d, book)
    BY <1>5, <1>6 DEF Announces
  <2> HIDE DEF S
  <2> QED
    BY <1>1, <1>2, <2>1, <2>2, LocalWrite
<1>8. AdditionsClear'
  BY <1>1, NoAddition
<1> QED
  BY <1>7, <1>8 DEF TagInv

\* A pace is set: the op that adds it is past those that remove the others.
LEMMA SetPaceStep ==
  ASSUME TagInv, NEW d \in Device, NEW o \in TagOp,
         NEW stamp \in [onBook[d] \cap Pace -> Hlc], SetPace(d, o, stamp)
  PROVE  TagInv'
<1> DEFINE gone(p) == [hlc |-> stamp[p], dev |-> d, tag |-> p, add |-> FALSE]
           S == {o} \cup {gone(p) : p \in onBook[d] \cap Pace}
           book == (onBook[d] \ Pace) \cup {o.tag}
<1>1. /\ o.add /\ o.tag \in Pace /\ DOMAIN stamp = onBook[d] \cap Pace
      /\ \A p, q \in onBook[d] \cap Pace : p # q => stamp[p] # stamp[q]
      /\ \A p \in onBook[d] \cap Pace : stamp[p] < o.hlc
      /\ EmitTagOps(d, S) /\ onBook' = [onBook EXCEPT ![d] = book]
  BY DEF SetPace
<1>2. book \in SUBSET Tag /\ onBook[d] \subseteq Tag /\ d \in Device
  BY DEF TagInv, TagTypes, TagOp
<1>3. \A p \in onBook[d] \cap Pace :
        /\ gone(p) \in TagOp /\ gone(p).hlc = stamp[p] /\ gone(p).tag = p /\ ~gone(p).add
        /\ gone(p) \in S
  BY <1>2 DEF TagOp
<1>4. S \in SUBSET TagOp /\ o \in S
  BY <1>3
<1>5. \A q \in S : q = o \/ \E p \in onBook[d] \cap Pace : q = gone(p)
  OBVIOUS
<1>6. \A q \in TagOp : q.hlc \in Nat
  BY SyncEntityAssumption DEF TagOp, Hlc
<1> HIDE DEF S, gone
<1>7. \A p, q \in S : p.hlc = q.hlc => p = q
  <2> SUFFICES ASSUME NEW p \in S, NEW q \in S, p.hlc = q.hlc PROVE p = q
    OBVIOUS
  <2>1. CASE p = o \/ q = o
    BY <1>1, <1>3, <1>4, <1>5, <1>6, <2>1
  <2>2. CASE p # o /\ q # o
    BY <1>1, <1>3, <1>5, <2>2
  <2> QED
    BY <2>1, <2>2
<1>8. \A t \in Tag : (\A q \in S : q.tag # t) => (t \in book <=> t \in onBook[d])
  BY <1>1, <1>3, <1>4
<1>9. ASSUME NEW t \in Tag, \E q \in S : q.tag = t
      PROVE  \E q \in S : /\ q.tag = t /\ \A p \in S : p.tag = t => p.hlc <= q.hlc
                          /\ t \in book <=> q.add
  <2>1. CASE t = o.tag
    <3>1. \A p \in S : p.hlc <= o.hlc
      BY <1>1, <1>3, <1>4, <1>5, <1>6
    <3> QED
      BY <3>1, <1>1, <1>4, <2>1
  <2>2. CASE t # o.tag
    <3>1. t \in onBook[d] \cap Pace /\ \A q \in S : q.tag = t => q = gone(t)
      BY <1>3, <1>5, <1>9, <2>2
    <3>2. gone(t) \in S /\ gone(t).hlc <= gone(t).hlc
      BY <1>3, <1>4, <1>6, <3>1
    <3> QED
      BY <1>3, <2>2, <3>1, <3>2
  <2> QED
    BY <2>1, <2>2
<1>10. TagTypes' /\ Contained' /\ OwnTimestamps' /\ BookFollowsOps'
  <2> HIDE DEF book
  <2>1. Announces(S, d, book)
    BY <1>8, <1>9 DEF Announces
  <2> QED
    BY <1>1, <1>2, <1>4, <1>7, <2>1, LocalWrite
<1>11. AdditionsClear'
  <2> SUFFICES ASSUME PaceInOrder',
                      NEW a \in PaceOps(tagOps'), NEW b \in PaceOps(tagOps'),
                      a.add, b.add, b.tag # a.tag, b.hlc < a.hlc
               PROVE  \E r \in PaceOps(tagOps') :
                        r.tag = b.tag /\ ~r.add /\ b.hlc < r.hlc /\ r.hlc < a.hlc
    BY DEF AdditionsClear
  <2>1. /\ tagOps' = tagOps \cup S /\ disordered' = disordered
        /\ \A q \in S : \A p \in tagLog[d] : p.hlc < q.hlc
    BY <1>1 DEF EmitTagOps
  <2>2. o \in PaceOps(S)
    BY <1>1, <1>4 DEF PaceOps
  <2>3. ~concurrent /\ PaceOps(tagOps) \subseteq tagMerged[d]
    BY <1>1, <2>2 DEF PaceInOrder, EmitTagOps
  <2>4. PaceInOrder
    BY <2>1, <2>3 DEF PaceInOrder
  <2>5. tagOps \subseteq TagOp /\ \A q \in PaceOps(tagOps), p \in S : q.hlc < p.hlc
    BY <2>1, <2>3 DEF TagInv, TagTypes, Contained
  <2>6. a \in tagOps \/ a = o
    BY <1>3, <1>5, <2>1 DEF PaceOps
  <2>7. b \in tagOps
    BY <1>1, <1>3, <1>4, <1>5, <1>6, <2>1, <2>5, <2>6 DEF PaceOps
  <2>8. b \in PaceOps(tagOps) /\ b.tag \in Pace
    BY <2>7 DEF PaceOps
  <2>9. CASE a \in tagOps
    <3>1. a \in PaceOps(tagOps)
      BY <2>9 DEF PaceOps
    <3>2. PICK r \in PaceOps(tagOps) :
            r.tag = b.tag /\ ~r.add /\ b.hlc < r.hlc /\ r.hlc < a.hlc
      BY <2>4, <2>8, <3>1 DEF TagInv, AdditionsClear
    <3> QED
      BY <2>1, <3>2 DEF PaceOps
  <2>10. CASE a = o
    <3>1. CASE b.tag \in onBook[d]
      <4>1. gone(b.tag) \in PaceOps(tagOps')
        BY <1>3, <2>1, <2>8, <3>1 DEF PaceOps
      <4>2. b.hlc < gone(b.tag).hlc /\ gone(b.tag).hlc < a.hlc
        BY <1>1, <1>3, <2>5, <2>8, <2>10, <3>1
      <4> QED
        BY <1>3, <2>8, <3>1, <4>1, <4>2
    <3>2. CASE b.tag \notin onBook[d]
      <4>1. b \in OpsOn(d, b.tag) /\ b.tag \in Tag \ disordered[d]
        BY <2>3, <2>4, <2>5, <2>7, <2>8 DEF OpsOn, PaceInOrder, TagOp
      <4>2. b \notin Newest(OpsOn(d, b.tag))
        BY <3>2, <4>1 DEF TagInv, BookFollowsOps
      <4>3. PICK r \in Newest(OpsOn(d, b.tag)) : ~r.add
        BY <3>2, <4>1 DEF TagInv, BookFollowsOps
      <4>4. r \in tagOps /\ r.tag = b.tag /\ b.hlc <= r.hlc /\ r # b
        BY <4>1, <4>2, <4>3 DEF Newest, OpsOn, TagInv, Contained
      <4>5. r \in PaceOps(tagOps) /\ r.hlc < a.hlc
        BY <1>4, <2>5, <2>8, <2>10, <4>4 DEF PaceOps
      <4>6. b.hlc < r.hlc
        BY <1>6, <2>5, <2>7, <4>4 DEF TagInv, OwnTimestamps
      <4> QED
        BY <2>1, <4>3, <4>4, <4>5, <4>6 DEF PaceOps
    <3> QED
      BY <3>1, <3>2
  <2> QED
    BY <2>6, <2>9, <2>10
<1> QED
  BY <1>10, <1>11 DEF TagInv

\* An op that is only staged in the log changes no book.
LEMMA StageStep ==
  ASSUME TagInv, NEW d \in Device, NEW o \in tagOps, StageTagOp(d, o)
  PROVE  TagInv'
<1>1. /\ tagLog' = [tagLog EXCEPT ![d] = tagLog[d] \cup {o}]
      /\ UNCHANGED <<tagOps, onBook, tagMerged, disordered, concurrent>>
  BY DEF StageTagOp
<1>2. TagTypes' /\ Contained'
  BY <1>1 DEF TagInv, TagTypes, Contained
<1>3. OwnTimestamps' /\ AdditionsClear'
  BY <1>1 DEF TagInv, OwnTimestamps, AdditionsClear, PaceInOrder
<1>4. BookFollowsOps'
  BY <1>1 DEF TagInv, BookFollowsOps, OpsOn
<1> QED
  BY <1>2, <1>3, <1>4 DEF TagInv

(***************************************************************************)
(* merge_tag obeys the op: it is the newest on its tag, or the tag counts  *)
(* as disordered from now on.                                              *)
(***************************************************************************)
LEMMA MergeTagStep ==
  ASSUME TagInv, NEW d \in Device, NEW o \in tagOps, MergeTag(d, o)
  PROVE  TagInv'
<1> DEFINE book == IF o.add THEN onBook[d] \cup {o.tag} ELSE onBook[d] \ {o.tag}
           late == \E q \in tagMerged[d] : q.tag = o.tag /\ q.hlc > o.hlc
<1>1. /\ o \in tagLog[d] /\ onBook' = [onBook EXCEPT ![d] = book]
      /\ tagMerged' = [tagMerged EXCEPT ![d] = tagMerged[d] \cup {o}]
      /\ disordered' = [disordered EXCEPT ![d] =
           IF late THEN disordered[d] \cup {o.tag} ELSE disordered[d]]
      /\ UNCHANGED <<tagOps, tagLog, concurrent>>
  BY DEF MergeTag
<1>2. o \in TagOp /\ o.tag \in Tag /\ \A q \in TagOp : q.hlc \in Nat
  BY SyncEntityAssumption DEF TagInv, TagTypes, TagOp, Hlc
<1>3. book \in SUBSET Tag
  BY <1>2 DEF TagInv, TagTypes
<1>4. \A t \in Tag \ {o.tag} : t \in book <=> t \in onBook[d]
  OBVIOUS
<1>5. o.tag \in book <=> o.add
  OBVIOUS
<1> HIDE DEF book
<1>6. TagTypes'
  BY <1>1, <1>2, <1>3 DEF TagInv, TagTypes
<1>7. Contained' /\ OwnTimestamps'
  BY <1>1 DEF TagInv, TagTypes, Contained, OwnTimestamps
<1>8. \A e \in Device : disordered[e] \subseteq disordered'[e]
  BY <1>1 DEF TagInv, TagTypes
<1>9. AdditionsClear'
  BY <1>1, <1>8 DEF TagInv, AdditionsClear, PaceInOrder
<1>10. BookFollowsOps'
  <2> SUFFICES ASSUME NEW e \in Device, NEW t \in Tag \ disordered'[e]
               PROVE  /\ \A p \in Newest(OpsOn(e, t)') : t \in onBook'[e] <=> p.add
                      /\ t \in onBook'[e] \/ OpsOn(e, t)' # {} => Newest(OpsOn(e, t)') # {}
    BY DEF BookFollowsOps
  <2>1. t \in Tag \ disordered[e]
    BY <1>8
  <2>2. CASE e # d \/ t # o.tag
    <3>1. OpsOn(e, t)' = OpsOn(e, t)
      BY <1>1, <2>2 DEF OpsOn, TagInv, TagTypes
    <3>2. t \in onBook'[e] <=> t \in onBook[e]
      BY <1>1, <1>4, <2>2 DEF TagInv, TagTypes
    <3> QED
      BY <2>1, <3>1, <3>2 DEF TagInv, BookFollowsOps
  <2>3. CASE e = d /\ t = o.tag
    <3>1. \A q \in tagMerged[d] : q.tag = t => ~(q.hlc > o.hlc)
      BY <1>1, <2>3 DEF TagInv, TagTypes
    <3>2. OpsOn(e, t)' = OpsOn(d, t) \cup {o}
      BY <1>1, <2>3 DEF OpsOn, TagInv, TagTypes
    <3>3. OpsOn(d, t) \subseteq TagOp \cap tagOps
      BY DEF OpsOn, TagInv, TagTypes, Contained
    <3>4. \A q \in OpsOn(d, t) : q.hlc <= o.hlc
      BY <1>2, <3>1, <3>3 DEF OpsOn
    <3>5. o \in Newest(OpsOn(e, t)')
      BY <1>2, <3>2, <3>4 DEF Newest
    <3>6. ASSUME NEW p \in Newest(OpsOn(e, t)') PROVE p = o
      <4>1. p.hlc = o.hlc /\ p \in tagOps
        BY <1>2, <3>2, <3>3, <3>4 DEF Newest
      <4> QED
        BY <4>1 DEF TagInv, OwnTimestamps
    <3>7. t \in onBook'[e] <=> o.add
      <4>1. onBook'[e] = book
        BY <1>1, <2>3 DEF TagInv, TagTypes
      <4> QED
        BY <1>5, <2>3, <4>1
    <3> QED
      BY <3>5, <3>6, <3>7
  <2> QED
    BY <2>2, <2>3
<1> QED
  BY <1>6, <1>7, <1>9, <1>10 DEF TagInv

(***************************************************************************)
(* The inductive invariant of the tags.                                    *)
(***************************************************************************)
THEOREM TagInvariant == TagSpec => []TagInv
<1>1. TagInit => TagInv
  BY TagInitInv
<1>2. TagInv /\ [TagNext]_tagVars => TagInv'
  <2> SUFFICES ASSUME TagInv, [TagNext]_tagVars PROVE TagInv'
    OBVIOUS
  <2>1. CASE UNCHANGED tagVars
    BY <2>1 DEF tagVars, TagInv, TagTypes, Contained, OwnTimestamps, BookFollowsOps, OpsOn,
                AdditionsClear, PaceInOrder
  <2>2. CASE TagNext
    <3>1. PICK d \in Device :
            \/ \E o \in TagOp :
                 \/ AddTag(d, o) \/ RemoveTag(d, o)
                 \/ \E stamp \in [onBook[d] \cap Pace -> Hlc] : SetPace(d, o, stamp)
            \/ \E o \in tagOps : StageTagOp(d, o) \/ MergeTag(d, o)
      BY <2>2 DEF TagNext
    <3> QED
      BY <3>1, AddTagStep, SetPaceStep, StageStep, MergeTagStep
  <2> QED
    BY <2>1, <2>2
<1> QED
  BY <1>1, <1>2, PTL DEF TagSpec

(***************************************************************************)
(* Local writes, their ops and merge_tag keep step: a tag on which a       *)
(* device has merged the ops in order is on its book exactly when the      *)
(* newest op adds it, however many devices and tags there are.             *)
(***************************************************************************)
THEOREM TagsFollowOrder == TagSpec => []TagsInHlcOrder
<1>1. TagInv => TagsInHlcOrder
  BY DEF TagInv, BookFollowsOps, OpsOn, TagsInHlcOrder
<1> QED
  BY <1>1, TagInvariant, PTL

\* A set whose members are all the same has at most one.
LEMMA AtMostOne ==
  ASSUME NEW S, \A s, t \in S : s = t
  PROVE  Cardinality(S) <= 1
<1>1. CASE S = {}
  BY <1>1, FS_EmptySet
<1>2. ASSUME NEW s \in S
      PROVE  Cardinality(S) <= 1
  <2>1. S = {s}
    OBVIOUS
  <2>2. Cardinality({s}) = 1
    BY FS_Singleton
  <2> QED
    BY <2>1, <2>2
<1> QED
  BY <1>1, <1>2

(***************************************************************************)
(* Paces set in turn and merged in order leave one pace on the book: what  *)
(* set_book_pace removes before it adds is enough for every device.        *)
(***************************************************************************)
THEOREM OnePaceInOrder == TagSpec => []SequentialPaceIsSingle
<1>1. ASSUME TagInv, PaceInOrder, NEW d \in Device,
             \A o \in PaceOps(tagMerged[d]), q \in PaceOps(tagOps) :
               q.hlc < o.hlc => q \in tagMerged[d],
             NEW s \in onBook[d] \cap Pace, NEW t \in onBook[d] \cap Pace, s # t
      PROVE  FALSE
  <2>1. \A x \in onBook[d] \cap Pace : x \in Tag \ disordered[d]
    BY <1>1 DEF TagInv, TagTypes, PaceInOrder
  <2>2. ASSUME NEW x \in onBook[d] \cap Pace
        PROVE  \E o \in Newest(OpsOn(d, x)) : o.add /\ o \in PaceOps(tagMerged[d]) /\ o.tag = x
    BY <1>1, <2>1 DEF TagInv, BookFollowsOps, Newest, OpsOn, PaceOps
  <2>3. PICK a \in Newest(OpsOn(d, s)) : a.add /\ a \in PaceOps(tagMerged[d]) /\ a.tag = s
    BY <2>2
  <2>4. PICK b \in Newest(OpsOn(d, t)) : b.add /\ b \in PaceOps(tagMerged[d]) /\ b.tag = t
    BY <2>2
  <2>5. tagMerged[d] \subseteq tagOps /\ tagOps \subseteq TagOp
    BY <1>1 DEF TagInv, Contained, TagTypes
  <2>6. \A q \in tagOps : q.hlc \in Nat
    BY <2>5, SyncEntityAssumption DEF TagOp, Hlc
  <2>7. a \in PaceOps(tagOps) /\ b \in PaceOps(tagOps)
    BY <2>3, <2>4, <2>5 DEF PaceOps
  <2>8. ASSUME NEW p \in PaceOps(tagMerged[d]), NEW q \in PaceOps(tagMerged[d]),
               p \in Newest(OpsOn(d, p.tag)), p.add, q.add, p.tag # q.tag,
               p.hlc < q.hlc
        PROVE  FALSE
    <3>1. p \in PaceOps(tagOps) /\ q \in PaceOps(tagOps)
      BY <2>5 DEF PaceOps
    <3>2. PICK r \in PaceOps(tagOps) :
            r.tag = p.tag /\ ~r.add /\ p.hlc < r.hlc /\ r.hlc < q.hlc
      BY <1>1, <2>8, <3>1 DEF TagInv, AdditionsClear
    <3>3. r \in OpsOn(d, p.tag)
      BY <1>1, <3>2 DEF OpsOn
    <3>4. r.hlc <= p.hlc
      BY <2>8, <3>3 DEF Newest
    <3>5. r.hlc \in Nat /\ p.hlc \in Nat
      BY <2>6, <3>1, <3>2 DEF PaceOps
    <3> QED
      BY <3>2, <3>4, <3>5
  <2>9. a.hlc < b.hlc \/ b.hlc < a.hlc
    BY <1>1, <2>3, <2>4, <2>6, <2>7 DEF TagInv, OwnTimestamps, PaceOps
  <2> QED
    BY <1>1, <2>3, <2>4, <2>8, <2>9
<1>2. TagInv => SequentialPaceIsSingle
  <2> SUFFICES ASSUME TagInv, PaceInOrder, NEW d \in Device,
                      \A o \in PaceOps(tagMerged[d]), q \in PaceOps(tagOps) :
                        q.hlc < o.hlc => q \in tagMerged[d]
               PROVE  Cardinality(onBook[d] \cap Pace) <= 1
    BY DEF SequentialPaceIsSingle, PaceInOrder
  <2>1. \A s, t \in onBook[d] \cap Pace : s = t
    BY <1>1
  <2> QED
    BY <2>1, AtMostOne
<1> QED
  BY <1>2, TagInvariant, PTL

(***************************************************************************)
(* What merging in order is worth, for tags and paces together.            *)
(***************************************************************************)
THEOREM OrderKeepsTags == TagSpec => []TagsKeepOrder
<1>1. TagsInHlcOrder /\ SequentialPaceIsSingle => TagsKeepOrder
  BY DEF TagsKeepOrder
<1> QED
  BY <1>1, TagsFollowOrder, OnePaceInOrder, PTL

-----------------------------------------------------------------------------
(* Settings: the inductive invariant, in parts. *)

SettingRow == [id : SettingId \cup {"none"}, value : Option \cup {Unset}, stamp : Nat]

SettingTypes ==
  /\ settingOps \subseteq SettingOp
  /\ settingMerged \in [Replica -> SUBSET SettingOp]
  /\ setting \in [Replica -> SettingRow]
  /\ shuffled \in [Replica -> BOOLEAN]
  /\ \A d \in Replica : settingMerged[d] \subseteq settingOps

Distinct(S) == \A o, q \in S : o.hlc = q.hlc => o = q

\* A row comes from an op of S, the merged ones.
RowHasOp(row, S) ==
  /\ row.id = "none" => row.stamp = 0
  /\ row.id # "none" =>
       \E o \in S : o.id = row.id /\ o.value = row.value /\ o.hlc = row.stamp /\ o.value # Unset

\* Without deletes a row is there and no merged op is newer.
UpsertsKept(row, S) ==
  \A i \in SettingId :
    (\A o \in S : o.id = i => o.value # Unset) =>
      \A o \in S : o.id = i => row.id = i /\ o.hlc <= row.stamp

\* The newest op on an id says what the row of the id is.
NewestKept(row, S) ==
  \A o \in S :
    (\A q \in S : q.id = o.id => q.hlc <= o.hlc) =>
      /\ o.value = Unset => row.id # o.id
      /\ o.value # Unset => row = [id |-> o.id, value |-> o.value, stamp |-> o.hlc]

SettingInv ==
  /\ SettingTypes /\ Distinct(settingOps)
  /\ \A d \in Replica :
       /\ RowHasOp(setting[d], settingMerged[d])
       /\ UpsertsKept(setting[d], settingMerged[d])
       /\ ~shuffled[d] => NewestKept(setting[d], settingMerged[d])

-----------------------------------------------------------------------------

\* Initially there is no row and no op.
LEMMA SettingInitInv == SettingInit => SettingInv
<1> SUFFICES ASSUME SettingInit PROVE SettingInv
  OBVIOUS
<1>1. SettingTypes
  BY DEF SettingInit, SettingTypes, SettingRow, NoSetting
<1>2. Distinct(settingOps)
  BY DEF SettingInit, Distinct
<1>3. \A d \in Replica :
        /\ RowHasOp(setting[d], settingMerged[d])
        /\ UpsertsKept(setting[d], settingMerged[d])
        /\ NewestKept(setting[d], settingMerged[d])
  BY DEF SettingInit, RowHasOp, UpsertsKept, NewestKept, NoSetting
<1> QED
  BY <1>1, <1>2, <1>3 DEF SettingInv

\* A program writes a setting under a timestamp of its own.
LEMMA WriteStep ==
  ASSUME SettingInv, NEW o \in SettingOp, WriteSetting(o)
  PROVE  SettingInv'
<1>1. /\ \A q \in settingOps : q.hlc # o.hlc
      /\ settingOps' = settingOps \cup {o}
      /\ UNCHANGED <<setting, settingMerged, shuffled>>
  BY DEF WriteSetting
<1>2. SettingTypes' /\ Distinct(settingOps')
  BY <1>1 DEF SettingInv, SettingTypes, Distinct
<1> QED
  BY <1>1, <1>2 DEF SettingInv

(***************************************************************************)
(* The row after an upsert of o, and after a delete.                       *)
(***************************************************************************)
LEMMA UpsertRow ==
  ASSUME NEW S \in SUBSET SettingOp, NEW o \in SettingOp, Distinct(S \cup {o}),
         NEW row \in SettingRow, RowHasOp(row, S), UpsertsKept(row, S),
         o.value # Unset, row.id \in {"none", o.id},
         NEW new, new = IF o.hlc > row.stamp
                          THEN [id |-> o.id, value |-> o.value, stamp |-> o.hlc] ELSE row
  PROVE  /\ new \in SettingRow
         /\ RowHasOp(new, S \cup {o}) /\ UpsertsKept(new, S \cup {o})
         /\ NewestKept(row, S) => NewestKept(new, S \cup {o})
                                  \/ \E q \in S : q.id = o.id /\ q.hlc > o.hlc
<1>1. /\ o.id \in SettingId /\ o.id # "none" /\ o.hlc \in Nat /\ o.hlc > 0
      /\ o.value \in Option /\ row.stamp \in Nat
      /\ \A q \in S : q.hlc \in Nat /\ q.id \in SettingId /\ q.id # "none"
  BY SyncEntityAssumption, SettingAssumption DEF SettingOp, Hlc, SettingRow
<1>2. CASE o.hlc > row.stamp
  <2>1. new.id = o.id /\ new.value = o.value /\ new.stamp = o.hlc /\ new \in SettingRow
    BY <1>1, <1>2 DEF SettingRow
  <2>2. RowHasOp(new, S \cup {o})
    BY <1>1, <2>1 DEF RowHasOp
  <2>3. UpsertsKept(new, S \cup {o})
    BY <1>1, <1>2, <2>1 DEF UpsertsKept
  <2>4. ASSUME NewestKept(row, S), \A q \in S : ~(q.id = o.id /\ q.hlc > o.hlc)
        PROVE  NewestKept(new, S \cup {o})
    <3> SUFFICES ASSUME NEW p \in S \cup {o},
                        \A q \in S \cup {o} : q.id = p.id => q.hlc <= p.hlc
                 PROVE  /\ p.value = Unset => new.id # p.id
                        /\ p.value # Unset =>
                             new = [id |-> p.id, value |-> p.value, stamp |-> p.hlc]
      BY DEF NewestKept
    <3>1. CASE p.id = o.id
      <4>1. p.hlc = o.hlc
        BY <1>1, <2>4, <3>1
      <4>2. p = o
        BY <4>1 DEF Distinct
      <4> QED
        BY <1>2, <4>2
    <3>2. CASE p.id # o.id
      <4>1. /\ p \in S /\ p.id # "none"
            /\ p.value = Unset \/ row.id = p.id
        BY <1>1, <2>4, <3>2 DEF NewestKept
      <4> QED
        BY <2>1, <3>2, <4>1
    <3> QED
      BY <3>1, <3>2
  <2> QED
    BY <2>1, <2>2, <2>3, <2>4
<1>3. CASE ~(o.hlc > row.stamp)
  <2>1. new = row /\ row.id = o.id
    BY <1>1, <1>3 DEF RowHasOp
  <2>2. RowHasOp(new, S \cup {o})
    BY <2>1 DEF RowHasOp
  <2>3. UpsertsKept(new, S \cup {o})
    BY <1>1, <1>3, <2>1 DEF UpsertsKept
  <2>4. ASSUME NewestKept(row, S), \A q \in S : ~(q.id = o.id /\ q.hlc > o.hlc)
        PROVE  NewestKept(new, S \cup {o})
    <3>1. PICK p \in S : p.id = row.id /\ p.value = row.value /\ p.hlc = row.stamp
      BY <1>1, <2>1 DEF RowHasOp
    <3>2. p.hlc = o.hlc
      BY <1>1, <1>3, <2>1, <2>4, <3>1
    <3>3. p = o
      BY <3>2 DEF Distinct
    <3>4. S \cup {o} = S
      BY <3>3
    <3> QED
      BY <2>1, <2>4, <3>4
  <2> QED
    BY <2>1, <2>2, <2>3, <2>4
<1> QED
  BY <1>2, <1>3

\* What the merge of a removal does to the row, and to what the row follows.
LEMMA RemoveRow ==
  ASSUME NEW S \in SUBSET SettingOp, NEW o \in SettingOp, Distinct(S \cup {o}),
         NEW row \in SettingRow, RowHasOp(row, S), UpsertsKept(row, S),
         o.value = Unset,
         NEW new, new = IF o.id = row.id THEN NoSetting ELSE row
  PROVE  /\ new \in SettingRow
         /\ RowHasOp(new, S \cup {o}) /\ UpsertsKept(new, S \cup {o})
         /\ NewestKept(row, S) => NewestKept(new, S \cup {o})
                                  \/ \E q \in S : q.id = o.id /\ q.hlc > o.hlc
<1>1. /\ o.id \in SettingId /\ o.id # "none" /\ o.hlc \in Nat
      /\ \A q \in S : q.hlc \in Nat /\ q.id \in SettingId /\ q.id # "none"
      /\ NoSetting \in SettingRow /\ NoSetting.id = "none" /\ NoSetting.stamp = 0
  BY SyncEntityAssumption, SettingAssumption DEF SettingOp, Hlc, SettingRow, NoSetting
<1>2. new \in SettingRow /\ new.id # o.id
  BY <1>1
<1>3. RowHasOp(new, S \cup {o})
  BY <1>1 DEF RowHasOp
<1>4. UpsertsKept(new, S \cup {o})
  <2> SUFFICES ASSUME NEW i \in SettingId,
                      \A q \in S \cup {o} : q.id = i => q.value # Unset,
                      NEW p \in S \cup {o}, p.id = i
               PROVE  new.id = i /\ p.hlc <= new.stamp
    BY DEF UpsertsKept
  <2>1. i # o.id /\ p \in S
    OBVIOUS
  <2>2. row.id = i /\ p.hlc <= row.stamp
    BY <2>1 DEF UpsertsKept
  <2> QED
    BY <2>1, <2>2
<1>5. ASSUME NewestKept(row, S), \A q \in S : ~(q.id = o.id /\ q.hlc > o.hlc)
      PROVE  NewestKept(new, S \cup {o})
  <2> SUFFICES ASSUME NEW p \in S \cup {o},
                      \A q \in S \cup {o} : q.id = p.id => q.hlc <= p.hlc
               PROVE  /\ p.value = Unset => new.id # p.id
                      /\ p.value # Unset =>
                           new = [id |-> p.id, value |-> p.value, stamp |-> p.hlc]
    BY DEF NewestKept
  <2>1. CASE p.id = o.id
    <3>1. p.hlc = o.hlc
      BY <1>1, <1>5, <2>1
    <3>2. p = o
      BY <3>1 DEF Distinct
    <3> QED
      BY <1>2, <3>2
  <2>2. CASE p.id # o.id
    <3>1. /\ p \in S /\ p.id # "none"
          /\ p.value = Unset => row.id # p.id
          /\ p.value # Unset => row = [id |-> p.id, value |-> p.value, stamp |-> p.hlc]
      BY <1>1, <1>5, <2>2 DEF NewestKept
    <3> QED
      BY <1>1, <2>2, <3>1
  <2> QED
    BY <2>1, <2>2
<1> QED
  BY <1>2, <1>3, <1>4, <1>5

\* A device merges an op about the setting.
LEMMA MergeSettingStep ==
  ASSUME SettingInv, NEW d \in Replica, NEW o \in settingOps, MergeSetting(d, o)
  PROVE  SettingInv'
<1>1. /\ settingMerged' = [settingMerged EXCEPT ![d] = settingMerged[d] \cup {o}]
      /\ settingOps' = settingOps
      /\ shuffled' = [shuffled EXCEPT ![d] =
           shuffled[d] \/ \E q \in settingMerged[d] : q.id = o.id /\ q.hlc > o.hlc]
  BY DEF MergeSetting
<1>2. /\ o \in SettingOp /\ settingMerged[d] \in SUBSET SettingOp /\ setting[d] \in SettingRow
      /\ RowHasOp(setting[d], settingMerged[d]) /\ UpsertsKept(setting[d], settingMerged[d])
      /\ Distinct(settingMerged[d] \cup {o})
      /\ ~shuffled[d] => NewestKept(setting[d], settingMerged[d])
  BY DEF SettingInv, SettingTypes, Distinct
<1>3. \E new \in SettingRow :
        /\ setting' = [setting EXCEPT ![d] = new]
        /\ RowHasOp(new, settingMerged[d] \cup {o}) /\ UpsertsKept(new, settingMerged[d] \cup {o})
        /\ NewestKept(setting[d], settingMerged[d]) =>
             NewestKept(new, settingMerged[d] \cup {o})
             \/ \E q \in settingMerged[d] : q.id = o.id /\ q.hlc > o.hlc
  <2>1. CASE MergeUpsert(d, o)
    <3>1. PICK new : new = IF o.hlc > setting[d].stamp
                             THEN [id |-> o.id, value |-> o.value, stamp |-> o.hlc]
                             ELSE setting[d]
      OBVIOUS
    <3>2. /\ o.value # Unset /\ setting[d].id \in {"none", o.id}
          /\ setting' = [setting EXCEPT ![d] = new]
      BY <2>1, <3>1 DEF MergeUpsert
    <3> QED
      BY <1>2, <3>1, <3>2, UpsertRow
  <2>2. CASE MergeRemove(d, o)
    <3>1. PICK new : new = IF o.id = setting[d].id THEN NoSetting ELSE setting[d]
      OBVIOUS
    <3>2. o.value = Unset /\ setting' = [setting EXCEPT ![d] = new]
      BY <2>2, <3>1 DEF MergeRemove
    <3> QED
      BY <1>2, <3>1, <3>2, RemoveRow
  <2> QED
    BY <2>1, <2>2 DEF MergeSetting
<1>4. SettingTypes' /\ Distinct(settingOps')
  <2>1. shuffled' \in [Replica -> BOOLEAN]
    <3>1. (shuffled[d] \/ \E q \in settingMerged[d] : q.id = o.id /\ q.hlc > o.hlc) \in BOOLEAN
      OBVIOUS
    <3> QED
      BY <1>1, <3>1 DEF SettingInv, SettingTypes
  <2>2. /\ settingMerged' \in [Replica -> SUBSET SettingOp]
        /\ \A e \in Replica : settingMerged'[e] \subseteq settingOps
    BY <1>1, <1>2 DEF SettingInv, SettingTypes
  <2>3. setting' \in [Replica -> SettingRow]
    BY <1>3 DEF SettingInv, SettingTypes
  <2> QED
    BY <1>1, <2>1, <2>2, <2>3 DEF SettingInv, SettingTypes
<1>5. ASSUME NEW e \in Replica
      PROVE  /\ RowHasOp(setting'[e], settingMerged'[e])
             /\ UpsertsKept(setting'[e], settingMerged'[e])
             /\ ~shuffled'[e] => NewestKept(setting'[e], settingMerged'[e])
  <2>1. CASE e # d
    <3>1. /\ setting'[e] = setting[e] /\ settingMerged'[e] = settingMerged[e]
          /\ ~shuffled'[e] => ~shuffled[e]
      BY <1>1, <1>3, <2>1 DEF SettingInv, SettingTypes
    <3> QED
      BY <3>1 DEF SettingInv
  <2>2. CASE e = d
    <3>1. /\ settingMerged'[d] = settingMerged[d] \cup {o}
          /\ ~shuffled'[d] => ~shuffled[d]
          /\ ~shuffled'[d] => ~\E q \in settingMerged[d] : q.id = o.id /\ q.hlc > o.hlc
      BY <1>1 DEF SettingInv, SettingTypes
    <3>2. /\ RowHasOp(setting'[d], settingMerged[d] \cup {o})
          /\ UpsertsKept(setting'[d], settingMerged[d] \cup {o})
          /\ NewestKept(setting[d], settingMerged[d]) =>
               NewestKept(setting'[d], settingMerged[d] \cup {o})
               \/ \E q \in settingMerged[d] : q.id = o.id /\ q.hlc > o.hlc
      BY <1>3 DEF SettingInv, SettingTypes
    <3> QED
      BY <1>2, <2>2, <3>1, <3>2
  <2> QED
    BY <2>1, <2>2
<1> QED
  BY <1>1, <1>4, <1>5 DEF SettingInv

(***************************************************************************)
(* The inductive invariant of a setting.                                   *)
(***************************************************************************)
THEOREM SettingInvariant == SettingSpec => []SettingInv
<1>1. SettingInit => SettingInv
  BY SettingInitInv
<1>2. SettingInv /\ [SettingNext]_settingVars => SettingInv'
  <2> SUFFICES ASSUME SettingInv, [SettingNext]_settingVars PROVE SettingInv'
    OBVIOUS
  <2>1. CASE UNCHANGED settingVars
    BY <2>1 DEF settingVars, SettingInv, SettingTypes
  <2>2. CASE SettingNext
    BY <2>2, WriteStep, MergeSettingStep DEF SettingNext
  <2> QED
    BY <2>1, <2>2
<1> QED
  BY <1>1, <1>2, PTL DEF SettingSpec

(***************************************************************************)
(* merge_setting is last-write-wins: for any number of writers, ids and    *)
(* values, in any order of upserts, and with deletes while they come in    *)
(* order.                                                                  *)
(***************************************************************************)
THEOREM SettingsConverge == SettingSpec => []SettingIsNewest
<1>1. SettingInv => SettingIsNewest
  <2> DEFINE Ops(d, i) == {o \in settingMerged[d] : o.id = i}
  <2> SUFFICES ASSUME SettingInv, NEW d \in Replica, NEW i \in SettingId,
                      ~shuffled[d] \/ \A o \in Ops(d, i) : o.value # Unset,
                      NEW o \in Newest(Ops(d, i))
               PROVE  o.value = (IF setting[d].id = i THEN setting[d].value ELSE Unset)
    BY DEF SettingIsNewest
  <2>1. /\ o \in settingMerged[d] /\ o.id = i
        /\ \A q \in settingMerged[d] : q.id = o.id => q.hlc <= o.hlc
    BY DEF Newest
  <2>2. settingMerged[d] \subseteq settingOps \cap SettingOp
    BY DEF SettingInv, SettingTypes
  <2>3. CASE ~shuffled[d]
    <3>1. /\ o.value = Unset => setting[d].id # i
          /\ o.value # Unset => setting[d] = [id |-> i, value |-> o.value, stamp |-> o.hlc]
      BY <2>1, <2>3 DEF SettingInv, NewestKept
    <3> QED
      BY <3>1
  <2>4. CASE \A p \in Ops(d, i) : p.value # Unset
    <3>1. setting[d].id = i /\ o.hlc <= setting[d].stamp
      BY <2>1, <2>4 DEF SettingInv, UpsertsKept
    <3>2. PICK p \in settingMerged[d] :
            p.id = i /\ p.value = setting[d].value /\ p.hlc = setting[d].stamp
      BY <3>1, SettingAssumption DEF SettingInv, RowHasOp
    <3>3. p.hlc <= o.hlc /\ p.hlc \in Nat /\ o.hlc \in Nat
      BY <2>1, <2>2, <3>2, SyncEntityAssumption DEF SettingOp, Hlc
    <3>4. p = o
      BY <2>1, <2>2, <3>1, <3>2, <3>3 DEF SettingInv, Distinct
    <3> QED
      BY <3>1, <3>2, <3>4
  <2> QED
    BY <2>3, <2>4
<1> QED
  BY <1>1, SettingInvariant, PTL

-----------------------------------------------------------------------------
(* Documents: the inductive invariant, in parts. *)

DocRow == [state : {"none", "live", "deleted"}, text : Text \cup {NoText},
           stamp : 0 .. MaxHlc, by : Reader \cup Editor \cup {"none"}]

DocTypes ==
  /\ docOps \subseteq DocOp /\ docMerged \in [Reader -> SUBSET DocOp]
  /\ doc \in [Reader -> DocRow] /\ conflicts \in [Reader -> Seq(Conflict)]
  /\ sweep \in [Reader -> [running : BOOLEAN, side : {"local", "remote"}, rows : SUBSET Nat]]
  /\ torn \in [Reader -> SUBSET [op : DocOp, lost : Text \cup {NoText}]]
  /\ behind \in BOOLEAN /\ cut \in BOOLEAN /\ resolutions \in Nat

\* The ops that a device has merged or begun to merge, and those only begun.
KnownOps(d) == docMerged[d] \cup {t.op : t \in torn[d]}
Pending(d) == KnownOps(d) \ docMerged[d]

\* Ops are known from somewhere; a reader's own are merged; one op is a create.
OpsAreEmitted ==
  /\ \A d \in Reader : KnownOps(d) \subseteq docOps /\ \A o \in Pending(d) : o.dev # d
  /\ \A o \in docOps : o.dev \in Reader => o \in docMerged[o.dev]
  /\ \A o, q \in docOps : o.kind = "create" /\ q.kind = "create" => o = q
  /\ docOps # {} => \E o \in docOps : o.kind = "create"

\* Timestamps are taken once, the first one by the create.
OpsAreOrdered ==
  ~behind => \A o, q \in docOps : /\ o.hlc = q.hlc => o = q
                                  /\ o.kind = "create" /\ q # o => o.hlc < q.hlc

\* A note is there from its create on.
NotesAreCreated ==
  \A d \in Reader :
    IF doc[d].state = "none"
    THEN KnownOps(d) = {} /\ conflicts[d] = << >> /\ ~sweep[d].running
    ELSE doc[d].text \in Text /\ \E o \in docMerged[d] : o.kind = "create"

\* A stored conflict is with an op that was merged.
RowsHaveOps ==
  \A d \in Reader : \A c \in Rows(d) : \E o \in docMerged[d] :
    o.kind # "delete" /\ o.hlc = c.stamp /\ o.text = c.remote

\* Every conflict that a resolve_all will mark has been decided, came later, or
\* is still to be applied.
SweepCovers ==
  \A d \in Reader :
    /\ sweep[d].rows \subseteq DOMAIN conflicts[d]
    /\ ~sweep[d].running => sweep[d].rows = {}
    /\ sweep[d].running => \A i \in DOMAIN conflicts[d] :
         \/ conflicts[d][i].resolved \/ conflicts[d][i].decided \/ conflicts[d][i].raced
         \/ \E j \in sweep[d].rows : conflicts[d][j].stamp = conflicts[d][i].stamp

\* The op with the timestamp of the row, and the text of the row.
Stamped(d) == {o \in KnownOps(d) : o.kind # "delete" /\ o.hlc = doc[d].stamp}
Steady(d) == Live(d) /\ ~behind /\ ~cut

StampIsNewest(d) ==
  /\ \A o \in docMerged[d] : o.kind # "delete" =>
       o.hlc <= doc[d].stamp \/ (doc[d].stamp = 0 /\ o.kind = "create")
  /\ doc[d].stamp # 0 => \E s \in Stamped(d) : s.dev = doc[d].by

TextIsKnown(d) ==
  \/ doc[d].stamp = 0 /\ \E o \in docMerged[d] : o.kind = "create" /\ o.text = doc[d].text
  \/ \E s \in Stamped(d) : s.text = doc[d].text
  \/ \E x \in Pending(d) : x.kind # "delete" /\ x.hlc > doc[d].stamp /\ x.text = doc[d].text

\* A text that is not the note's has left a trace: it is superseded, in a
\* conflict, lost by a merge that died, or about to be merged again.
Overtaken(d, text) ==
  \E p, q \in KnownOps(d) :
    p.text = text /\ p.hlc < q.hlc /\ q.kind = "update" /\ q.dev \in {p.dev, d}
Traced(d, text) ==
  \/ doc[d].text = text \/ Overtaken(d, text)
  \/ \E c \in Rows(d) : text \in {c.local, c.remote}
  \/ \E t \in torn[d] : t.lost = text
  \/ \E x \in Pending(d) : x.text = text /\ x.hlc # doc[d].stamp
TextsAreTraced(d) ==
  \A o \in docMerged[d] \cup Stamped(d) : o.kind = "update" => Traced(d, o.text)

RowFollowsOps ==
  \A d \in Reader : Steady(d) => StampIsNewest(d) /\ TextIsKnown(d) /\ TextsAreTraced(d)

DocInv ==
  /\ DocTypes /\ OpsAreEmitted /\ OpsAreOrdered /\ NotesAreCreated /\ RowsHaveOps
  /\ SweepCovers /\ ResolvedWasDecided /\ RowFollowsOps


\* Initially there is no note.
LEMMA DocInitInv == DocInit => DocInv
<1> SUFFICES ASSUME DocInit PROVE DocInv
  OBVIOUS
<1>1. \A d \in Reader : /\ KnownOps(d) = {} /\ Rows(d) = {} /\ doc[d].state = "none"
                        /\ conflicts[d] = << >> /\ sweep[d].rows = {} /\ ~sweep[d].running
  BY DEF DocInit, KnownOps, Rows, NoDoc, NoSweep
<1>2. DocTypes
  <2>1. 0 \in 0 .. MaxHlc
    BY SyncEntityAssumption
  <2>2. NoDoc \in DocRow
    BY <2>1 DEF NoDoc, DocRow
  <2>3. NoSweep \in [running : BOOLEAN, side : {"local", "remote"}, rows : SUBSET Nat]
    BY DEF NoSweep
  <2>4. << >> \in Seq(Conflict)
    OBVIOUS
  <2> QED
    BY <2>2, <2>3, <2>4 DEF DocInit, DocTypes
<1>3. OpsAreEmitted
  BY <1>1 DEF DocInit, OpsAreEmitted, Pending
<1>4. OpsAreOrdered
  BY DEF DocInit, OpsAreOrdered
<1>5. NotesAreCreated /\ RowsHaveOps /\ SweepCovers /\ ResolvedWasDecided
  BY <1>1 DEF NotesAreCreated, RowsHaveOps, SweepCovers, ResolvedWasDecided
<1>6. RowFollowsOps
  BY <1>1 DEF RowFollowsOps, Steady, Live
<1> QED
  BY <1>2, <1>3, <1>4, <1>5, <1>6 DEF DocInv

\* An op has a timestamp, and a text if it is not a delete.
LEMMA OpHas ==
  ASSUME NEW o \in DocOp
  PROVE  /\ o.hlc \in 1 .. MaxHlc /\ o.hlc \in Nat /\ o.hlc # 0
         /\ o.kind # "delete" => o.text \in Text
         /\ o.text \in Text \cup {NoText} /\ o.dev \in Reader \cup Editor
         /\ o.kind \in {"create", "update", "delete"}
BY SyncEntityAssumption DEF DocOp, Hlc

\* What the row of a note is.
LEMMA RowHas ==
  ASSUME DocTypes, NEW d \in Reader
  PROVE  /\ doc[d] \in DocRow /\ doc[d].stamp \in 0 .. MaxHlc /\ doc[d].stamp \in Nat
         /\ doc[d].state \in {"none", "live", "deleted"}
         /\ doc[d] = [state |-> doc[d].state, text |-> doc[d].text,
                      stamp |-> doc[d].stamp, by |-> doc[d].by]
         /\ KnownOps(d) \subseteq DocOp /\ docMerged[d] \subseteq KnownOps(d)
         /\ Rows(d) \subseteq Conflict
BY SyncEntityAssumption DEF DocTypes, DocRow, KnownOps, Rows

(***************************************************************************)
(* Edits elsewhere.                                                        *)
(***************************************************************************)

\* An edit changes what no reader has merged yet.
LEMMA EditStep ==
  ASSUME DocInv, NEW o \in DocOp, Edit(o)
  PROVE  DocInv'
<1>1. /\ o.dev \in Editor /\ o.dev \notin Reader /\ docOps' = docOps \cup {o}
      /\ o.kind = "create" <=> docOps = {}
      /\ \A q \in docOps : q.hlc # o.hlc /\ (q.dev = o.dev \/ q.kind = "create" => q.hlc < o.hlc)
      /\ UNCHANGED <<doc, conflicts, sweep, docMerged, torn, behind, cut, resolutions>>
  BY DocumentAssumption DEF Edit
<1>2. DocTypes'
  BY <1>1 DEF DocInv, DocTypes
<1>3. \A d \in Reader : /\ KnownOps(d)' = KnownOps(d) /\ Pending(d)' = Pending(d) /\ Rows(d)' = Rows(d)
                        /\ Stamped(d)' = Stamped(d)
  BY <1>1 DEF KnownOps, Pending, Rows, Stamped
<1>4. OpsAreEmitted'
  <2>1. \A d \in Reader : KnownOps(d)' \subseteq docOps' /\ \A q \in Pending(d)' : q.dev # d
    BY <1>1, <1>3 DEF DocInv, OpsAreEmitted
  <2>2. \A q \in docOps' : q.dev \in Reader => q \in docMerged[q.dev]
    BY <1>1 DEF DocInv, OpsAreEmitted
  <2>3. \A p, q \in docOps' : p.kind = "create" /\ q.kind = "create" => p = q
    BY <1>1 DEF DocInv, OpsAreEmitted
  <2>4. \E q \in docOps' : q.kind = "create"
    BY <1>1 DEF DocInv, OpsAreEmitted
  <2> QED
    BY <1>1, <2>1, <2>2, <2>3, <2>4 DEF OpsAreEmitted
<1>5. OpsAreOrdered'
  <2> SUFFICES ASSUME ~behind, NEW p \in docOps', NEW q \in docOps'
               PROVE  /\ p.hlc = q.hlc => p = q
                      /\ p.kind = "create" /\ q # p => p.hlc < q.hlc
    BY <1>1 DEF OpsAreOrdered
  <2>1. CASE p \in docOps /\ q \in docOps
    BY <2>1 DEF DocInv, OpsAreOrdered
  <2>2. CASE p = o \/ q = o
    BY <1>1, <2>2
  <2> QED
    BY <1>1, <2>1, <2>2
<1>6. NotesAreCreated' /\ RowsHaveOps' /\ SweepCovers' /\ ResolvedWasDecided'
  BY <1>1, <1>3 DEF DocInv, NotesAreCreated, RowsHaveOps, SweepCovers, ResolvedWasDecided
<1>7. RowFollowsOps'
  BY <1>1, <1>3 DEF DocInv, RowFollowsOps, Steady, Live, StampIsNewest, TextIsKnown,
     TextsAreTraced, Traced, Overtaken
<1> QED
  BY <1>2, <1>4, <1>5, <1>6, <1>7 DEF DocInv

(***************************************************************************)
(* The steps of one reader d: the parts about the others stay.             *)
(***************************************************************************)

\* What has to be shown of a step of d that leaves the other readers alone.
LEMMA OneReader ==
  ASSUME DocInv, NEW d \in Reader, DocTypes', OpsAreEmitted', OpsAreOrdered',
         behind => behind', cut => cut',
         \A e \in Reader \ {d} : /\ doc'[e] = doc[e] /\ conflicts'[e] = conflicts[e]
                                 /\ sweep'[e] = sweep[e] /\ docMerged'[e] = docMerged[e]
                                 /\ torn'[e] = torn[e],
         IF doc'[d].state = "none"
         THEN KnownOps(d)' = {} /\ conflicts'[d] = << >> /\ ~sweep'[d].running
         ELSE doc'[d].text \in Text /\ \E o \in docMerged'[d] : o.kind = "create",
         \A c \in Rows(d)' : \E o \in docMerged'[d] :
            o.kind # "delete" /\ o.hlc = c.stamp /\ o.text = c.remote,
         sweep'[d].rows \subseteq DOMAIN conflicts'[d],
         ~sweep'[d].running => sweep'[d].rows = {},
         sweep'[d].running => \A i \in DOMAIN conflicts'[d] :
            \/ conflicts'[d][i].resolved \/ conflicts'[d][i].decided \/ conflicts'[d][i].raced
            \/ \E j \in sweep'[d].rows : conflicts'[d][j].stamp = conflicts'[d][i].stamp,
         \A c \in Rows(d)' : c.resolved => c.decided \/ c.raced,
         Steady(d)' => StampIsNewest(d)' /\ TextIsKnown(d)' /\ TextsAreTraced(d)'
  PROVE  DocInv'
<1>1. \A e \in Reader \ {d} : /\ KnownOps(e)' = KnownOps(e) /\ Pending(e)' = Pending(e)
                              /\ Rows(e)' = Rows(e) /\ Stamped(e)' = Stamped(e)
  BY DEF KnownOps, Pending, Rows, Stamped
<1>2. NotesAreCreated'
  BY <1>1 DEF DocInv, NotesAreCreated
<1>3. RowsHaveOps'
  BY <1>1 DEF DocInv, RowsHaveOps
<1>4. SweepCovers' /\ ResolvedWasDecided'
  BY <1>1 DEF DocInv, SweepCovers, ResolvedWasDecided
<1>5. RowFollowsOps'
  <2> SUFFICES ASSUME NEW e \in Reader, Steady(e)'
               PROVE  StampIsNewest(e)' /\ TextIsKnown(e)' /\ TextsAreTraced(e)'
    BY DEF RowFollowsOps
  <2>1. CASE e = d
    BY <2>1
  <2>2. CASE e # d
    <3>1. Steady(e)
      BY <2>2 DEF Steady, Live
    <3>2. StampIsNewest(e) /\ TextIsKnown(e) /\ TextsAreTraced(e)
      BY <3>1 DEF DocInv, RowFollowsOps
    <3>3. /\ doc'[e] = doc[e] /\ docMerged'[e] = docMerged[e] /\ torn'[e] = torn[e]
          /\ KnownOps(e)' = KnownOps(e) /\ Pending(e)' = Pending(e)
          /\ Rows(e)' = Rows(e) /\ Stamped(e)' = Stamped(e)
      BY <1>1, <2>2
    <3>4. StampIsNewest(e)' /\ TextIsKnown(e)'
      BY <3>2, <3>3 DEF StampIsNewest, TextIsKnown
    <3>5. \A x : Traced(e, x)' <=> Traced(e, x)
      BY <3>3 DEF Traced, Overtaken
    <3> QED
      BY <3>2, <3>3, <3>4, <3>5 DEF TextsAreTraced
  <2> QED
    BY <2>1, <2>2
<1> QED
  BY <1>2, <1>3, <1>4, <1>5 DEF DocInv


(***************************************************************************)
(* Pulled ops.                                                             *)
(***************************************************************************)

\* What a merge leaves of the conflicts: a new row is added at the end, unless
\* there is one for the same op.
LEMMA StoredRows ==
  ASSUME DocInv, NEW d \in Reader, NEW o \in docOps, o.kind # "delete", Live(d),
         IF Conflicting(d, o) THEN StoreConflict(d, o) ELSE UNCHANGED conflicts
  PROVE  /\ conflicts' \in [Reader -> Seq(Conflict)]
         /\ \A e \in Reader \ {d} : conflicts'[e] = conflicts[e]
         /\ DOMAIN conflicts[d] \subseteq DOMAIN conflicts'[d]
         /\ \A i \in DOMAIN conflicts[d] : conflicts'[d][i] = conflicts[d][i]
         /\ \A i \in DOMAIN conflicts'[d] :
              \/ i \in DOMAIN conflicts[d]
              \/ /\ conflicts'[d][i].local = doc[d].text /\ conflicts'[d][i].remote = o.text
                 /\ conflicts'[d][i].stamp = o.hlc /\ ~conflicts'[d][i].resolved
                 /\ sweep[d].running => conflicts'[d][i].raced
         /\ Conflicting(d, o) => \E i \in DOMAIN conflicts'[d] :
              /\ conflicts'[d][i].stamp = o.hlc
              /\ i \notin DOMAIN conflicts[d] =>
                   conflicts'[d][i].local = doc[d].text /\ conflicts'[d][i].remote = o.text
<1>1. /\ conflicts \in [Reader -> Seq(Conflict)] /\ conflicts[d] \in Seq(Conflict)
      /\ sweep[d].running \in BOOLEAN /\ o \in DocOp /\ doc[d].text \in Text
  BY DEF DocInv, DocTypes, NotesAreCreated, Live
<1>2. o.text \in Text /\ o.hlc \in Hlc
  BY <1>1 DEF DocOp
<1> DEFINE row == [local |-> doc[d].text, remote |-> o.text, stamp |-> o.hlc,
                   resolved |-> FALSE, decided |-> FALSE, raced |-> sweep[d].running]
<1>3. row \in Conflict
  BY <1>1, <1>2 DEF Conflict
<1>4. CASE UNCHANGED conflicts /\ ~Conflicting(d, o)
  BY <1>1, <1>4
<1>5. CASE Conflicting(d, o) /\ \E c \in Rows(d) : c.stamp = o.hlc
  <2>1. conflicts' = conflicts
    <3>1. conflicts' = [conflicts EXCEPT ![d] = conflicts[d]]
      BY <1>5 DEF StoreConflict
    <3> QED
      BY <1>1, <3>1
  <2> QED
    BY <1>1, <1>5, <2>1 DEF Rows
<1>6. CASE Conflicting(d, o) /\ ~\E c \in Rows(d) : c.stamp = o.hlc
  <2>1. conflicts' = [conflicts EXCEPT ![d] = Append(conflicts[d], row)]
    BY <1>6 DEF StoreConflict
  <2>2. /\ row.local = doc[d].text /\ row.remote = o.text /\ row.stamp = o.hlc
        /\ ~row.resolved /\ row.raced = sweep[d].running
    OBVIOUS
  <2> HIDE DEF row
  <2>3. /\ Append(conflicts[d], row) \in Seq(Conflict)
        /\ DOMAIN conflicts[d] = 1 .. Len(conflicts[d]) /\ Len(conflicts[d]) \in Nat
        /\ DOMAIN Append(conflicts[d], row) = 1 .. Len(conflicts[d]) + 1
        /\ \A i \in 1 .. Len(conflicts[d]) : Append(conflicts[d], row)[i] = conflicts[d][i]
        /\ Append(conflicts[d], row)[Len(conflicts[d]) + 1] = row
    BY <1>1, <1>3
  <2>4. conflicts'[d] = Append(conflicts[d], row) /\ conflicts' \in [Reader -> Seq(Conflict)]
    BY <1>1, <2>1, <2>3
  <2>5. \A i \in DOMAIN conflicts'[d] : i \in DOMAIN conflicts[d] \/ i = Len(conflicts[d]) + 1
    BY <2>3, <2>4
  <2>6. Len(conflicts[d]) + 1 \in DOMAIN conflicts'[d] /\ conflicts'[d][Len(conflicts[d]) + 1] = row
    BY <2>3, <2>4
  <2>7. \A e \in Reader \ {d} : conflicts'[e] = conflicts[e]
    BY <1>1, <2>1
  <2>8. \A i \in DOMAIN conflicts[d] : i \in DOMAIN conflicts'[d] /\ conflicts'[d][i] = conflicts[d][i]
    BY <2>3, <2>4
  <2> QED
    BY <2>2, <2>4, <2>5, <2>6, <2>7, <2>8
<1> QED
  BY <1>4, <1>5, <1>6

\* The text of an op that is overwritten by a newer one leaves a trace, if its
\* conflict is stored or was lost by a merge that died.
LEMMA Overwritten ==
  ASSUME DocInv, NEW d \in Reader, Steady(d), NEW o \in docOps,
         o.kind # "delete", o.hlc > doc[d].stamp, docOps' = docOps,
         o \in KnownOps(d)', KnownOps(d) \subseteq KnownOps(d)', Pending(d) \ {o} \subseteq Pending(d)',
         Rows(d) \subseteq Rows(d)', torn[d] \subseteq torn'[d],
         doc'[d].text = o.text, doc'[d].stamp \in {doc[d].stamp, o.hlc},
         Conflicting(d, o) => \/ \E c \in Rows(d)' : doc[d].text \in {c.local, c.remote}
                              \/ \E t \in torn'[d] : t.lost = doc[d].text,
         NEW q \in docMerged[d] \cup Stamped(d), q.kind = "update"
  PROVE  Traced(d, q.text)'
<1> DEFINE T == q.text
<1>1. /\ StampIsNewest(d) /\ TextIsKnown(d) /\ Traced(d, T) /\ ~behind
      /\ KnownOps(d) \subseteq docOps /\ docMerged[d] \subseteq KnownOps(d) /\ docOps \subseteq DocOp
  BY DEF DocInv, RowFollowsOps, TextsAreTraced, Steady, OpsAreEmitted, DocTypes, KnownOps
<1>2. /\ o.hlc \in Nat /\ q.hlc \in Nat /\ q.hlc # 0 /\ doc[d].stamp \in Nat /\ q \in docOps
      /\ q \in KnownOps(d)
  BY <1>1, OpHas, RowHas DEF DocInv, Stamped
<1>3. \A p, s \in docOps : /\ p.hlc = s.hlc => p = s
                           /\ p.kind = "create" /\ s # p => p.hlc < s.hlc
  BY <1>1 DEF DocInv, OpsAreOrdered
<1>4. \A x \in Pending(d) : x.text = T /\ x.hlc # doc[d].stamp =>
        doc'[d].text = T \/ \E y \in Pending(d)' : y.text = T /\ y.hlc # doc'[d].stamp
  <2> SUFFICES ASSUME NEW x \in Pending(d), x.text = T, x.hlc # doc[d].stamp, x # o
               PROVE  x \in Pending(d)' /\ x.hlc # doc'[d].stamp
    OBVIOUS
  <2>1. x \in docOps
    BY <1>1 DEF Pending
  <2> QED
    BY <1>3, <2>1
<1>5. CASE doc[d].text = T /\ o.text # T /\ ~Conflicting(d, o)
  <2>1. doc[d].stamp = 0 \/ doc[d].by = o.dev
    BY <1>5 DEF Conflicting
  <2>2. doc[d].stamp # 0
    BY <1>1, <1>2 DEF StampIsNewest, Stamped
  <2>3. PICK s \in Stamped(d) : s.dev = o.dev
    BY <1>1, <2>1, <2>2 DEF StampIsNewest
  <2>4. s \in KnownOps(d) /\ s \in docOps /\ s.hlc = doc[d].stamp
    BY <1>1, <2>3 DEF Stamped
  <2>5. o.kind = "update"
    <3>1. o.kind \in {"create", "update", "delete"} /\ s.hlc \in Nat
      BY <1>1, <2>4, OpHas
    <3>2. o.kind # "create"
      BY <1>2, <1>3, <2>4, <3>1
    <3> QED
      BY <3>1, <3>2
  <2>6. CASE s.text = T
    <3>1. s \in KnownOps(d)' /\ o \in KnownOps(d)' /\ s.hlc < o.hlc
      BY <1>2, <2>4
    <3>2. Overtaken(d, T)'
      BY <2>3, <2>5, <2>6, <3>1 DEF Overtaken
    <3> QED
      BY <3>2 DEF Traced
  <2>7. CASE s.text # T
    <3>1. PICK x \in Pending(d) : x.hlc > doc[d].stamp /\ x.text = T
      BY <1>1, <1>3, <1>5, <2>2, <2>4, <2>7 DEF TextIsKnown, Stamped
    <3>2. x.hlc # doc[d].stamp
      BY <1>1, <1>2, <3>1, OpHas DEF Pending
    <3> QED
      BY <1>4, <3>1, <3>2 DEF Traced
  <2> QED
    BY <2>6, <2>7
<1>6. CASE doc[d].text = T /\ Conflicting(d, o)
  BY <1>6 DEF Traced
<1>7. CASE doc'[d].text = T
  BY <1>7 DEF Traced
<1>8. CASE Overtaken(d, T)
  <2>1. Overtaken(d, T)'
    BY <1>8 DEF Overtaken
  <2> QED
    BY <2>1 DEF Traced
<1>9. CASE \/ \E c \in Rows(d) : T \in {c.local, c.remote}
           \/ \E t \in torn[d] : t.lost = T
  BY <1>9 DEF Traced
<1>10. CASE \E x \in Pending(d) : x.text = T /\ x.hlc # doc[d].stamp
  BY <1>4, <1>10 DEF Traced
<1> QED
  BY <1>1, <1>5, <1>6, <1>7, <1>8, <1>9, <1>10 DEF Traced

\* What a merge that was not interrupted does to the ops, and what has to be
\* shown of it.
LEMMA MergedStep ==
  ASSUME DocInv, NEW d \in Reader, NEW o \in docOps, o.dev # d,
         docMerged' = [docMerged EXCEPT ![d] = @ \cup {o}],
         UNCHANGED <<docOps, sweep, torn, behind, cut, resolutions>>,
         doc' \in [Reader -> DocRow], \A e \in Reader \ {d} : doc'[e] = doc[e],
         doc'[d].state # "none", doc'[d].text \in Text,
         \E p \in docMerged[d] \cup {o} : p.kind = "create",
         conflicts' \in [Reader -> Seq(Conflict)],
         \A e \in Reader \ {d} : conflicts'[e] = conflicts[e],
         DOMAIN conflicts[d] \subseteq DOMAIN conflicts'[d],
         \A i \in DOMAIN conflicts[d] : conflicts'[d][i] = conflicts[d][i],
         \A i \in DOMAIN conflicts'[d] :
           \/ i \in DOMAIN conflicts[d]
           \/ /\ conflicts'[d][i].remote = o.text /\ o.kind # "delete"
              /\ conflicts'[d][i].stamp = o.hlc /\ ~conflicts'[d][i].resolved
              /\ sweep[d].running => conflicts'[d][i].raced,
         Steady(d)' => StampIsNewest(d)' /\ TextIsKnown(d)' /\ TextsAreTraced(d)'
  PROVE  DocInv'
<1>1. /\ docMerged \in [Reader -> SUBSET DocOp] /\ docMerged'[d] = docMerged[d] \cup {o}
      /\ \A e \in Reader \ {d} : docMerged'[e] = docMerged[e]
  BY DEF DocInv, DocTypes
<1>2. DocTypes'
  <2>1. docMerged' \in [Reader -> SUBSET DocOp]
    BY <1>1 DEF DocInv, DocTypes
  <2> QED
    BY <2>1 DEF DocInv, DocTypes
<1>3. /\ KnownOps(d)' = KnownOps(d) \cup {o} /\ Pending(d)' \subseteq Pending(d)
      /\ \A e \in Reader \ {d} : KnownOps(e)' = KnownOps(e) /\ Pending(e)' = Pending(e)
  BY <1>1 DEF KnownOps, Pending
<1>4. OpsAreEmitted'
  BY <1>1, <1>3 DEF DocInv, OpsAreEmitted
<1>5. OpsAreOrdered'
  BY DEF DocInv, OpsAreOrdered
<1>6. \A c \in Rows(d)' : \E p \in docMerged'[d] : p.kind # "delete" /\ p.hlc = c.stamp /\ p.text = c.remote
  <2> SUFFICES ASSUME NEW i \in DOMAIN conflicts'[d]
               PROVE  \E p \in docMerged'[d] : /\ p.kind # "delete" /\ p.hlc = conflicts'[d][i].stamp
                                               /\ p.text = conflicts'[d][i].remote
    BY DEF Rows
  <2>1. CASE i \in DOMAIN conflicts[d]
    <3>1. conflicts[d][i] \in Rows(d) /\ conflicts'[d][i] = conflicts[d][i]
      BY <2>1 DEF Rows
    <3>2. PICK p \in docMerged[d] : /\ p.kind # "delete" /\ p.hlc = conflicts[d][i].stamp
                                    /\ p.text = conflicts[d][i].remote
      BY <3>1 DEF DocInv, RowsHaveOps
    <3> QED
      BY <1>1, <3>1, <3>2
  <2>2. CASE i \notin DOMAIN conflicts[d]
    BY <1>1, <2>2
  <2> QED
    BY <2>1, <2>2
<1>7. \A c \in Rows(d)' : c.resolved => c.decided \/ c.raced
  BY DEF DocInv, ResolvedWasDecided, Rows
<1>8. /\ sweep'[d].rows \subseteq DOMAIN conflicts'[d] /\ (~sweep'[d].running => sweep'[d].rows = {})
      /\ sweep'[d].running => \A i \in DOMAIN conflicts'[d] :
           \/ conflicts'[d][i].resolved \/ conflicts'[d][i].decided \/ conflicts'[d][i].raced
           \/ \E j \in sweep'[d].rows : conflicts'[d][j].stamp = conflicts'[d][i].stamp
  <2>1. /\ sweep[d].rows \subseteq DOMAIN conflicts[d] /\ (~sweep[d].running => sweep[d].rows = {})
        /\ sweep[d].running => \A i \in DOMAIN conflicts[d] :
             \/ conflicts[d][i].resolved \/ conflicts[d][i].decided \/ conflicts[d][i].raced
             \/ \E j \in sweep[d].rows : conflicts[d][j].stamp = conflicts[d][i].stamp
    BY DEF DocInv, SweepCovers
  <2>2. sweep' = sweep
    OBVIOUS
  <2>3. ASSUME sweep[d].running, NEW i \in DOMAIN conflicts'[d]
        PROVE  \/ conflicts'[d][i].resolved \/ conflicts'[d][i].decided \/ conflicts'[d][i].raced
               \/ \E j \in sweep[d].rows : conflicts'[d][j].stamp = conflicts'[d][i].stamp
    <3>1. CASE i \in DOMAIN conflicts[d]
      <4>1. /\ conflicts'[d][i] = conflicts[d][i]
            /\ \A j \in sweep[d].rows : conflicts'[d][j] = conflicts[d][j]
        BY <2>1, <3>1
      <4> QED
        BY <2>1, <2>3, <3>1, <4>1
    <3>2. CASE i \notin DOMAIN conflicts[d]
      BY <2>3, <3>2
    <3> QED
      BY <3>1, <3>2
  <2> QED
    BY <2>1, <2>2, <2>3
<1>9. \E p \in docMerged'[d] : p.kind = "create"
  BY <1>1
<1>10. UNCHANGED <<sweep, torn, behind, cut>>
  OBVIOUS
<1> QED
  BY <1>1, <1>2, <1>4, <1>5, <1>6, <1>7, <1>8, <1>9, <1>10, OneReader

\* A merge: of the create, of a newer op, of an older one, and on a deleted note.
LEMMA MergeStep ==
  ASSUME DocInv, NEW d \in Reader, NEW o \in docOps, MergeDoc(d, o)
  PROVE  DocInv'
<1>1. /\ o.dev # d /\ docMerged' = [docMerged EXCEPT ![d] = @ \cup {o}]
      /\ UNCHANGED <<docOps, sweep, torn, behind, cut, resolutions>>
      /\ o \in DocOp /\ docMerged'[d] = docMerged[d] \cup {o} /\ docMerged[d] \subseteq docOps
      /\ docOps \subseteq DocOp
  BY DEF MergeDoc, DocInv, DocTypes, OpsAreEmitted, KnownOps
<1>2. /\ doc \in [Reader -> DocRow] /\ doc[d] \in DocRow /\ conflicts \in [Reader -> Seq(Conflict)]
      /\ doc[d].stamp \in Nat /\ o.hlc \in Nat /\ o.hlc \in 1 .. MaxHlc
      /\ KnownOps(d) \subseteq docOps
  BY <1>1, OpHas, RowHas DEF DocInv, DocTypes, OpsAreEmitted
<1>3. KnownOps(d)' = KnownOps(d) \cup {o} /\ Pending(d)' = Pending(d) \ {o}
  BY <1>1 DEF KnownOps, Pending
<1>4. CASE MergeNew(d, o)
  <2>1. /\ o.kind = "create" /\ doc[d].state = "none" /\ conflicts' = conflicts
        /\ doc' = [doc EXCEPT ![d] = [state |-> "live", text |-> o.text, stamp |-> 0, by |-> "none"]]
    BY <1>4 DEF MergeNew
  <2>2. o.text \in Text /\ 0 \in 0 .. MaxHlc
    BY <1>1, <2>1, OpHas, SyncEntityAssumption
  <2>3. [state |-> "live", text |-> o.text, stamp |-> 0, by |-> "none"] \in DocRow
    BY <2>2 DEF DocRow
  <2>4. /\ doc' \in [Reader -> DocRow] /\ \A e \in Reader \ {d} : doc'[e] = doc[e]
        /\ doc'[d].text = o.text /\ doc'[d].stamp = 0 /\ doc'[d].state = "live"
    BY <1>2, <2>1, <2>3
  <2>5. KnownOps(d) = {} /\ docMerged'[d] = {o} /\ KnownOps(d)' = {o}
    BY <1>1, <1>3, <2>1 DEF DocInv, NotesAreCreated, KnownOps
  <2>6. StampIsNewest(d)' /\ TextIsKnown(d)'
    BY <2>1, <2>4, <2>5 DEF StampIsNewest, TextIsKnown
  <2>7. TextsAreTraced(d)'
    BY <2>1, <2>5 DEF TextsAreTraced, Stamped
  <2>8. doc'[d].state # "none" /\ doc'[d].text \in Text /\ o \in docOps
    BY <2>2, <2>4
  <2>9. /\ \E p \in docMerged[d] \cup {o} : p.kind = "create"
        /\ Steady(d)' => StampIsNewest(d)' /\ TextIsKnown(d)' /\ TextsAreTraced(d)'
    BY <2>1, <2>6, <2>7
  <2>10. /\ conflicts' \in [Reader -> Seq(Conflict)]
         /\ \A e \in Reader \ {d} : conflicts'[e] = conflicts[e]
         /\ DOMAIN conflicts[d] \subseteq DOMAIN conflicts'[d]
         /\ \A i \in DOMAIN conflicts[d] : conflicts'[d][i] = conflicts[d][i]
         /\ \A i \in DOMAIN conflicts'[d] : i \in DOMAIN conflicts[d]
    BY <1>2, <2>1
  <2> QED
    BY <1>1, <2>4, <2>8, <2>9, <2>10, MergedStep
<1>5. CASE MergeNewer(d, o)
  <2>1. /\ o.kind # "delete" /\ Live(d) /\ o.hlc > doc[d].stamp
        /\ doc' = [doc EXCEPT ![d] = [state |-> "live", text |-> o.text, stamp |-> o.hlc, by |-> o.dev]]
        /\ IF Conflicting(d, o) THEN StoreConflict(d, o) ELSE UNCHANGED conflicts
    BY <1>5 DEF MergeNewer
  <2>2. o.text \in Text /\ o.hlc \in 0 .. MaxHlc /\ o.dev \in Reader \cup Editor
    BY <1>1, <1>2, <2>1, OpHas, SyncEntityAssumption
  <2>3. [state |-> "live", text |-> o.text, stamp |-> o.hlc, by |-> o.dev] \in DocRow
    BY <2>2 DEF DocRow
  <2>4. /\ doc' \in [Reader -> DocRow] /\ \A e \in Reader \ {d} : doc'[e] = doc[e]
        /\ doc'[d].text = o.text /\ doc'[d].stamp = o.hlc /\ doc'[d].state = "live"
        /\ doc'[d].by = o.dev
    BY <1>2, <2>1, <2>3
  <2>5. /\ conflicts' \in [Reader -> Seq(Conflict)]
        /\ \A e \in Reader \ {d} : conflicts'[e] = conflicts[e]
        /\ DOMAIN conflicts[d] \subseteq DOMAIN conflicts'[d]
        /\ \A i \in DOMAIN conflicts[d] : conflicts'[d][i] = conflicts[d][i]
        /\ \A i \in DOMAIN conflicts'[d] :
             \/ i \in DOMAIN conflicts[d]
             \/ /\ conflicts'[d][i].local = doc[d].text /\ conflicts'[d][i].remote = o.text
                /\ conflicts'[d][i].stamp = o.hlc /\ ~conflicts'[d][i].resolved
                /\ sweep[d].running => conflicts'[d][i].raced
        /\ Conflicting(d, o) => \E i \in DOMAIN conflicts'[d] :
             /\ conflicts'[d][i].stamp = o.hlc
             /\ i \notin DOMAIN conflicts[d] =>
                  conflicts'[d][i].local = doc[d].text /\ conflicts'[d][i].remote = o.text
    BY <2>1, StoredRows
  <2>6. Rows(d) \subseteq Rows(d)'
    BY <2>5 DEF Rows
  <2>7. \E p \in docMerged[d] : p.kind = "create"
    BY <2>1 DEF DocInv, NotesAreCreated, Live
  <2>8. ASSUME Steady(d)'
        PROVE  StampIsNewest(d)' /\ TextIsKnown(d)' /\ TextsAreTraced(d)'
    <3>1. Steady(d) /\ StampIsNewest(d) /\ TextIsKnown(d) /\ TextsAreTraced(d) /\ ~behind
      BY <1>1, <2>1, <2>8 DEF Steady, Live, DocInv, RowFollowsOps
    <3>2. \A p, q \in docOps : /\ p.hlc = q.hlc => p = q
                               /\ p.kind = "create" /\ q # p => p.hlc < q.hlc
      BY <3>1 DEF DocInv, OpsAreOrdered
    <3>3. Stamped(d)' = {o}
      BY <1>2, <1>3, <2>1, <2>4, <3>2 DEF Stamped
    <3>4. StampIsNewest(d)'
      <4>1. \A q \in docMerged[d] : q.kind # "delete" => q.hlc <= o.hlc
        <5> SUFFICES ASSUME NEW q \in docMerged[d], q.kind # "delete" PROVE q.hlc <= o.hlc
          OBVIOUS
        <5>1. q \in docOps /\ q.hlc \in Nat
          BY <1>1, OpHas
        <5> QED
          BY <1>2, <2>1, <3>1, <3>2, <5>1 DEF StampIsNewest
      <4>2. \A q \in docMerged'[d] : q.kind # "delete" => q.hlc <= doc'[d].stamp
        BY <1>1, <1>2, <2>4, <4>1
      <4> QED
        BY <2>4, <3>3, <4>2 DEF StampIsNewest
    <3>5. TextIsKnown(d)'
      BY <2>4, <3>3 DEF TextIsKnown
    <3>6. Conflicting(d, o) => \E c \in Rows(d)' : doc[d].text \in {c.local, c.remote}
      <4> SUFFICES ASSUME Conflicting(d, o)
                   PROVE  \E i \in DOMAIN conflicts'[d] :
                            doc[d].text \in {conflicts'[d][i].local, conflicts'[d][i].remote}
        BY DEF Rows
      <4>1. PICK i \in DOMAIN conflicts'[d] :
              /\ conflicts'[d][i].stamp = o.hlc
              /\ i \notin DOMAIN conflicts[d] =>
                  conflicts'[d][i].local = doc[d].text /\ conflicts'[d][i].remote = o.text
        BY <2>5
      <4>2. i \notin DOMAIN conflicts[d]
        <5> SUFFICES ASSUME i \in DOMAIN conflicts[d] PROVE FALSE
          OBVIOUS
        <5>1. conflicts[d][i] \in Rows(d) /\ conflicts[d][i].stamp = o.hlc
          BY <2>5, <4>1 DEF Rows
        <5>2. PICK p \in docMerged[d] : p.kind # "delete" /\ p.hlc = o.hlc
          BY <5>1 DEF DocInv, RowsHaveOps
        <5> QED
          BY <1>2, <2>1, <3>1, <5>2 DEF StampIsNewest, Conflicting
      <4> QED
        BY <4>1, <4>2
    <3>7. \A q \in docMerged[d] \cup Stamped(d) : q.kind = "update" => Traced(d, q.text)'
      BY <1>1, <1>3, <2>1, <2>4, <2>6, <3>1, <3>6, Overwritten
    <3>8. Traced(d, o.text)'
      BY <2>4 DEF Traced
    <3> QED
      BY <1>1, <3>3, <3>4, <3>5, <3>7, <3>8 DEF TextsAreTraced
  <2>9. /\ conflicts' \in [Reader -> Seq(Conflict)]
        /\ \A e \in Reader \ {d} : conflicts'[e] = conflicts[e]
        /\ DOMAIN conflicts[d] \subseteq DOMAIN conflicts'[d]
        /\ \A i \in DOMAIN conflicts[d] : conflicts'[d][i] = conflicts[d][i]
        /\ \A i \in DOMAIN conflicts'[d] :
             \/ i \in DOMAIN conflicts[d]
             \/ /\ conflicts'[d][i].remote = o.text /\ o.kind # "delete"
                /\ conflicts'[d][i].stamp = o.hlc /\ ~conflicts'[d][i].resolved
                /\ sweep[d].running => conflicts'[d][i].raced
    BY <2>1, <2>5
  <2>10. doc'[d].state # "none" /\ doc'[d].text \in Text /\ \E p \in docMerged[d] \cup {o} : p.kind = "create"
    BY <2>2, <2>4, <2>7
  <2> QED
    BY <1>1, <2>4, <2>8, <2>9, <2>10, MergedStep
<1>6. CASE MergeOlder(d, o)
  <2>1. /\ o.kind # "delete" /\ Live(d) /\ o.hlc <= doc[d].stamp /\ doc' = doc
        /\ IF Conflicting(d, o) THEN StoreConflict(d, o) ELSE UNCHANGED conflicts
    BY <1>6 DEF MergeOlder
  <2>2. /\ conflicts' \in [Reader -> Seq(Conflict)]
        /\ \A e \in Reader \ {d} : conflicts'[e] = conflicts[e]
        /\ DOMAIN conflicts[d] \subseteq DOMAIN conflicts'[d]
        /\ \A i \in DOMAIN conflicts[d] : conflicts'[d][i] = conflicts[d][i]
        /\ \A i \in DOMAIN conflicts'[d] :
             \/ i \in DOMAIN conflicts[d]
             \/ /\ conflicts'[d][i].local = doc[d].text /\ conflicts'[d][i].remote = o.text
                /\ conflicts'[d][i].stamp = o.hlc /\ ~conflicts'[d][i].resolved
                /\ sweep[d].running => conflicts'[d][i].raced
        /\ Conflicting(d, o) => \E i \in DOMAIN conflicts'[d] :
             /\ conflicts'[d][i].stamp = o.hlc
             /\ i \notin DOMAIN conflicts[d] =>
                  conflicts'[d][i].local = doc[d].text /\ conflicts'[d][i].remote = o.text
    BY <2>1, StoredRows
  <2>3. Rows(d) \subseteq Rows(d)'
    BY <2>2 DEF Rows
  <2>4. /\ doc[d].state = "live" /\ doc[d].text \in Text /\ \E p \in docMerged[d] : p.kind = "create"
        /\ doc[d].stamp # 0
    BY <1>2, <2>1 DEF DocInv, NotesAreCreated, Live
  <2>5. ASSUME Steady(d)'
        PROVE  StampIsNewest(d)' /\ TextIsKnown(d)' /\ TextsAreTraced(d)'
    <3>1. Steady(d) /\ StampIsNewest(d) /\ TextIsKnown(d) /\ TextsAreTraced(d) /\ ~behind
      BY <1>1, <2>1, <2>5 DEF Steady, Live, DocInv, RowFollowsOps
    <3>2. \A p, q \in docOps : /\ p.hlc = q.hlc => p = q
                               /\ p.kind = "create" /\ q # p => p.hlc < q.hlc
      BY <3>1 DEF DocInv, OpsAreOrdered
    <3>3. Stamped(d) \subseteq Stamped(d)' /\ Stamped(d)' \subseteq Stamped(d) \cup {o}
      BY <1>3, <2>1 DEF Stamped
    <3>4. StampIsNewest(d)'
      BY <1>1, <2>1, <3>1, <3>3 DEF StampIsNewest
    <3>5. TextIsKnown(d)'
      <4>1. CASE \E s \in Stamped(d) : s.text = doc[d].text
        BY <2>1, <3>3, <4>1 DEF TextIsKnown
      <4>2. CASE \E x \in Pending(d) : x.kind # "delete" /\ x.hlc > doc[d].stamp /\ x.text = doc[d].text
        <5>1. PICK x \in Pending(d) : x.kind # "delete" /\ x.hlc > doc[d].stamp /\ x.text = doc[d].text
          BY <4>2
        <5>2. x # o
          BY <1>2, <2>1, <5>1
        <5> QED
          BY <1>3, <2>1, <5>1, <5>2 DEF TextIsKnown
      <4> QED
        BY <2>4, <3>1, <4>1, <4>2 DEF TextIsKnown
    <3>6. ASSUME o.hlc # doc[d].stamp
          PROVE  Traced(d, o.text)'
      <4>1. CASE doc[d].text = o.text
        BY <2>1, <4>1 DEF Traced
      <4>2. CASE Conflicting(d, o)
        <5>1. PICK i \in DOMAIN conflicts'[d] :
                /\ conflicts'[d][i].stamp = o.hlc
                /\ i \notin DOMAIN conflicts[d] =>
                    conflicts'[d][i].local = doc[d].text /\ conflicts'[d][i].remote = o.text
          BY <2>2, <4>2
        <5>2. conflicts'[d][i].remote = o.text
          <6>1. CASE i \in DOMAIN conflicts[d]
            <7>1. conflicts[d][i] \in Rows(d) /\ conflicts'[d][i] = conflicts[d][i]
              BY <2>2, <6>1 DEF Rows
            <7>2. PICK p \in docMerged[d] : p.hlc = conflicts[d][i].stamp /\ p.text = conflicts[d][i].remote
              BY <7>1 DEF DocInv, RowsHaveOps
            <7> QED
              BY <1>1, <3>2, <5>1, <7>1, <7>2
          <6> QED
            BY <5>1, <6>1
        <5>3. conflicts'[d][i] \in Rows(d)'
          BY <5>1 DEF Rows
        <5> QED
          BY <5>2, <5>3 DEF Traced
      <4>3. CASE doc[d].text # o.text /\ ~Conflicting(d, o)
        <5>1. doc[d].by = o.dev
          BY <2>4, <4>3 DEF Conflicting
        <5>2. PICK s \in Stamped(d) : s.dev = o.dev
          BY <2>4, <3>1, <5>1 DEF StampIsNewest
        <5>3. /\ s \in KnownOps(d) /\ s \in docOps /\ s.hlc = doc[d].stamp /\ s.kind # "delete"
              /\ o.hlc < s.hlc
          BY <1>2, <2>1, <3>6, <5>2 DEF Stamped
        <5>4. s.kind = "update"
          <6>1. s.kind \in {"create", "update", "delete"}
            BY <1>1, <5>3, OpHas
          <6>2. s.kind # "create"
            BY <1>2, <3>2, <5>3
          <6> QED
            BY <5>3, <6>1, <6>2
        <5>5. o \in KnownOps(d)' /\ s \in KnownOps(d)'
          BY <1>3, <5>3
        <5>6. Overtaken(d, o.text)'
          BY <5>2, <5>3, <5>4, <5>5 DEF Overtaken
        <5> QED
          BY <5>6 DEF Traced
      <4> QED
        BY <4>1, <4>2, <4>3
    <3>7. ASSUME NEW q \in docMerged[d] \cup Stamped(d), q.kind = "update"
          PROVE  Traced(d, q.text)'
      <4>1. Traced(d, q.text)
        BY <3>1, <3>7 DEF TextsAreTraced
      <4>2. CASE Overtaken(d, q.text)
        <5>1. Overtaken(d, q.text)'
          BY <1>3, <4>2 DEF Overtaken
        <5> QED
          BY <5>1 DEF Traced
      <4>3. CASE \E x \in Pending(d) : x.text = q.text /\ x.hlc # doc[d].stamp
        <5>1. PICK x \in Pending(d) : x.text = q.text /\ x.hlc # doc[d].stamp
          BY <4>3
        <5>2. CASE x = o
          BY <3>6, <5>1, <5>2
        <5>3. CASE x # o
          BY <1>3, <2>1, <5>1, <5>3 DEF Traced
        <5> QED
          BY <5>2, <5>3
      <4>4. CASE doc[d].text = q.text
        BY <2>1, <4>4 DEF Traced
      <4>5. CASE \E c \in Rows(d) : q.text \in {c.local, c.remote}
        BY <2>3, <4>5 DEF Traced
      <4>6. CASE \E t \in torn[d] : t.lost = q.text
        BY <1>1, <4>6 DEF Traced
      <4> QED
        BY <4>1, <4>2, <4>3, <4>4, <4>5, <4>6 DEF Traced
    <3>8. TextsAreTraced(d)'
      <4> SUFFICES ASSUME NEW q \in docMerged'[d] \cup Stamped(d)', q.kind = "update"
                   PROVE  Traced(d, q.text)'
        BY DEF TextsAreTraced
      <4>1. CASE q \in docMerged[d] \cup Stamped(d)
        BY <3>7, <4>1
      <4>2. CASE q = o /\ o \notin Stamped(d)
        <5>1. o.hlc # doc[d].stamp
          <6> SUFFICES ASSUME o.hlc = doc[d].stamp PROVE FALSE
            OBVIOUS
          <6>1. PICK s \in Stamped(d) : TRUE
            BY <2>4, <3>1 DEF StampIsNewest
          <6>2. s \in docOps /\ s.hlc = o.hlc
            BY <1>2, <6>1 DEF Stamped
          <6> QED
            BY <3>2, <4>2, <6>1, <6>2
        <5> QED
          BY <3>6, <4>2, <5>1
      <4> QED
        BY <1>1, <3>3, <4>1, <4>2
    <3> QED
      BY <3>4, <3>5, <3>8
  <2>6. /\ conflicts' \in [Reader -> Seq(Conflict)]
        /\ \A e \in Reader \ {d} : conflicts'[e] = conflicts[e]
        /\ DOMAIN conflicts[d] \subseteq DOMAIN conflicts'[d]
        /\ \A i \in DOMAIN conflicts[d] : conflicts'[d][i] = conflicts[d][i]
        /\ \A i \in DOMAIN conflicts'[d] :
             \/ i \in DOMAIN conflicts[d]
             \/ /\ conflicts'[d][i].remote = o.text /\ o.kind # "delete"
                /\ conflicts'[d][i].stamp = o.hlc /\ ~conflicts'[d][i].resolved
                /\ sweep[d].running => conflicts'[d][i].raced
    BY <2>1, <2>2
  <2>7. doc'[d].state # "none" /\ doc'[d].text \in Text /\ \E p \in docMerged[d] \cup {o} : p.kind = "create"
    BY <2>1, <2>4
  <2> QED
    BY <1>1, <1>2, <2>1, <2>5, <2>6, <2>7, MergedStep
<1>7. CASE MergeGone(d, o)
  <2>1. /\ doc[d].state # "none" /\ conflicts' = conflicts
        /\ doc' = [doc EXCEPT ![d] = [state |-> "deleted", text |-> doc[d].text,
                                      stamp |-> doc[d].stamp, by |-> doc[d].by]]
    BY <1>7 DEF MergeGone
  <2>2. [state |-> "deleted", text |-> doc[d].text, stamp |-> doc[d].stamp, by |-> doc[d].by] \in DocRow
    BY <1>2 DEF DocRow
  <2>3. /\ doc' \in [Reader -> DocRow] /\ \A e \in Reader \ {d} : doc'[e] = doc[e]
        /\ doc'[d].text = doc[d].text /\ doc'[d].state = "deleted"
    BY <1>2, <2>1, <2>2
  <2>4. doc[d].text \in Text /\ \E p \in docMerged[d] : p.kind = "create"
    BY <2>1 DEF DocInv, NotesAreCreated
  <2>5. ~Steady(d)'
    BY <2>3 DEF Steady, Live
  <2>6. /\ conflicts' \in [Reader -> Seq(Conflict)]
        /\ \A e \in Reader \ {d} : conflicts'[e] = conflicts[e]
        /\ DOMAIN conflicts[d] \subseteq DOMAIN conflicts'[d]
        /\ \A i \in DOMAIN conflicts[d] : conflicts'[d][i] = conflicts[d][i]
        /\ \A i \in DOMAIN conflicts'[d] :
             \/ i \in DOMAIN conflicts[d]
             \/ /\ conflicts'[d][i].remote = o.text /\ o.kind # "delete"
                /\ conflicts'[d][i].stamp = o.hlc /\ ~conflicts'[d][i].resolved
                /\ sweep[d].running => conflicts'[d][i].raced
    BY <1>2, <2>1
  <2>7. doc'[d].state # "none" /\ doc'[d].text \in Text /\ \E p \in docMerged[d] \cup {o} : p.kind = "create"
    BY <2>3, <2>4
  <2> QED
    BY <1>1, <2>3, <2>5, <2>6, <2>7, MergedStep
<1> QED
  BY <1>4, <1>5, <1>6, <1>7 DEF MergeDoc

\* A merge that dies: the op is known but not merged, and what it has overwritten
\* without storing the conflict is recorded as lost.
LEMMA MergeDiesStep ==
  ASSUME DocInv, NEW d \in Reader, NEW o \in docOps, NEW done \in 1 .. 2, MergeDies(d, o, done)
  PROVE  DocInv'
<1> DEFINE row == [state |-> "live", text |-> o.text,
                   stamp |-> IF done = 2 THEN o.hlc ELSE doc[d].stamp,
                   by |-> IF done = 2 THEN o.dev ELSE doc[d].by]
           tear == [op |-> o, lost |-> IF Conflicting(d, o) THEN doc[d].text ELSE NoText]
<1>1. /\ o.dev # d /\ o.kind # "delete" /\ Live(d) /\ o.hlc > doc[d].stamp
      /\ doc' = [doc EXCEPT ![d] = row] /\ torn' = [torn EXCEPT ![d] = torn[d] \cup {tear}]
      /\ UNCHANGED <<docOps, conflicts, sweep, docMerged, behind, cut, resolutions>>
  BY DEF MergeDies
<1>2. /\ doc \in [Reader -> DocRow] /\ doc[d] \in DocRow /\ conflicts \in [Reader -> Seq(Conflict)]
      /\ doc[d].stamp \in Nat /\ o.hlc \in Nat /\ o.hlc \in 1 .. MaxHlc /\ o \in DocOp
      /\ KnownOps(d) \subseteq docOps /\ docMerged[d] \subseteq KnownOps(d) /\ docOps \subseteq DocOp
      /\ torn \in [Reader -> SUBSET [op : DocOp, lost : Text \cup {NoText}]]
  BY OpHas, RowHas DEF DocInv, DocTypes, OpsAreEmitted
<1>3. /\ doc[d].text \in Text /\ (\E p \in docMerged[d] : p.kind = "create")
      /\ doc[d].by \in Reader \cup Editor \cup {"none"} /\ doc[d].stamp \in 0 .. MaxHlc
  BY <1>1, <1>2 DEF DocInv, NotesAreCreated, Live, DocRow
<1>4. o.text \in Text /\ o.hlc \in 0 .. MaxHlc /\ o.dev \in Reader \cup Editor
  BY <1>1, <1>2, OpHas, SyncEntityAssumption
<1>5. /\ row \in DocRow /\ row.text = o.text /\ row.state = "live"
      /\ done = 2 => row.stamp = o.hlc /\ row.by = o.dev
      /\ done # 2 => row.stamp = doc[d].stamp /\ row.by = doc[d].by
  BY <1>3, <1>4 DEF DocRow
<1>6. /\ tear \in [op : DocOp, lost : Text \cup {NoText}] /\ tear.op = o
      /\ Conflicting(d, o) => tear.lost = doc[d].text
  BY <1>2, <1>3
<1> HIDE DEF row, tear
<1>7. /\ doc' \in [Reader -> DocRow] /\ doc'[d] = row /\ \A e \in Reader \ {d} : doc'[e] = doc[e]
  BY <1>1, <1>2, <1>5
<1>8. /\ torn' \in [Reader -> SUBSET [op : DocOp, lost : Text \cup {NoText}]]
      /\ torn'[d] = torn[d] \cup {tear} /\ \A e \in Reader \ {d} : torn'[e] = torn[e]
  BY <1>1, <1>2, <1>6
<1>9. /\ KnownOps(d)' = KnownOps(d) \cup {o} /\ Pending(d)' = (KnownOps(d) \cup {o}) \ docMerged[d]
      /\ \A e \in Reader \ {d} : KnownOps(e)' = KnownOps(e) /\ Pending(e)' = Pending(e)
      /\ Rows(d)' = Rows(d)
  BY <1>1, <1>6, <1>8 DEF KnownOps, Pending, Rows
<1>10. DocTypes'
  BY <1>1, <1>7, <1>8 DEF DocInv, DocTypes
<1>11. OpsAreEmitted'
  <2>1. \A e \in Reader : KnownOps(e)' \subseteq docOps' /\ \A q \in Pending(e)' : q.dev # e
    <3> SUFFICES ASSUME NEW e \in Reader
                 PROVE  KnownOps(e)' \subseteq docOps' /\ \A q \in Pending(e)' : q.dev # e
      OBVIOUS
    <3>1. KnownOps(e) \subseteq docOps /\ \A q \in Pending(e) : q.dev # e
      BY DEF DocInv, OpsAreEmitted
    <3> QED
      BY <1>1, <1>9, <3>1 DEF Pending
  <2> QED
    BY <1>1, <2>1 DEF DocInv, OpsAreEmitted
<1>12. OpsAreOrdered'
  BY <1>1 DEF DocInv, OpsAreOrdered
<1>13. ASSUME Steady(d)'
       PROVE  StampIsNewest(d)' /\ TextIsKnown(d)' /\ TextsAreTraced(d)'
  <2>1. Steady(d) /\ StampIsNewest(d) /\ TextIsKnown(d) /\ TextsAreTraced(d) /\ ~behind
    BY <1>1, <1>13 DEF Steady, Live, DocInv, RowFollowsOps
  <2>2. \A p, q \in docOps : /\ p.hlc = q.hlc => p = q
                             /\ p.kind = "create" /\ q # p => p.hlc < q.hlc
    BY <2>1 DEF DocInv, OpsAreOrdered
  <2>3. \A q \in docMerged[d] \cup Stamped(d) : q.kind = "update" => Traced(d, q.text)'
    <3>1. /\ o \in KnownOps(d)' /\ KnownOps(d) \subseteq KnownOps(d)' /\ Pending(d) \ {o} \subseteq Pending(d)'
          /\ Rows(d) \subseteq Rows(d)' /\ torn[d] \subseteq torn'[d]
          /\ doc'[d].text = o.text /\ doc'[d].stamp \in {doc[d].stamp, o.hlc}
      BY <1>5, <1>7, <1>8, <1>9 DEF Pending
    <3>2. Conflicting(d, o) => \/ \E c \in Rows(d)' : doc[d].text \in {c.local, c.remote}
                               \/ \E t \in torn'[d] : t.lost = doc[d].text
      BY <1>6, <1>8
    <3> QED
      BY <1>1, <2>1, <3>1, <3>2, Overwritten
  <2>4. CASE done = 2
    <3>1. /\ doc'[d].text = o.text /\ doc'[d].stamp = o.hlc /\ doc'[d].by = o.dev
          /\ docMerged' = docMerged
      BY <1>1, <1>5, <1>7, <2>4
    <3>2. Stamped(d)' = {o}
      BY <1>1, <1>2, <1>9, <2>2, <3>1 DEF Stamped
    <3>3. StampIsNewest(d)'
      <4>1. \A q \in docMerged[d] : q.kind # "delete" => q.hlc <= o.hlc
        <5> SUFFICES ASSUME NEW q \in docMerged[d], q.kind # "delete" PROVE q.hlc <= o.hlc
          OBVIOUS
        <5>1. q \in docOps /\ q.hlc \in Nat
          BY <1>2, OpHas
        <5>2. q.hlc <= doc[d].stamp \/ q.kind = "create"
          BY <2>1 DEF StampIsNewest
        <5>3. q.kind = "create" => q = o \/ q.hlc < o.hlc
          BY <2>2, <5>1
        <5> QED
          BY <1>1, <1>2, <5>1, <5>2, <5>3
      <4> QED
        BY <3>1, <3>2, <4>1 DEF StampIsNewest
    <3>4. TextIsKnown(d)'
      BY <3>1, <3>2 DEF TextIsKnown
    <3>5. Traced(d, o.text)'
      BY <3>1 DEF Traced
    <3> QED
      BY <2>3, <3>1, <3>2, <3>3, <3>4, <3>5 DEF TextsAreTraced
  <2>5. CASE done = 1
    <3>1. /\ doc'[d].text = o.text /\ doc'[d].stamp = doc[d].stamp /\ doc'[d].by = doc[d].by
          /\ docMerged' = docMerged
      BY <1>1, <1>5, <1>7, <2>5
    <3>2. Stamped(d)' = Stamped(d)
      BY <1>1, <1>2, <1>9, <3>1 DEF Stamped
    <3>3. StampIsNewest(d)'
      BY <2>1, <3>1, <3>2 DEF StampIsNewest
    <3>4. TextIsKnown(d)'
      <4>1. CASE o \in docMerged[d]
        BY <1>1, <1>2, <2>1, <3>1, <4>1 DEF TextIsKnown, StampIsNewest
      <4>2. CASE o \notin docMerged[d]
        BY <1>1, <1>9, <3>1, <4>2 DEF TextIsKnown
      <4> QED
        BY <4>1, <4>2
    <3> QED
      BY <2>3, <3>1, <3>2, <3>3, <3>4 DEF TextsAreTraced
  <2> QED
    BY <2>4, <2>5
<1>14. /\ doc'[d].state # "none" /\ doc'[d].text \in Text /\ \E p \in docMerged'[d] : p.kind = "create"
  BY <1>1, <1>3, <1>4, <1>5, <1>7
<1>15. /\ \A c \in Rows(d)' : \E p \in docMerged'[d] :
             p.kind # "delete" /\ p.hlc = c.stamp /\ p.text = c.remote
       /\ \A c \in Rows(d)' : c.resolved => c.decided \/ c.raced
  BY <1>1, <1>9 DEF DocInv, RowsHaveOps, ResolvedWasDecided
<1>16. /\ sweep'[d].rows \subseteq DOMAIN conflicts'[d] /\ (~sweep'[d].running => sweep'[d].rows = {})
       /\ sweep'[d].running => \A i \in DOMAIN conflicts'[d] :
            \/ conflicts'[d][i].resolved \/ conflicts'[d][i].decided \/ conflicts'[d][i].raced
            \/ \E j \in sweep'[d].rows : conflicts'[d][j].stamp = conflicts'[d][i].stamp
  BY <1>1 DEF DocInv, SweepCovers
<1>17. UNCHANGED <<conflicts, sweep, docMerged, behind, cut>>
  BY <1>1
<1> QED
  BY <1>7, <1>8, <1>10, <1>11, <1>12, <1>13, <1>14, <1>15, <1>16, <1>17, OneReader

(***************************************************************************)
(* Resolutions.                                                            *)
(***************************************************************************)

\* What deciding or marking does to the rows: only the two flags change.
LEMMA FlagsOnly ==
  ASSUME NEW rows \in Seq(Conflict), NEW stamps,
         NEW marked, marked = Mark(rows, stamps)
  PROVE  /\ marked \in Seq(Conflict) /\ DOMAIN marked = DOMAIN rows
         /\ \A i \in DOMAIN rows :
              /\ marked[i].local = rows[i].local /\ marked[i].remote = rows[i].remote
              /\ marked[i].stamp = rows[i].stamp /\ marked[i].raced = rows[i].raced
              /\ marked[i].decided = rows[i].decided
              /\ marked[i].resolved <=> rows[i].resolved \/ rows[i].stamp \in stamps
<1>1. rows \in [1 .. Len(rows) -> Conflict] /\ Len(rows) \in Nat /\ DOMAIN rows = 1 .. Len(rows)
  OBVIOUS
<1>2. marked = [i \in DOMAIN rows |->
        [rows[i] EXCEPT !.resolved = rows[i].resolved \/ rows[i].stamp \in stamps]]
  BY DEF Mark
<1>3. \A i \in DOMAIN rows : marked[i] \in Conflict
  <2> SUFFICES ASSUME NEW i \in DOMAIN rows PROVE marked[i] \in Conflict
    OBVIOUS
  <2>1. /\ marked[i] = [rows[i] EXCEPT !.resolved = rows[i].resolved \/ rows[i].stamp \in stamps]
        /\ rows[i] \in Conflict
    BY <1>1, <1>2
  <2> QED
    BY <2>1 DEF Conflict
<1>4. marked \in Seq(Conflict) /\ DOMAIN marked = DOMAIN rows
  <2>1. DOMAIN marked = 1 .. Len(rows)
    BY <1>1, <1>2
  <2>2. marked = [i \in 1 .. Len(rows) |-> marked[i]]
    BY <1>1, <1>2
  <2>3. marked \in [1 .. Len(rows) -> Conflict]
    BY <1>1, <1>3, <2>1, <2>2
  <2> QED
    BY <1>1, <2>1, <2>3
<1>5. \A i \in DOMAIN rows : rows[i] \in Conflict
  BY <1>1
<1> QED
  BY <1>2, <1>4, <1>5 DEF Conflict

\* Deciding changes only that flag of the rows with these stamps.
LEMMA DecidedOnly ==
  ASSUME DocTypes, NEW d \in Reader, NEW stamps, NEW rows, rows = Decide(d, stamps)
  PROVE  /\ rows \in Seq(Conflict) /\ DOMAIN rows = DOMAIN conflicts[d]
         /\ \A i \in DOMAIN conflicts[d] :
              /\ rows[i].local = conflicts[d][i].local /\ rows[i].remote = conflicts[d][i].remote
              /\ rows[i].stamp = conflicts[d][i].stamp /\ rows[i].raced = conflicts[d][i].raced
              /\ rows[i].resolved = conflicts[d][i].resolved
              /\ rows[i].decided <=> conflicts[d][i].decided \/ conflicts[d][i].stamp \in stamps
<1> DEFINE old == conflicts[d]
<1>1. /\ old \in Seq(Conflict) /\ Len(old) \in Nat /\ DOMAIN old = 1 .. Len(old)
      /\ \A i \in DOMAIN old : old[i] \in Conflict
  BY DEF DocTypes
<1>2. rows = [i \in DOMAIN old |->
        [old[i] EXCEPT !.decided = old[i].decided \/ old[i].stamp \in stamps]]
  BY DEF Decide
<1> HIDE DEF old
<1>3. \A i \in DOMAIN old : rows[i] \in Conflict
  <2> SUFFICES ASSUME NEW i \in DOMAIN old PROVE rows[i] \in Conflict
    OBVIOUS
  <2>1. /\ rows[i] = [old[i] EXCEPT !.decided = old[i].decided \/ old[i].stamp \in stamps]
        /\ old[i] \in Conflict
    BY <1>1, <1>2
  <2> QED
    BY <2>1 DEF Conflict
<1>4. rows \in Seq(Conflict) /\ DOMAIN rows = DOMAIN old
  <2>1. DOMAIN rows = 1 .. Len(old)
    BY <1>1, <1>2
  <2>2. rows = [i \in 1 .. Len(old) |-> rows[i]]
    BY <1>1, <1>2
  <2>3. rows \in [1 .. Len(old) -> Conflict]
    BY <1>1, <1>3, <2>1, <2>2
  <2> QED
    BY <1>1, <2>1, <2>3
<1>5. \A i \in DOMAIN old :
              /\ rows[i].local = old[i].local /\ rows[i].remote = old[i].remote
              /\ rows[i].stamp = old[i].stamp /\ rows[i].raced = old[i].raced
              /\ rows[i].resolved = old[i].resolved
              /\ rows[i].decided <=> old[i].decided \/ old[i].stamp \in stamps
  <2> SUFFICES ASSUME NEW i \in DOMAIN old
               PROVE  /\ rows[i].local = old[i].local /\ rows[i].remote = old[i].remote
                      /\ rows[i].stamp = old[i].stamp /\ rows[i].raced = old[i].raced
                      /\ rows[i].resolved = old[i].resolved
                      /\ rows[i].decided <=> old[i].decided \/ old[i].stamp \in stamps
    OBVIOUS
  <2>1. /\ rows[i] = [old[i] EXCEPT !.decided = old[i].decided \/ old[i].stamp \in stamps]
        /\ old[i] \in Conflict
    BY <1>1, <1>2
  <2> QED
    BY <2>1 DEF Conflict
<1> QED
  BY <1>4, <1>5 DEF old

\* A resolution that was not interrupted and is past what its device has merged
\* overtakes all of it.  What the rows and the sweep become is left to the caller.
LEMMA AppliedStep ==
  ASSUME DocInv, NEW d \in Reader, NEW hlc \in Hlc, NEW text \in Text, NEW done \in 1 .. 4,
         Apply(d, hlc, text, done), doc[d].state # "none",
         NEW rows \in Seq(Conflict), conflicts' = [conflicts EXCEPT ![d] = rows],
         DOMAIN rows = DOMAIN conflicts[d],
         \A i \in DOMAIN conflicts[d] :
           /\ rows[i].remote = conflicts[d][i].remote /\ rows[i].stamp = conflicts[d][i].stamp
           /\ rows[i].resolved => rows[i].decided \/ rows[i].raced,
         NEW left \in [running : BOOLEAN, side : {"local", "remote"}, rows : SUBSET Nat],
         sweep' = [sweep EXCEPT ![d] = left],
         left.rows \subseteq DOMAIN conflicts[d], ~left.running => left.rows = {},
         left.running => \A i \in DOMAIN conflicts[d] :
           \/ rows[i].resolved \/ rows[i].decided \/ rows[i].raced
           \/ \E j \in left.rows : rows[j].stamp = rows[i].stamp
  PROVE  DocInv'
<1> DEFINE op == [hlc |-> hlc, dev |-> d, kind |-> "update", text |-> text]
           row == [state |-> doc[d].state, text |-> text,
                   stamp |-> IF done >= 2 THEN hlc ELSE doc[d].stamp,
                   by |-> IF done >= 2 THEN d ELSE doc[d].by]
<1>1. /\ \A q \in docOps : q.dev # d => q.hlc # hlc
      /\ doc' = [doc EXCEPT ![d] = row]
      /\ docOps' = IF done >= 3 THEN docOps \cup {op} ELSE docOps
      /\ docMerged' = [docMerged EXCEPT ![d] = IF done >= 3 THEN docMerged[d] \cup {op} ELSE docMerged[d]]
      /\ behind' = (behind \/ \E q \in docMerged[d] : q.hlc >= hlc)
      /\ cut' = (cut \/ done < 3) /\ torn' = torn /\ resolutions' = resolutions + 1
  BY DEF Apply
<1>2. /\ doc \in [Reader -> DocRow] /\ doc[d] \in DocRow /\ conflicts \in [Reader -> Seq(Conflict)]
      /\ docMerged \in [Reader -> SUBSET DocOp] /\ docOps \subseteq DocOp
      /\ sweep \in [Reader -> [running : BOOLEAN, side : {"local", "remote"}, rows : SUBSET Nat]]
      /\ behind \in BOOLEAN /\ cut \in BOOLEAN /\ resolutions \in Nat
      /\ KnownOps(d) \subseteq docOps /\ docMerged[d] \subseteq KnownOps(d)
  BY RowHas DEF DocInv, DocTypes, OpsAreEmitted
<1>3. hlc \in Nat /\ hlc \in 0 .. MaxHlc /\ done \in Nat
  BY SyncEntityAssumption DEF Hlc
<1>4. op \in DocOp /\ op.hlc = hlc /\ op.dev = d /\ op.kind = "update" /\ op.text = text
  BY DocumentAssumption DEF DocOp, NoText
<1>5. row \in DocRow /\ row.state = doc[d].state /\ row.text = text
  BY <1>2, <1>3 DEF DocRow
<1>6. done >= 2 => row.stamp = hlc /\ row.by = d
  OBVIOUS
<1> HIDE DEF op, row
<1>7. /\ doc' \in [Reader -> DocRow] /\ doc'[d] = row /\ \A e \in Reader \ {d} : doc'[e] = doc[e]
  BY <1>1, <1>2, <1>5
<1>8. /\ docMerged' \in [Reader -> SUBSET DocOp] /\ docOps' \subseteq DocOp
      /\ docMerged'[d] = IF done >= 3 THEN docMerged[d] \cup {op} ELSE docMerged[d]
      /\ docMerged[d] \subseteq docMerged'[d] /\ docMerged'[d] \subseteq docMerged[d] \cup {op}
      /\ \A e \in Reader \ {d} : docMerged'[e] = docMerged[e]
  <2>1. CASE done >= 3
    BY <1>1, <1>2, <1>4, <2>1
  <2>2. CASE ~(done >= 3)
    BY <1>1, <1>2, <2>2
  <2> QED
    BY <2>1, <2>2
<1>9. /\ conflicts' \in [Reader -> Seq(Conflict)] /\ conflicts'[d] = rows
      /\ \A e \in Reader \ {d} : conflicts'[e] = conflicts[e]
      /\ sweep' \in [Reader -> [running : BOOLEAN, side : {"local", "remote"}, rows : SUBSET Nat]]
      /\ sweep'[d] = left /\ \A e \in Reader \ {d} : sweep'[e] = sweep[e]
  BY <1>2
<1>10. /\ KnownOps(d) \subseteq KnownOps(d)' /\ KnownOps(d)' \subseteq KnownOps(d) \cup {op}
       /\ Pending(d)' \subseteq Pending(d)
       /\ \A e \in Reader \ {d} : KnownOps(e)' = KnownOps(e) /\ Pending(e)' = Pending(e)
  BY <1>1, <1>8 DEF KnownOps, Pending
<1>11. DocTypes'
  <2>1. behind' \in BOOLEAN /\ cut' \in BOOLEAN /\ resolutions' \in Nat
    BY <1>1, <1>2
  <2> QED
    BY <1>1, <1>7, <1>8, <1>9, <2>1 DEF DocInv, DocTypes
<1>12. docOps \subseteq docOps' /\ docOps' \subseteq docOps \cup {op} /\ (op \in docOps' <=> op \in docOps \/ done >= 3)
  BY <1>1
<1>13. OpsAreEmitted'
  <2>1. \A e \in Reader : KnownOps(e)' \subseteq docOps' /\ \A q \in Pending(e)' : q.dev # e
    <3> SUFFICES ASSUME NEW e \in Reader
                 PROVE  KnownOps(e)' \subseteq docOps' /\ \A q \in Pending(e)' : q.dev # e
      OBVIOUS
    <3>1. KnownOps(e) \subseteq docOps /\ \A q \in Pending(e) : q.dev # e
      BY DEF DocInv, OpsAreEmitted
    <3>2. CASE e # d
      BY <1>10, <1>12, <3>1, <3>2
    <3>3. CASE e = d
      <4>1. KnownOps(d)' \subseteq docOps'
        <5>1. CASE done >= 3
          BY <1>10, <1>12, <3>1, <3>3, <5>1
        <5>2. CASE ~(done >= 3)
          <6>1. docMerged'[d] = docMerged[d]
            BY <1>8, <5>2
          <6>2. KnownOps(d)' = KnownOps(d)
            BY <1>1, <6>1 DEF KnownOps
          <6> QED
            BY <1>12, <3>1, <3>3, <6>2
        <5> QED
          BY <5>1, <5>2
      <4> QED
        BY <1>10, <3>1, <3>3, <4>1
    <3> QED
      BY <3>2, <3>3
  <2>2. \A q \in docOps' : q.dev \in Reader => q \in docMerged'[q.dev]
    <3> SUFFICES ASSUME NEW q \in docOps', q.dev \in Reader PROVE q \in docMerged'[q.dev]
      OBVIOUS
    <3>1. CASE q \in docOps
      <4>1. q \in docMerged[q.dev]
        BY <3>1 DEF DocInv, OpsAreEmitted
      <4> QED
        BY <1>8, <4>1
    <3>2. CASE q = op /\ done >= 3
      BY <1>4, <1>8, <3>2
    <3> QED
      BY <1>12, <3>1, <3>2
  <2>3. \A p, q \in docOps' : p.kind = "create" /\ q.kind = "create" => p = q
    BY <1>4, <1>12 DEF DocInv, OpsAreEmitted
  <2>4. \E q \in docOps' : q.kind = "create"
    BY <1>2, <1>12 DEF DocInv, NotesAreCreated
  <2> QED
    BY <2>1, <2>2, <2>3, <2>4 DEF OpsAreEmitted
<1>14. ~behind' => ~behind /\ \A q \in docMerged[d] : q.hlc < hlc
  <2>1. \A q \in docMerged[d] : q.hlc \in Nat
    BY <1>2, OpHas
  <2>2. ASSUME ~behind'
        PROVE  ~behind /\ ~\E q \in docMerged[d] : q.hlc >= hlc
    BY <1>1, <2>2, Zenon
  <2>3. \A q \in docMerged[d] : ~(q.hlc >= hlc) => q.hlc < hlc
    BY <1>3, <2>1
  <2> QED
    BY <2>2, <2>3
<1>15. OpsAreOrdered'
  <2> SUFFICES ASSUME ~behind', NEW p \in docOps', NEW q \in docOps'
               PROVE  /\ p.hlc = q.hlc => p = q
                      /\ p.kind = "create" /\ q # p => p.hlc < q.hlc
    BY DEF OpsAreOrdered
  <2>1. CASE p \in docOps /\ q \in docOps
    BY <1>14, <2>1 DEF DocInv, OpsAreOrdered
  <2>2. \A x \in docOps : x.hlc # hlc
    <3> SUFFICES ASSUME NEW x \in docOps, x.dev = d PROVE x.hlc # hlc
      BY <1>1
    <3>1. x \in docMerged[d]
      BY DEF DocInv, OpsAreEmitted
    <3> QED
      BY <1>2, <1>3, <1>14, <3>1
  <2>3. \A x \in docOps : x.kind = "create" => x.hlc < hlc
    <3> SUFFICES ASSUME NEW x \in docOps, x.kind = "create" PROVE x.hlc < hlc
      OBVIOUS
    <3>1. x \in docMerged[d]
      BY <1>2 DEF DocInv, NotesAreCreated, OpsAreEmitted
    <3> QED
      BY <1>14, <3>1
  <2>4. CASE p = op /\ q = op
    BY <2>4
  <2>5. CASE p \in docOps /\ q = op
    BY <1>4, <2>2, <2>3, <2>5
  <2>6. CASE p = op /\ q \in docOps
    BY <1>4, <2>2, <2>6
  <2> QED
    BY <1>12, <2>1, <2>4, <2>5, <2>6
<1>16. ASSUME Steady(d)'
       PROVE  StampIsNewest(d)' /\ TextIsKnown(d)' /\ TextsAreTraced(d)'
  <2>1. ~behind' /\ ~cut' /\ done >= 3 /\ doc'[d].stamp = hlc /\ doc'[d].by = d /\ doc'[d].text = text
    <3>1. ~behind' /\ ~cut'
      BY <1>16 DEF Steady
    <3>2. ~(done < 3)
      BY <1>1, <3>1, Zenon
    <3>3. done >= 3 /\ done >= 2
      BY <1>3, <3>2
    <3> QED
      BY <1>5, <1>6, <1>7, <3>1, <3>3
  <2>2. op \in docMerged'[d] /\ op \in KnownOps(d)' /\ docMerged'[d] = docMerged[d] \cup {op}
    BY <1>8, <2>1 DEF KnownOps
  <2>3. \A q \in docMerged[d] : q.hlc < hlc
    BY <1>14, <2>1
  <2>4. Stamped(d)' = {op}
    <3>1. \A x \in KnownOps(d)' : x.hlc = hlc => x = op
      BY <1>4, <1>13, <1>15, <2>1, <2>2 DEF OpsAreEmitted, OpsAreOrdered
    <3> QED
      BY <1>4, <2>1, <2>2, <3>1 DEF Stamped
  <2>5. StampIsNewest(d)'
    <3>1. \A q \in docMerged'[d] : q.hlc <= hlc
      BY <1>2, <1>3, <1>4, <2>2, <2>3, OpHas
    <3> QED
      BY <1>4, <2>1, <2>4, <3>1 DEF StampIsNewest
  <2>6. TextIsKnown(d)'
    BY <1>4, <2>1, <2>4 DEF TextIsKnown
  <2>7. \A q \in docMerged[d] : Traced(d, q.text)'
    <3> SUFFICES ASSUME NEW q \in docMerged[d] PROVE Overtaken(d, q.text)'
      BY DEF Traced
    <3> QED
      BY <1>2, <1>4, <1>10, <2>2, <2>3 DEF Overtaken
  <2>8. Traced(d, op.text)'
    BY <1>4, <2>1 DEF Traced
  <2> QED
    BY <2>2, <2>4, <2>5, <2>6, <2>7, <2>8 DEF TextsAreTraced
<1>17. /\ doc'[d].state # "none" /\ doc'[d].text \in Text /\ \E p \in docMerged'[d] : p.kind = "create"
  <2>1. \E p \in docMerged[d] : p.kind = "create"
    BY DEF DocInv, NotesAreCreated
  <2> QED
    BY <1>5, <1>7, <1>8, <2>1
<1>18. \A c \in Rows(d)' : /\ c.resolved => c.decided \/ c.raced
                           /\ \E p \in docMerged'[d] :
                                p.kind # "delete" /\ p.hlc = c.stamp /\ p.text = c.remote
  <2> SUFFICES ASSUME NEW i \in DOMAIN conflicts[d]
               PROVE  \E p \in docMerged'[d] :
                        p.kind # "delete" /\ p.hlc = rows[i].stamp /\ p.text = rows[i].remote
    BY <1>9 DEF Rows
  <2>1. conflicts[d][i] \in Rows(d)
    BY DEF Rows
  <2>2. PICK p \in docMerged[d] : /\ p.kind # "delete" /\ p.hlc = conflicts[d][i].stamp
                                  /\ p.text = conflicts[d][i].remote
    BY <2>1 DEF DocInv, RowsHaveOps
  <2> QED
    BY <1>8, <2>2
<1>19. /\ sweep'[d].rows \subseteq DOMAIN conflicts'[d] /\ (~sweep'[d].running => sweep'[d].rows = {})
       /\ sweep'[d].running => \A i \in DOMAIN conflicts'[d] :
            \/ conflicts'[d][i].resolved \/ conflicts'[d][i].decided \/ conflicts'[d][i].raced
            \/ \E j \in sweep'[d].rows : conflicts'[d][j].stamp = conflicts'[d][i].stamp
  BY <1>9
<1>20. (behind => behind') /\ (cut => cut') /\ torn' = torn
  BY <1>1
<1> QED
  BY <1>7, <1>8, <1>9, <1>11, <1>13, <1>15, <1>16, <1>17, <1>18, <1>19, <1>20, OneReader

\* One conflict is resolved.
LEMMA ResolveStep ==
  ASSUME DocInv, NEW d \in Reader, NEW hlc \in Hlc, NEW text \in Text, NEW done \in 1 .. 4,
         Resolve(d, hlc, text, done)
  PROVE  DocInv'
<1>1. PICK c \in Rows(d) : conflicts' = [conflicts EXCEPT ![d] =
            Mark(Decide(d, {c.stamp}), IF done = 4 THEN {c.stamp} ELSE {})]
  BY DEF Resolve
<1>2. Apply(d, hlc, text, done) /\ sweep' = sweep /\ DocTypes
  BY DEF Resolve, DocInv
<1>3. PICK decided : decided = Decide(d, {c.stamp})
  OBVIOUS
<1>4. PICK stamps : stamps = IF done = 4 THEN {c.stamp} ELSE {}
  OBVIOUS
<1>5. PICK rows : rows = Mark(decided, stamps)
  OBVIOUS
<1>6. /\ decided \in Seq(Conflict) /\ DOMAIN decided = DOMAIN conflicts[d]
      /\ \A i \in DOMAIN conflicts[d] :
              /\ decided[i].remote = conflicts[d][i].remote
              /\ decided[i].stamp = conflicts[d][i].stamp /\ decided[i].raced = conflicts[d][i].raced
              /\ decided[i].resolved = conflicts[d][i].resolved
              /\ decided[i].decided <=> conflicts[d][i].decided \/ conflicts[d][i].stamp \in {c.stamp}
  BY <1>2, <1>3, DecidedOnly
<1>7. /\ rows \in Seq(Conflict) /\ DOMAIN rows = DOMAIN decided
      /\ \A i \in DOMAIN decided :
              /\ rows[i].remote = decided[i].remote
              /\ rows[i].stamp = decided[i].stamp /\ rows[i].raced = decided[i].raced
              /\ rows[i].decided = decided[i].decided
              /\ rows[i].resolved <=> decided[i].resolved \/ decided[i].stamp \in stamps
  BY <1>5, <1>6, FlagsOnly
<1>8. \A i \in DOMAIN conflicts[d] : conflicts[d][i].resolved => conflicts[d][i].decided \/ conflicts[d][i].raced
  BY DEF DocInv, ResolvedWasDecided, Rows
<1>9. /\ DOMAIN rows = DOMAIN conflicts[d]
      /\ \A i \in DOMAIN conflicts[d] :
           /\ rows[i].remote = conflicts[d][i].remote /\ rows[i].stamp = conflicts[d][i].stamp
           /\ rows[i].resolved => rows[i].decided \/ rows[i].raced
           /\ conflicts[d][i].resolved => rows[i].resolved
           /\ conflicts[d][i].decided => rows[i].decided
           /\ conflicts[d][i].raced => rows[i].raced
  BY <1>4, <1>6, <1>7, <1>8
<1>10. conflicts' = [conflicts EXCEPT ![d] = rows]
  BY <1>1, <1>3, <1>4, <1>5
<1>11. /\ sweep[d] \in [running : BOOLEAN, side : {"local", "remote"}, rows : SUBSET Nat]
       /\ sweep' = [sweep EXCEPT ![d] = sweep[d]]
  BY <1>2 DEF DocTypes
<1>12. /\ sweep[d].rows \subseteq DOMAIN conflicts[d] /\ (~sweep[d].running => sweep[d].rows = {})
       /\ sweep[d].running => \A i \in DOMAIN conflicts[d] :
            \/ rows[i].resolved \/ rows[i].decided \/ rows[i].raced
            \/ \E j \in sweep[d].rows : rows[j].stamp = rows[i].stamp
  <2>1. /\ sweep[d].rows \subseteq DOMAIN conflicts[d] /\ (~sweep[d].running => sweep[d].rows = {})
        /\ sweep[d].running => \A i \in DOMAIN conflicts[d] :
             \/ conflicts[d][i].resolved \/ conflicts[d][i].decided \/ conflicts[d][i].raced
             \/ \E j \in sweep[d].rows : conflicts[d][j].stamp = conflicts[d][i].stamp
    BY DEF DocInv, SweepCovers
  <2>2. ASSUME sweep[d].running, NEW i \in DOMAIN conflicts[d]
        PROVE  \/ rows[i].resolved \/ rows[i].decided \/ rows[i].raced
               \/ \E j \in sweep[d].rows : rows[j].stamp = rows[i].stamp
    <3>1. CASE conflicts[d][i].resolved \/ conflicts[d][i].decided \/ conflicts[d][i].raced
      BY <1>9, <3>1
    <3>2. CASE \E j \in sweep[d].rows : conflicts[d][j].stamp = conflicts[d][i].stamp
      BY <1>9, <2>1, <3>2
    <3> QED
      BY <2>1, <2>2, <3>1, <3>2
  <2> QED
    BY <2>1, <2>2
<1>13. doc[d].state # "none"
  <2>1. conflicts[d] # << >>
    BY <1>1 DEF Rows
  <2> QED
    BY <2>1 DEF DocInv, NotesAreCreated
<1> QED
  BY <1>2, <1>7, <1>9, <1>10, <1>11, <1>12, <1>13, AppliedStep

\* A resolve_all resolves the oldest conflict that it has still to apply.
LEMMA SweepApplyStep ==
  ASSUME DocInv, NEW d \in Reader, NEW hlc \in Hlc, NEW done \in 1 .. 3,
         SweepApply(d, hlc, done)
  PROVE  DocInv'
<1>1. PICK k \in sweep[d].rows :
         /\ Apply(d, hlc, conflicts[d][k][sweep[d].side], done)
         /\ conflicts' = [conflicts EXCEPT ![d] = Decide(d, {conflicts[d][k].stamp})]
         /\ sweep' = [sweep EXCEPT ![d] =
              IF done >= 3 THEN [running |-> TRUE, side |-> sweep[d].side, rows |-> sweep[d].rows \ {k}]
              ELSE NoSweep]
  BY DEF SweepApply
<1>2. PICK rows : rows = Decide(d, {conflicts[d][k].stamp})
  OBVIOUS
<1>3. PICK left : left = IF done >= 3
                         THEN [running |-> TRUE, side |-> sweep[d].side, rows |-> sweep[d].rows \ {k}]
                         ELSE NoSweep
  OBVIOUS
<1>4. /\ rows \in Seq(Conflict) /\ DOMAIN rows = DOMAIN conflicts[d]
      /\ \A i \in DOMAIN conflicts[d] :
              /\ rows[i].remote = conflicts[d][i].remote
              /\ rows[i].stamp = conflicts[d][i].stamp /\ rows[i].raced = conflicts[d][i].raced
              /\ rows[i].resolved = conflicts[d][i].resolved
              /\ rows[i].decided <=> conflicts[d][i].decided
                                     \/ conflicts[d][i].stamp \in {conflicts[d][k].stamp}
  BY <1>2, DecidedOnly DEF DocInv
<1>5. /\ sweep[d].rows \subseteq DOMAIN conflicts[d] /\ sweep[d].running
      /\ \A i \in DOMAIN conflicts[d] :
           \/ conflicts[d][i].resolved \/ conflicts[d][i].decided \/ conflicts[d][i].raced
           \/ \E j \in sweep[d].rows : conflicts[d][j].stamp = conflicts[d][i].stamp
  BY DEF DocInv, SweepCovers
<1>6. \A i \in DOMAIN conflicts[d] : rows[i].resolved => rows[i].decided \/ rows[i].raced
  <2>1. \A i \in DOMAIN conflicts[d] :
          conflicts[d][i].resolved => conflicts[d][i].decided \/ conflicts[d][i].raced
    BY DEF DocInv, ResolvedWasDecided, Rows
  <2> QED
    BY <1>4, <2>1
<1>7. /\ sweep[d] \in [running : BOOLEAN, side : {"local", "remote"}, rows : SUBSET Nat]
      /\ conflicts[d] \in Seq(Conflict)
  BY DEF DocInv, DocTypes
<1>8. conflicts[d][k][sweep[d].side] \in Text
  <2>1. conflicts[d][k] \in Conflict
    BY <1>5, <1>7
  <2>2. sweep[d].side = "local" \/ sweep[d].side = "remote"
    BY <1>7
  <2> QED
    BY <2>1, <2>2 DEF Conflict
<1>9. /\ left \in [running : BOOLEAN, side : {"local", "remote"}, rows : SUBSET Nat]
      /\ left.rows \subseteq DOMAIN conflicts[d] /\ (~left.running => left.rows = {})
      /\ left.running => left.rows = sweep[d].rows \ {k}
  BY <1>3, <1>5, <1>7 DEF NoSweep
<1>10. ASSUME left.running, NEW i \in DOMAIN conflicts[d]
       PROVE  \/ rows[i].resolved \/ rows[i].decided \/ rows[i].raced
              \/ \E j \in left.rows : rows[j].stamp = rows[i].stamp
  <2>1. CASE conflicts[d][i].resolved \/ conflicts[d][i].decided \/ conflicts[d][i].raced
    BY <1>4, <2>1
  <2>2. CASE \E j \in sweep[d].rows : conflicts[d][j].stamp = conflicts[d][i].stamp
    <3>1. PICK j \in sweep[d].rows : conflicts[d][j].stamp = conflicts[d][i].stamp
      BY <2>2
    <3>2. CASE j = k
      BY <1>4, <3>1, <3>2
    <3>3. CASE j # k
      BY <1>4, <1>5, <1>9, <1>10, <3>1, <3>3
    <3> QED
      BY <3>2, <3>3
  <2> QED
    BY <1>5, <2>1, <2>2
<1>11. doc[d].state # "none"
  <2>1. sweep[d].running
    BY <1>5
  <2> QED
    BY <2>1 DEF DocInv, NotesAreCreated
<1>12. /\ conflicts' = [conflicts EXCEPT ![d] = rows] /\ sweep' = [sweep EXCEPT ![d] = left]
       /\ Apply(d, hlc, conflicts[d][k][sweep[d].side], done) /\ done \in 1 .. 4
       /\ \A i \in DOMAIN conflicts[d] :
            /\ rows[i].remote = conflicts[d][i].remote /\ rows[i].stamp = conflicts[d][i].stamp
            /\ rows[i].resolved => rows[i].decided \/ rows[i].raced
  <2>1. conflicts' = [conflicts EXCEPT ![d] = rows] /\ sweep' = [sweep EXCEPT ![d] = left]
    BY <1>1, <1>2, <1>3
  <2>2. done \in 1 .. 4
    OBVIOUS
  <2> QED
    BY <1>1, <1>4, <1>6, <2>1, <2>2
<1> QED
  BY <1>4, <1>8, <1>9, <1>10, <1>11, <1>12, AppliedStep

\* A resolve_all begins with every open conflict.
LEMMA SweepBeginStep ==
  ASSUME DocInv, NEW d \in Reader, NEW side \in {"local", "remote"}, SweepBegin(d, side)
  PROVE  DocInv'
<1>1. /\ ~sweep[d].running /\ Open(d) # {}
      /\ sweep' = [sweep EXCEPT ![d] = [running |-> TRUE, side |-> side, rows |-> Open(d)]]
      /\ UNCHANGED <<docOps, doc, conflicts, docMerged, torn, behind, cut, resolutions>>
  BY DEF SweepBegin
<1>2. PICK left : left = [running |-> TRUE, side |-> side, rows |-> Open(d)]
  OBVIOUS
<1>3. /\ conflicts[d] \in Seq(Conflict)
      /\ sweep \in [Reader -> [running : BOOLEAN, side : {"local", "remote"}, rows : SUBSET Nat]]
  BY DEF DocInv, DocTypes
<1>4. Open(d) \subseteq DOMAIN conflicts[d] /\ DOMAIN conflicts[d] \subseteq Nat
  BY <1>3 DEF Open
<1>5. /\ left \in [running : BOOLEAN, side : {"local", "remote"}, rows : SUBSET Nat]
      /\ left.running /\ left.rows = Open(d)
  BY <1>2, <1>4
<1>6. /\ sweep' \in [Reader -> [running : BOOLEAN, side : {"local", "remote"}, rows : SUBSET Nat]]
      /\ sweep'[d] = left /\ \A e \in Reader \ {d} : sweep'[e] = sweep[e]
  BY <1>1, <1>2, <1>3, <1>5
<1>7. DocTypes'
  BY <1>1, <1>6 DEF DocInv, DocTypes
<1>8. \A e \in Reader : /\ KnownOps(e)' = KnownOps(e) /\ Pending(e)' = Pending(e) /\ Rows(e)' = Rows(e)
                        /\ Stamped(e)' = Stamped(e)
  BY <1>1 DEF KnownOps, Pending, Rows, Stamped
<1>9. OpsAreEmitted' /\ OpsAreOrdered' /\ RowsHaveOps' /\ ResolvedWasDecided'
  BY <1>1, <1>8 DEF DocInv, OpsAreEmitted, OpsAreOrdered, RowsHaveOps, ResolvedWasDecided
<1>10. conflicts[d] # << >>
  BY <1>1 DEF Open
<1>11. NotesAreCreated'
  BY <1>1, <1>6, <1>8, <1>10 DEF DocInv, NotesAreCreated
<1>12. SweepCovers'
  <2> SUFFICES ASSUME NEW e \in Reader
               PROVE  /\ sweep'[e].rows \subseteq DOMAIN conflicts[e]
                      /\ ~sweep'[e].running => sweep'[e].rows = {}
                      /\ sweep'[e].running => \A i \in DOMAIN conflicts[e] :
                           \/ conflicts[e][i].resolved \/ conflicts[e][i].decided \/ conflicts[e][i].raced
                           \/ \E j \in sweep'[e].rows : conflicts[e][j].stamp = conflicts[e][i].stamp
    BY <1>1 DEF SweepCovers
  <2>1. CASE e # d
    BY <1>6, <2>1 DEF DocInv, SweepCovers
  <2>2. CASE e = d
    BY <1>4, <1>5, <1>6, <2>2 DEF Open
  <2> QED
    BY <2>1, <2>2
<1>13. RowFollowsOps'
  BY <1>1, <1>8 DEF DocInv, RowFollowsOps, Steady, Live, StampIsNewest, TextIsKnown,
     TextsAreTraced, Traced, Overtaken
<1> QED
  BY <1>7, <1>9, <1>11, <1>12, <1>13 DEF DocInv

\* A resolve_all that has applied everything it read marks every open conflict: all
\* of them are decided, or were stored since it began.
LEMMA SweepMarkStep ==
  ASSUME DocInv, NEW d \in Reader, SweepMark(d)
  PROVE  DocInv'
<1>1. /\ sweep[d].running /\ sweep[d].rows = {}
      /\ conflicts' = [conflicts EXCEPT ![d] = Mark(conflicts[d], {c.stamp : c \in Rows(d)})]
      /\ sweep' = [sweep EXCEPT ![d] = NoSweep]
      /\ UNCHANGED <<docOps, doc, docMerged, torn, behind, cut, resolutions>>
  BY DEF SweepMark
<1>2. PICK stamps : stamps = {c.stamp : c \in Rows(d)}
  OBVIOUS
<1>3. PICK rows : rows = Mark(conflicts[d], stamps)
  OBVIOUS
<1>4. /\ conflicts \in [Reader -> Seq(Conflict)] /\ conflicts[d] \in Seq(Conflict)
      /\ sweep \in [Reader -> [running : BOOLEAN, side : {"local", "remote"}, rows : SUBSET Nat]]
  BY DEF DocInv, DocTypes
<1>5. /\ rows \in Seq(Conflict) /\ DOMAIN rows = DOMAIN conflicts[d]
      /\ \A i \in DOMAIN conflicts[d] :
              /\ rows[i].local = conflicts[d][i].local /\ rows[i].remote = conflicts[d][i].remote
              /\ rows[i].stamp = conflicts[d][i].stamp /\ rows[i].raced = conflicts[d][i].raced
              /\ rows[i].decided = conflicts[d][i].decided
  BY <1>3, <1>4, FlagsOnly
<1>6. /\ conflicts' \in [Reader -> Seq(Conflict)] /\ conflicts'[d] = rows
      /\ \A e \in Reader \ {d} : conflicts'[e] = conflicts[e]
  BY <1>1, <1>2, <1>3, <1>4, <1>5
<1>7. NoSweep \in [running : BOOLEAN, side : {"local", "remote"}, rows : SUBSET Nat]
  BY DEF NoSweep
<1>8. /\ sweep' \in [Reader -> [running : BOOLEAN, side : {"local", "remote"}, rows : SUBSET Nat]]
      /\ ~sweep'[d].running /\ sweep'[d].rows = {}
      /\ \A e \in Reader \ {d} : sweep'[e] = sweep[e]
  BY <1>1, <1>4, <1>7 DEF NoSweep
<1>9. DocTypes'
  BY <1>1, <1>6, <1>8 DEF DocInv, DocTypes
<1>10. KnownOps(d)' = KnownOps(d) /\ Pending(d)' = Pending(d) /\ Stamped(d)' = Stamped(d)
  BY <1>1 DEF KnownOps, Pending, Stamped
<1>11. OpsAreEmitted' /\ OpsAreOrdered'
  BY <1>1 DEF DocInv, OpsAreEmitted, OpsAreOrdered, KnownOps, Pending
<1>12. \A c \in Rows(d)' : /\ \E p \in docMerged'[d] :
                                p.kind # "delete" /\ p.hlc = c.stamp /\ p.text = c.remote
                           /\ c.resolved => c.decided \/ c.raced
  <2> SUFFICES ASSUME NEW i \in DOMAIN conflicts[d]
               PROVE  /\ \E p \in docMerged[d] :
                           p.kind # "delete" /\ p.hlc = rows[i].stamp /\ p.text = rows[i].remote
                      /\ rows[i].resolved => rows[i].decided \/ rows[i].raced
    BY <1>1, <1>5, <1>6 DEF Rows
  <2>1. conflicts[d][i] \in Rows(d)
    BY DEF Rows
  <2>2. PICK p \in docMerged[d] : /\ p.kind # "delete" /\ p.hlc = conflicts[d][i].stamp
                                  /\ p.text = conflicts[d][i].remote
    BY <2>1 DEF DocInv, RowsHaveOps
  <2>3. conflicts[d][i].resolved \/ conflicts[d][i].decided \/ conflicts[d][i].raced
    BY <1>1 DEF DocInv, SweepCovers
  <2>4. conflicts[d][i].decided \/ conflicts[d][i].raced
    BY <2>1, <2>3 DEF DocInv, ResolvedWasDecided
  <2> QED
    BY <1>5, <2>2, <2>4
<1>13. ASSUME Steady(d)'
       PROVE  StampIsNewest(d)' /\ TextIsKnown(d)' /\ TextsAreTraced(d)'
  <2>1. StampIsNewest(d) /\ TextIsKnown(d) /\ TextsAreTraced(d)
    BY <1>1, <1>13 DEF Steady, Live, DocInv, RowFollowsOps
  <2>2. StampIsNewest(d)' /\ TextIsKnown(d)'
    BY <1>1, <1>10, <2>1 DEF StampIsNewest, TextIsKnown
  <2>3. \A text : (\E c \in Rows(d) : text \in {c.local, c.remote})
                    => \E c \in Rows(d)' : text \in {c.local, c.remote}
    <3> SUFFICES ASSUME NEW text, NEW i \in DOMAIN conflicts[d],
                        text \in {conflicts[d][i].local, conflicts[d][i].remote}
                 PROVE  \E c \in Rows(d)' : text \in {c.local, c.remote}
      BY DEF Rows
    <3>1. rows[i] \in Rows(d)'
      BY <1>5, <1>6 DEF Rows
    <3> QED
      BY <1>5, <3>1
  <2>4. \A text : Traced(d, text) => Traced(d, text)'
    BY <1>1, <1>10, <2>3 DEF Traced, Overtaken
  <2> QED
    BY <1>1, <1>10, <2>1, <2>2, <2>4 DEF TextsAreTraced
<1>14. IF doc'[d].state = "none"
       THEN KnownOps(d)' = {} /\ conflicts'[d] = << >> /\ ~sweep'[d].running
       ELSE doc'[d].text \in Text /\ \E o \in docMerged'[d] : o.kind = "create"
  <2>1. doc[d].state # "none"
    BY <1>1 DEF DocInv, NotesAreCreated
  <2> QED
    BY <1>1, <2>1 DEF DocInv, NotesAreCreated
<1>15. \A e \in Reader \ {d} : /\ doc'[e] = doc[e] /\ docMerged'[e] = docMerged[e]
                               /\ torn'[e] = torn[e]
  BY <1>1
<1>16. (behind => behind') /\ (cut => cut')
  BY <1>1
<1>17. sweep'[d].rows \subseteq DOMAIN conflicts'[d]
  BY <1>8
<1> QED
  BY <1>6, <1>8, <1>9, <1>11, <1>12, <1>13, <1>14, <1>15, <1>16, <1>17, OneReader

\* A resolve_all that dies leaves the rest open.
LEMMA SweepDiesStep ==
  ASSUME DocInv, NEW d \in Reader, SweepDies(d)
  PROVE  DocInv'
<1>1. /\ sweep[d].running /\ sweep' = [sweep EXCEPT ![d] = NoSweep]
      /\ UNCHANGED <<docOps, doc, conflicts, docMerged, torn, behind, cut, resolutions>>
  BY DEF SweepDies
<1>2. NoSweep \in [running : BOOLEAN, side : {"local", "remote"}, rows : SUBSET Nat]
  BY DEF NoSweep
<1>3. /\ sweep' \in [Reader -> [running : BOOLEAN, side : {"local", "remote"}, rows : SUBSET Nat]]
      /\ ~sweep'[d].running /\ sweep'[d].rows = {}
      /\ \A e \in Reader \ {d} : sweep'[e] = sweep[e]
  BY <1>1, <1>2 DEF NoSweep, DocInv, DocTypes
<1>4. \A e \in Reader : /\ KnownOps(e)' = KnownOps(e) /\ Pending(e)' = Pending(e) /\ Rows(e)' = Rows(e)
                        /\ Stamped(e)' = Stamped(e)
  BY <1>1 DEF KnownOps, Pending, Rows, Stamped
<1>5. DocTypes' /\ OpsAreEmitted' /\ OpsAreOrdered' /\ RowsHaveOps' /\ ResolvedWasDecided'
  BY <1>1, <1>3, <1>4 DEF DocInv, DocTypes, OpsAreEmitted, OpsAreOrdered, RowsHaveOps, ResolvedWasDecided
<1>6. NotesAreCreated' /\ SweepCovers'
  BY <1>1, <1>3, <1>4 DEF DocInv, NotesAreCreated, SweepCovers
<1>7. RowFollowsOps'
  BY <1>1, <1>4 DEF DocInv, RowFollowsOps, Steady, Live, StampIsNewest, TextIsKnown,
     TextsAreTraced, Traced, Overtaken
<1> QED
  BY <1>5, <1>6, <1>7 DEF DocInv

\* Every step of the program and of the editors preserves the invariant.
LEMMA DocNextInv == DocInv /\ [DocNext]_docVars => DocInv'
<1> SUFFICES ASSUME DocInv, [DocNext]_docVars PROVE DocInv'
  OBVIOUS
<1>1. CASE \E o \in DocOp : Edit(o)
  BY <1>1, EditStep
<1>2. CASE \E d \in Reader : \E o \in docOps : MergeDoc(d, o) \/ \E done \in 1 .. 2 : MergeDies(d, o, done)
  BY <1>2, MergeStep, MergeDiesStep
<1>3. CASE \E d \in Reader : \E hlc \in Hlc, text \in Text, done \in 1 .. 4 : Resolve(d, hlc, text, done)
  BY <1>3, ResolveStep
<1>4. CASE \E d \in Reader : \E hlc \in Hlc, done \in 1 .. 3 : SweepApply(d, hlc, done)
  BY <1>4, SweepApplyStep
<1>5. CASE \E d \in Reader : \/ \E side \in {"local", "remote"} : SweepBegin(d, side)
                             \/ SweepMark(d) \/ SweepDies(d)
  BY <1>5, SweepBeginStep, SweepMarkStep, SweepDiesStep
<1>6. CASE UNCHANGED docVars
  <2>1. UNCHANGED <<docOps, doc, conflicts, sweep, docMerged, torn, behind, cut, resolutions>>
    BY <1>6 DEF docVars
  <2>2. \A e \in Reader : /\ KnownOps(e)' = KnownOps(e) /\ Pending(e)' = Pending(e) /\ Rows(e)' = Rows(e)
                          /\ Stamped(e)' = Stamped(e)
    BY <2>1 DEF KnownOps, Pending, Rows, Stamped
  <2>3. DocTypes' /\ OpsAreEmitted' /\ OpsAreOrdered' /\ RowsHaveOps' /\ ResolvedWasDecided'
    BY <2>1, <2>2 DEF DocInv, DocTypes, OpsAreEmitted, OpsAreOrdered, RowsHaveOps, ResolvedWasDecided
  <2>4. NotesAreCreated' /\ SweepCovers'
    BY <2>1, <2>2 DEF DocInv, NotesAreCreated, SweepCovers
  <2>5. RowFollowsOps'
    BY <2>1, <2>2 DEF DocInv, RowFollowsOps, Steady, Live, StampIsNewest, TextIsKnown,
       TextsAreTraced, Traced, Overtaken
  <2> QED
    BY <2>3, <2>4, <2>5 DEF DocInv
<1> QED
  BY <1>1, <1>2, <1>3, <1>4, <1>5, <1>6 DEF DocNext

(***************************************************************************)
(* DocInv is an invariant of the notes.                                    *)
(***************************************************************************)
THEOREM DocumentInvariant == DocSpec => []DocInv
<1>1. DocInit => DocInv
  BY DocInitInv
<1>2. DocInv /\ [DocNext]_docVars => DocInv'
  BY DocNextInv
<1> QED
  BY <1>1, <1>2, PTL DEF DocSpec

\* Once every merge that died has been repeated, no op is half known.
LEMMA SettledHas ==
  ASSUME DocInv, NEW d \in Reader, Settled(d), Live(d)
  PROVE  /\ KnownOps(d) = docMerged[d] /\ Pending(d) = {} /\ Steady(d)
         /\ StampIsNewest(d) /\ TextIsKnown(d) /\ TextsAreTraced(d)
         /\ \A p, q \in docMerged[d] : /\ p.hlc = q.hlc => p = q
                                       /\ p.kind = "create" /\ q # p => p.hlc < q.hlc
<1>1. KnownOps(d) = docMerged[d] /\ Pending(d) = {} /\ Steady(d)
  BY DEF Settled, KnownOps, Pending, Steady
<1>2. docMerged[d] \subseteq docOps
  BY <1>1 DEF DocInv, OpsAreEmitted
<1> QED
  BY <1>1, <1>2 DEF DocInv, RowFollowsOps, OpsAreOrdered, Settled

(***************************************************************************)
(* merge_note: a note whose merges are complete has the text of the newest *)
(* op its device has merged, whatever the order and the repetitions, and   *)
(* however many merges have died in between.                               *)
(***************************************************************************)
THEOREM DocumentFollowsNewest == DocSpec => []DocumentIsNewest
<1>1. DocInv => DocumentIsNewest
  <2> SUFFICES ASSUME DocInv, NEW d \in Reader, Settled(d), Live(d),
                      NEW o \in Newest({q \in docMerged[d] : q.kind # "delete"})
               PROVE  doc[d].text = o.text
    BY DEF DocumentIsNewest
  <2>1. /\ o \in docMerged[d] /\ o.kind # "delete"
        /\ \A q \in docMerged[d] : q.kind # "delete" => q.hlc <= o.hlc
    BY DEF Newest
  <2>2. /\ doc[d].stamp \in Nat /\ docMerged[d] \subseteq DocOp
        /\ \A q \in docMerged[d] : q.hlc \in Nat /\ q.hlc # 0
    BY RowHas, OpHas DEF DocInv
  <2>3. CASE doc[d].stamp = 0
    <3>1. \A q \in docMerged[d] : q.kind # "delete" => q.kind = "create"
      BY <2>2, <2>3, SettledHas DEF StampIsNewest
    <3>2. PICK p \in docMerged[d] : p.kind = "create" /\ p.text = doc[d].text
      BY <2>2, <2>3, SettledHas DEF TextIsKnown, Stamped
    <3>3. o = p
      BY <2>1, <2>2, <3>1, <3>2, SettledHas
    <3> QED
      BY <3>2, <3>3
  <2>4. CASE doc[d].stamp # 0
    <3>1. PICK s \in Stamped(d) : s.text = doc[d].text
      BY <2>4, SettledHas DEF TextIsKnown
    <3>2. s \in docMerged[d] /\ s.hlc = doc[d].stamp /\ s.kind # "delete"
      BY <3>1, SettledHas DEF Stamped
    <3>3. o.hlc <= doc[d].stamp
      BY <2>1, <2>4, SettledHas DEF StampIsNewest
    <3>4. s.hlc <= o.hlc
      BY <2>1, <3>2
    <3>5. s.hlc = o.hlc
      BY <2>1, <2>2, <3>2, <3>3, <3>4
    <3> QED
      BY <2>1, <3>1, <3>2, <3>5, SettledHas
  <2> QED
    BY <2>3, <2>4
<1> QED
  BY <1>1, DocumentInvariant, PTL

(***************************************************************************)
(* store_conflict and resolve_all_conflicts: no text that another device   *)
(* has written is lost without a trace, and no conflict is closed that     *)
(* nobody decided, but for one that was stored while a resolve_all ran.    *)
(***************************************************************************)
THEOREM ConflictsStay == DocSpec => []ConflictsAreKept
<1>1. DocInv => ConflictsAreKept
  <2> SUFFICES ASSUME DocInv, NEW d \in Reader, Settled(d), Live(d),
                      NEW o \in docMerged[d], o.kind = "update"
               PROVE  \/ doc[d].text = o.text \/ Superseded(d, o)
                      \/ \E c \in Rows(d) : o.text \in {c.local, c.remote}
                      \/ \E t \in torn[d] : t.lost = o.text
    BY DEF ConflictsAreKept, BothVersionsStored, DocInv
  <2>1. Traced(d, o.text) /\ Pending(d) = {} /\ KnownOps(d) = docMerged[d]
    BY SettledHas DEF TextsAreTraced
  <2>2. Overtaken(d, o.text) => Superseded(d, o)
    BY <2>1 DEF Overtaken, Superseded
  <2> QED
    BY <2>1, <2>2 DEF Traced
<1> QED
  BY <1>1, DocumentInvariant, PTL

(***************************************************************************)
(* merge_note_update: an op that was merged before changes no text when it *)
(* comes again.                                                            *)
(***************************************************************************)
THEOREM ReplayIsQuiet == DocSpec => ReplayKeepsText
<1>1. DocInv /\ [DocNext]_docVars =>
        [\A d \in Reader : Settled(d) /\ doc'[d].text # doc[d].text =>
           \A o \in docMerged[d] : ~MergeDoc(d, o)]_docVars
  <2> SUFFICES ASSUME DocInv, NEW d \in Reader, Settled(d), NEW o \in docMerged[d], MergeDoc(d, o)
               PROVE  doc'[d].text = doc[d].text
    OBVIOUS
  <2>1. /\ doc \in [Reader -> DocRow] /\ doc[d].stamp \in Nat /\ o.hlc \in Nat /\ o.hlc # 0
        /\ o \in KnownOps(d)
    BY RowHas, OpHas DEF DocInv, DocTypes
  <2>2. CASE MergeNew(d, o)
    BY <2>1, <2>2 DEF MergeNew, DocInv, NotesAreCreated
  <2>3. CASE MergeNewer(d, o)
    <3>1. o.kind # "delete" /\ Live(d) /\ o.hlc > doc[d].stamp
      BY <2>3 DEF MergeNewer
    <3>2. doc[d].stamp = 0 /\ o.kind = "create"
      BY <2>1, <3>1, SettledHas DEF StampIsNewest
    <3>3. PICK p \in docMerged[d] : p.kind = "create" /\ p.text = doc[d].text
      <4>1. \A s \in Stamped(d) : FALSE
        <5>1. \A s \in docMerged[d] : s.hlc # 0
          BY RowHas, OpHas DEF DocInv
        <5> QED
          BY <3>1, <3>2, <5>1, SettledHas DEF Stamped
      <4> QED
        BY <3>1, <4>1, SettledHas DEF TextIsKnown
    <3>4. o = p
      <4>1. o \in docOps /\ p \in docOps
        BY <3>1, <3>3, SettledHas DEF DocInv, OpsAreEmitted
      <4> QED
        BY <3>2, <3>3, <4>1 DEF DocInv, OpsAreEmitted
    <3>5. doc'[d].text = o.text
      BY <2>1, <2>3 DEF MergeNewer
    <3> QED
      BY <3>3, <3>4, <3>5
  <2>4. CASE MergeOlder(d, o)
    BY <2>4 DEF MergeOlder
  <2>5. CASE MergeGone(d, o)
    BY <2>1, <2>5 DEF MergeGone
  <2> QED
    BY <2>2, <2>3, <2>4, <2>5 DEF MergeDoc
<1> QED
  BY <1>1, DocumentInvariant, PTL DEF DocSpec, ReplayKeepsText

-----------------------------------------------------------------------------
(* DatabaseFile: the inductive invariant, in parts. *)

FileTypes ==
  /\ at \in [Name -> 0 .. files] /\ files \in Key
  /\ content \in [File -> [rows : SUBSET Record, key : Key]]
  /\ dbKey \in Key /\ holder \in 0 .. files /\ editor \subseteq Key
  /\ conv \in [phase : {"idle", "begun", "copied", "moved", "installed"}, from : Key, to : Key]
  /\ written \subseteq Record /\ stray \subseteq written
  /\ mishaps \subseteq {"again", "held", "overlap", "torn", "halfway", "unsaved"}

\* What is promised at all, and what is promised of a name.
Sound == mishaps \cap ({"again", "held"} \cup Ruinous) = {}
Promised == written \ stray
Under(n, k) == at[n] # 0 /\ content[at[n]].key = k
Has(n) == at[n] # 0 /\ Promised \subseteq content[at[n]].rows
Backups == {"plaintext", "encrypted"}

\* A conversion has a library to convert until it has moved it.
HasItsName == conv.phase \in {"begun", "copied"} => at["db"] # 0

\* A conversion knows the key of the config, and goes from plaintext or to it.
KnowsTheKey ==
  /\ conv.phase = "idle" => conv = Idle
  /\ conv.phase # "idle" => conv.from = dbKey /\ (conv.from = 0 <=> conv.to # 0)

\* After a conversion that died past its first rename, none gets far.
NoneGetsFar ==
  /\ "halfway" \in mishaps => conv.phase = "idle" /\ "unsaved" \notin mishaps
  /\ "unsaved" \in mishaps => conv.phase \in {"idle", "begun"} /\ holder = 0

\* Where the library is while it has its name.
InPlace ==
  conv.phase \in {"idle", "begun", "copied"} /\ mishaps \cap {"halfway", "unsaved"} = {} =>
    \/ conv.phase = "idle" /\ at["db"] = 0 /\ written = {} /\ holder = 0
    \/ Has("db") /\ Under("db", dbKey)

\* Where it is on the way to its new key.
OnTheWay ==
  /\ conv.phase \in {"copied", "moved"} => Has(Copy) /\ Under(Copy, conv.to)
  /\ conv.phase \in {"moved", "installed"} => Has(Backup) /\ Under(Backup, dbKey)
  /\ conv.phase = "moved" => at["db"] = 0 \/ Under("db", dbKey)
  /\ conv.phase = "installed" => Has("db") /\ Under("db", conv.to) /\ holder = 0

\* And after a conversion that died.
LeftBehind ==
  /\ "halfway" \in mishaps =>
       /\ at["db"] = 0 \/ Under("db", dbKey)
       /\ \E n \in Backups :
            /\ Under(n, dbKey)
            /\ \A r \in Promised : \/ r \in content[at[n]].rows
                                   \/ at["db"] # 0 /\ r \in content[at["db"]].rows
  /\ "unsaved" \in mishaps =>
       /\ at["db"] # 0 /\ ~Under("db", dbKey)
       /\ \E n \in {"db"} \cup Backups : Has(n) /\ Readable(n)

FileSound == KnowsTheKey /\ NoneGetsFar /\ InPlace /\ OnTheWay /\ LeftBehind
FileInv == FileTypes /\ HasItsName /\ (Sound => FileSound)


\* Initially there is no file.
LEMMA FileInitInv == FileInit => FileInv
<1> SUFFICES ASSUME FileInit PROVE FileInv
  OBVIOUS
<1>1. FileTypes
  BY FileAssumption DEF FileInit, FileTypes, Key, File, Idle
<1>2. /\ at["db"] = 0 /\ written = {} /\ holder = 0 /\ mishaps = {}
      /\ conv = Idle /\ conv.phase = "idle"
  BY DEF FileInit, Name, Idle
<1>3. FileSound
  BY <1>2 DEF FileSound, KnowsTheKey, NoneGetsFar, InPlace, OnTheWay, LeftBehind
<1> QED
  BY <1>1, <1>2, <1>3 DEF FileInv, HasItsName

\* A new file: the others are as they were.
LEMMA CreateAdds ==
  ASSUME FileTypes, NEW n \in Name, NEW rows \in SUBSET Record, NEW k \in Key, Create(n, rows, k)
  PROVE  /\ files + 1 \in File /\ files' = files + 1 /\ files' \in Key
         /\ at' \in [Name -> 0 .. files'] /\ at'[n] = files + 1
         /\ \A m \in Name \ {n} : at'[m] = at[m]
         /\ content' \in [File -> [rows : SUBSET Record, key : Key]]
         /\ content'[files + 1].rows = rows /\ content'[files + 1].key = k
         /\ \A m \in Name : at[m] # 0 => content'[at[m]] = content[at[m]]
<1>1. /\ files \in Nat /\ files < MaxFiles /\ files' = files + 1
      /\ at' = [at EXCEPT ![n] = files + 1]
      /\ content' = [content EXCEPT ![files + 1] = [rows |-> rows, key |-> k]]
  BY FileAssumption DEF Create, FileTypes, Key
<1>2. files + 1 \in File /\ files' \in Key
  BY <1>1, FileAssumption DEF File, Key
<1>3. \A m \in Name : at[m] \in 0 .. files /\ at[m] # files + 1
  BY <1>1 DEF FileTypes
<1>4. at' \in [Name -> 0 .. files']
  BY <1>1, <1>3 DEF FileTypes
<1>5. \A m \in Name : at[m] # 0 => content'[at[m]] = content[at[m]]
  BY <1>1, <1>3 DEF FileTypes
<1> QED
  BY <1>1, <1>2, <1>4, <1>5 DEF FileTypes

\* A row that goes to the file f: its key stays, and so does every other file.
LEMMA RowAdds ==
  ASSUME FileTypes, NEW f \in File, NEW r \in Record,
         content' = [content EXCEPT ![f].rows = content[f].rows \cup {r}]
  PROVE  /\ content' \in [File -> [rows : SUBSET Record, key : Key]]
         /\ r \in content'[f].rows
         /\ \A g \in File : content[g].rows \subseteq content'[g].rows
                            /\ content'[g].key = content[g].key
BY DEF FileTypes

\* A name that has a file has one that was created.
LEMMA NamesAFile ==
  ASSUME FileTypes, NEW n \in Name, at[n] # 0
  PROVE  at[n] \in File
BY FileAssumption DEF FileTypes, File, Key

\* What a commit promises: the row is in the library, or nothing more.
LEMMA CommitPromises ==
  ASSUME FileTypes, NEW f \in File, NEW r \in Record, Commit(f, r)
  PROVE  /\ written' \subseteq Record /\ stray' \subseteq written'
         /\ Promised' \subseteq Promised \cup {r}
         /\ Converting \/ f # at'["db"] => Promised' = Promised
BY DEF Commit, Promised, FileTypes

\* The names are five, and no two the same.
LEMMA NamesDiffer ==
  /\ "db" \in Name /\ Copy \in Name /\ Backup \in Name /\ Backups \subseteq Name
  /\ Copy \notin {"db"} \cup Backups /\ Backup \in Backups /\ "db" \notin Backups
BY DEF Name, Copy, Backup, Backups

\* Every step keeps the types.
LEMMA FileTypesStep ==
  ASSUME FileTypes, HasItsName, FileNext
  PROVE  FileTypes' /\ HasItsName'
<1>1. 0 \in Key /\ 0 \in 0 .. files /\ Idle \in [phase : {"idle", "begun", "copied", "moved", "installed"}, from : Key, to : Key]
  BY FileAssumption DEF FileTypes, Key, Idle
<1>2. ASSUME NEW r \in Record, Write(r) PROVE FileTypes' /\ HasItsName'
  <2>1. UNCHANGED <<dbKey, conv, holder, editor, mishaps>> /\ Commit(at'["db"], r)
    BY <1>2 DEF Write
  <2>2. written' \subseteq Record /\ stray' \subseteq written'
    BY <2>1 DEF Commit, FileTypes
  <2>3. CASE at["db"] = 0 /\ Create("db", {r}, dbKey)
    <3>1. /\ files' = files + 1 /\ files' \in Key
          /\ at' \in [Name -> 0 .. files'] /\ at'["db"] = files + 1
          /\ content' \in [File -> [rows : SUBSET Record, key : Key]]
      BY <2>3, CreateAdds, NamesDiffer DEF FileTypes
    <3>2. holder \in 0 .. files' /\ at'["db"] # 0
      BY <3>1 DEF FileTypes, Key
    <3> QED
      BY <2>1, <2>2, <3>1, <3>2 DEF FileTypes, HasItsName
  <2>4. CASE /\ at["db"] # 0 /\ UNCHANGED <<at, files>>
             /\ content' = [content EXCEPT ![at["db"]].rows = content[at["db"]].rows \cup {r}]
    <3>1. content' \in [File -> [rows : SUBSET Record, key : Key]]
      BY <2>4, NamesAFile, NamesDiffer, RowAdds
    <3> QED
      BY <2>1, <2>2, <2>4, <3>1 DEF FileTypes, HasItsName
  <2> QED
    BY <1>2, <2>3, <2>4 DEF Write
<1>3. ASSUME NEW r \in Record, HolderWrites(r) PROVE FileTypes' /\ HasItsName'
  <2>1. /\ UNCHANGED <<at, files, dbKey, conv, holder, editor, mishaps>> /\ Commit(holder, r)
        /\ content' = [content EXCEPT ![holder].rows = content[holder].rows \cup {r}] /\ holder # 0
    BY <1>3 DEF HolderWrites
  <2>2. holder \in File
    BY <2>1, FileAssumption DEF FileTypes, File, Key
  <2>3. content' \in [File -> [rows : SUBSET Record, key : Key]]
    BY <2>1, <2>2, RowAdds
  <2>4. written' \subseteq Record /\ stray' \subseteq written'
    BY <2>1 DEF Commit, FileTypes
  <2> QED
    BY <2>1, <2>3, <2>4 DEF FileTypes, HasItsName
<1>4. CASE HolderOpens \/ HolderCloses
  <2>1. at["db"] \in 0 .. files
    BY NamesDiffer DEF FileTypes
  <2> QED
    BY <1>1, <1>4, <2>1 DEF HolderOpens, HolderCloses, FileTypes, HasItsName
<1>5. CASE EditorLoads \/ EditorSaves \/ EditorDies
  BY <1>1, <1>5 DEF EditorLoads, EditorSaves, EditorDies, FileTypes, HasItsName
<1>6. CASE ConvertBegin
  <2>1. IF dbKey = 0 THEN files + 1 \in Key ELSE 0 \in Key
    BY <1>1, <1>6, FileAssumption DEF ConvertBegin, FileTypes, Key
  <2> QED
    BY <1>6, <2>1 DEF ConvertBegin, FileTypes, HasItsName
<1>7. CASE ConvertCopy
  <2>1. /\ conv.phase = "begun" /\ conv' = [conv EXCEPT !.phase = "copied"]
        /\ Create(Copy, content[at["db"]].rows, conv.to)
        /\ UNCHANGED <<dbKey, holder, editor, written, stray, mishaps>>
    BY <1>7 DEF ConvertCopy
  <2>2. at["db"] \in File /\ at["db"] # 0 /\ conv.to \in Key
    BY <2>1, NamesAFile, NamesDiffer DEF HasItsName, FileTypes
  <2>3. PICK rows \in SUBSET Record : rows = content[at["db"]].rows
    BY <2>2 DEF FileTypes
  <2>4. /\ files' = files + 1 /\ files' \in Key
        /\ at' \in [Name -> 0 .. files'] /\ \A m \in Name \ {Copy} : at'[m] = at[m]
        /\ content' \in [File -> [rows : SUBSET Record, key : Key]]
    BY <2>1, <2>2, <2>3, CreateAdds, NamesDiffer
  <2>5. holder \in 0 .. files' /\ at'["db"] = at["db"]
    BY <2>4, NamesDiffer DEF FileTypes, Key
  <2> QED
    BY <2>1, <2>2, <2>4, <2>5 DEF FileTypes, HasItsName
<1>8. CASE ConvertRefused \/ ConvertSave \/ ConvertDies
  <2>1. conv' = Idle /\ conv'.phase = "idle"
    BY <1>8 DEF ConvertRefused, ConvertSave, ConvertDies, Idle
  <2>2. mishaps' \subseteq mishaps \cup {"overlap", "halfway", "unsaved"}
    BY <1>8 DEF ConvertRefused, ConvertSave, ConvertDies
  <2>3. at' \in [Name -> 0 .. files] /\ dbKey' \in Key
    BY <1>1, <1>8 DEF ConvertRefused, ConvertSave, ConvertDies, FileTypes
  <2>4. UNCHANGED <<content, files, holder, editor, written, stray>>
    BY <1>8 DEF ConvertRefused, ConvertSave, ConvertDies
  <2> QED
    BY <1>1, <2>1, <2>2, <2>3, <2>4 DEF FileTypes, HasItsName
<1>9. CASE ConvertBackup \/ ConvertRollback
  BY <1>1, <1>9, NamesDiffer DEF ConvertBackup, ConvertRollback, FileTypes, HasItsName, Idle
<1>10. CASE ConvertInstall
  <2>1. content' \in [File -> [rows : SUBSET Record, key : Key]]
    <3>1. ASSUME content' = [content EXCEPT ![at[Copy]].rows = {}]
          PROVE  content' \in [File -> [rows : SUBSET Record, key : Key]]
      BY <3>1 DEF FileTypes
    <3> QED
      BY <1>10, <3>1 DEF ConvertInstall, FileTypes
  <2> QED
    BY <1>1, <1>10, <2>1, NamesDiffer DEF ConvertInstall, FileTypes, HasItsName
<1>11. ASSUME NEW n \in Name, DeleteBackup(n) PROVE FileTypes' /\ HasItsName'
  BY <1>1, <1>11 DEF DeleteBackup, FileTypes, HasItsName, Idle
<1> QED
  BY <1>2, <1>3, <1>4, <1>5, <1>6, <1>7, <1>8, <1>9, <1>10, <1>11 DEF FileNext

\* Steps after which every file has at least the rows that are promised, and the
\* key, that it had: names, keys and the conversion as they were.
LEMMA NothingMoves ==
  ASSUME FileTypes, FileSound, UNCHANGED <<at, dbKey, conv, mishaps>>,
         Promised' \subseteq Promised,
         \A n \in Name : at[n] # 0 => /\ content[at[n]].rows \subseteq content'[at[n]].rows
                                      /\ content'[at[n]].key = content[at[n]].key,
         at["db"] = 0 /\ holder = 0 => UNCHANGED written,
         \/ holder' \in {holder, 0}
         \/ conv.phase # "installed" /\ "unsaved" \notin mishaps /\ at["db"] # 0
  PROVE  FileSound'
<1>1. \A n \in Name, k \in Key : Under(n, k)' <=> Under(n, k)
  BY DEF Under
<1>2. \A n \in Name : Has(n) => Has(n)'
  BY DEF Has
<1>3. \A n \in Name : Readable(n) => Readable(n)'
  BY DEF Readable
<1>4. dbKey \in Key /\ conv.to \in Key /\ Copy' = Copy /\ Backup' = Backup
  BY DEF FileTypes, Copy, Backup
<1>5. KnowsTheKey' /\ NoneGetsFar'
  BY DEF FileSound, KnowsTheKey, NoneGetsFar
<1>6. InPlace'
  BY <1>1, <1>2, <1>4, NamesDiffer DEF FileSound, InPlace
<1>7. OnTheWay'
  BY <1>1, <1>2, <1>4, NamesDiffer DEF FileSound, OnTheWay
<1>8. LeftBehind'
  <2>1. ASSUME "halfway" \in mishaps
        PROVE  /\ at["db"] = 0 \/ Under("db", dbKey)'
               /\ \E n \in Backups :
                    /\ Under(n, dbKey)'
                    /\ \A r \in Promised' : \/ r \in content'[at[n]].rows
                                            \/ at["db"] # 0 /\ r \in content'[at["db"]].rows
    <3>1. at["db"] = 0 \/ Under("db", dbKey)'
      BY <1>1, <1>4, <2>1, NamesDiffer DEF FileSound, LeftBehind
    <3>2. PICK n \in Backups :
            /\ Under(n, dbKey)
            /\ \A r \in Promised : \/ r \in content[at[n]].rows
                                   \/ at["db"] # 0 /\ r \in content[at["db"]].rows
      BY <2>1 DEF FileSound, LeftBehind
    <3>3. Under(n, dbKey)' /\ at[n] # 0 /\ n \in Name
      BY <1>1, <1>4, <3>2, NamesDiffer DEF Under
    <3> QED
      BY <3>1, <3>2, <3>3, NamesDiffer
  <2>2. ASSUME "unsaved" \in mishaps
        PROVE  at["db"] # 0 /\ ~Under("db", dbKey)' /\ \E n \in {"db"} \cup Backups : Has(n)' /\ Readable(n)'
    BY <1>1, <1>2, <1>3, <1>4, <2>2, NamesDiffer DEF FileSound, LeftBehind
  <2> QED
    BY <2>1, <2>2 DEF LeftBehind
<1> QED
  BY <1>5, <1>6, <1>7, <1>8 DEF FileSound

\* A row that goes to a file that is there.
LEMMA RowKeeps ==
  ASSUME FileTypes, FileSound, NEW f \in File, NEW r \in Record, Commit(f, r),
         content' = [content EXCEPT ![f].rows = content[f].rows \cup {r}],
         UNCHANGED <<at, files, dbKey, conv, holder, editor, mishaps>>,
         conv.phase # "installed", "unsaved" \notin mishaps, holder # 0 \/ at["db"] # 0
  PROVE  FileSound'
<1>1. /\ content' \in [File -> [rows : SUBSET Record, key : Key]]
      /\ r \in content'[f].rows
      /\ \A g \in File : content[g].rows \subseteq content'[g].rows
                         /\ content'[g].key = content[g].key
  BY RowAdds
<1>2. /\ written' \subseteq Record /\ stray' \subseteq written'
      /\ Promised' \subseteq Promised \cup {r}
      /\ Converting \/ f # at["db"] => Promised' = Promised
  BY CommitPromises
<1>4. \A n \in Name : at[n] # 0 => /\ content[at[n]].rows \subseteq content'[at[n]].rows
                                   /\ content'[at[n]].key = content[at[n]].key
  BY <1>1, NamesAFile
<1>5. CASE Promised' \subseteq Promised
  BY <1>4, <1>5, NothingMoves
<1>6. CASE ~(Promised' \subseteq Promised)
  <2>1. ~Converting /\ conv.phase \in {"idle", "begun"} /\ f = at["db"] /\ at["db"] # 0
    <3>1. f # 0
      BY DEF File
    <3> QED
      BY <1>2, <1>6, <3>1 DEF Converting, FileTypes
  <2>2. Under("db", dbKey) => Under("db", dbKey)'
    BY <1>4, NamesDiffer DEF Under
  <2>3. Has("db") => Has("db")'
    BY <1>1, <1>2, <2>1 DEF Has
  <2>4. KnowsTheKey' /\ NoneGetsFar' /\ InPlace' /\ OnTheWay'
    BY <2>1, <2>2, <2>3 DEF FileSound, KnowsTheKey, NoneGetsFar, InPlace, OnTheWay
  <2>5. ASSUME "halfway" \in mishaps
        PROVE  \E n \in Backups :
                  /\ Under(n, dbKey)'
                  /\ \A s \in Promised' : \/ s \in content'[at[n]].rows
                                          \/ at["db"] # 0 /\ s \in content'[at["db"]].rows
    <3>1. PICK n \in Backups :
            /\ Under(n, dbKey)
            /\ \A s \in Promised : \/ s \in content[at[n]].rows
                                   \/ at["db"] # 0 /\ s \in content[at["db"]].rows
      BY <2>5 DEF FileSound, LeftBehind
    <3>2. n \in Name /\ at[n] # 0
      BY <3>1, NamesDiffer DEF Under
    <3>3. Under(n, dbKey)'
      BY <1>4, <3>1, <3>2 DEF Under
    <3> QED
      BY <1>1, <1>2, <1>4, <2>1, <3>1, <3>2, <3>3, NamesDiffer
  <2>6. LeftBehind'
    BY <2>1, <2>2, <2>5 DEF FileSound, LeftBehind
  <2> QED
    BY <2>4, <2>6 DEF FileSound
<1> QED
  BY <1>5, <1>6

(***************************************************************************)
(* The processes that write rows, and those that write the config.         *)
(***************************************************************************)

\* A row that is committed to the library under its name.
LEMMA WriteKeeps ==
  ASSUME FileTypes, Sound, FileSound, NEW r \in Record, Write(r)
  PROVE  FileSound'
<1>1. UNCHANGED <<dbKey, conv, holder, editor, mishaps>> /\ Commit(at'["db"], r)
  BY DEF Write
<1>2. CASE at["db"] = 0 /\ Create("db", {r}, dbKey)
  <2>1. /\ files + 1 \in File /\ files' = files + 1 /\ files' \in Key
        /\ at' \in [Name -> 0 .. files'] /\ at'["db"] = files + 1
        /\ \A m \in Name \ {"db"} : at'[m] = at[m]
        /\ content' \in [File -> [rows : SUBSET Record, key : Key]]
        /\ content'[files + 1].rows = {r} /\ content'[files + 1].key = dbKey
        /\ \A m \in Name : at[m] # 0 => content'[at[m]] = content[at[m]]
    BY <1>2, CreateAdds, NamesDiffer DEF FileTypes
  <2>2. /\ written' \subseteq Record /\ stray' \subseteq written'
        /\ Promised' \subseteq Promised \cup {r}
        /\ Converting => Promised' = Promised
    BY <1>1, <2>1, CommitPromises
  <2>4. files + 1 # 0
    BY DEF FileTypes, Key
  <2>5. Under("db", dbKey)' /\ r \in content'[at'["db"]].rows
    BY <1>1, <2>1, <2>4 DEF Under
  <2>6. \A n \in Name \ {"db"}, k \in Key : Under(n, k) => Under(n, k)'
    BY <2>1 DEF Under
  <2>7. /\ conv.phase \in {"idle", "moved"} /\ "unsaved" \notin mishaps
        /\ conv.phase = "idle" /\ "halfway" \notin mishaps => Promised = {}
    <3>1. ~Has("db")
      BY <1>2 DEF Has
    <3>2. "unsaved" \notin mishaps
      BY <1>2 DEF FileSound, LeftBehind
    <3>3. "halfway" \in mishaps => conv.phase = "idle"
      BY DEF FileSound, NoneGetsFar
    <3>4. "halfway" \notin mishaps /\ conv.phase \in {"idle", "begun", "copied"} =>
            conv.phase = "idle" /\ written = {}
      BY <3>1, <3>2 DEF FileSound, InPlace
    <3>5. conv.phase # "installed"
      BY <3>1 DEF FileSound, OnTheWay
    <3>6. conv.phase \in {"idle", "begun", "copied", "moved", "installed"}
      BY DEF FileTypes
    <3> QED
      BY <3>2, <3>3, <3>4, <3>5, <3>6 DEF Promised
  <2>8. KnowsTheKey' /\ NoneGetsFar' /\ Copy' = Copy /\ Backup' = Backup
    BY <1>1 DEF FileSound, KnowsTheKey, NoneGetsFar, Copy, Backup
  <2>9. InPlace'
    <3>1. ASSUME conv.phase = "idle", "halfway" \notin mishaps PROVE Has("db")'
      BY <2>1, <2>2, <2>4, <2>7, <3>1 DEF Has
    <3> QED
      BY <1>1, <2>5, <2>7, <3>1 DEF InPlace
  <2>10. OnTheWay'
    <3>1. ASSUME conv.phase = "moved", NEW n \in Name \ {"db"}, Has(n) PROVE Has(n)'
      BY <2>1, <2>2, <3>1 DEF Has, Converting
    <3>2. conv.to \in Key /\ dbKey \in Key
      BY DEF FileTypes
    <3> QED
      BY <1>1, <2>5, <2>6, <2>7, <2>8, <3>1, <3>2, NamesDiffer DEF FileSound, OnTheWay
  <2>11. LeftBehind'
    <3>1. ASSUME "halfway" \in mishaps
          PROVE  \E n \in Backups :
                    /\ Under(n, dbKey)'
                    /\ \A s \in Promised' : \/ s \in content'[at'[n]].rows
                                            \/ at'["db"] # 0 /\ s \in content'[at'["db"]].rows
      <4>1. PICK n \in Backups :
              Under(n, dbKey) /\ \A s \in Promised : s \in content[at[n]].rows
        BY <1>2, <3>1 DEF FileSound, LeftBehind
      <4>2. n \in Name \ {"db"} /\ dbKey \in Key
        BY NamesDiffer DEF FileTypes
      <4>3. Under(n, dbKey)' /\ content'[at'[n]] = content[at[n]]
        BY <1>1, <2>1, <2>6, <4>1, <4>2 DEF Under
      <4> QED
        BY <2>1, <2>2, <2>4, <2>5, <4>1, <4>3
    <3> QED
      BY <1>1, <2>5, <2>7, <3>1 DEF LeftBehind
  <2> QED
    BY <2>8, <2>9, <2>10, <2>11 DEF FileSound
<1>3. CASE /\ at["db"] # 0 /\ content[at["db"]].key = dbKey
           /\ content' = [content EXCEPT ![at["db"]].rows = content[at["db"]].rows \cup {r}]
           /\ UNCHANGED <<at, files>>
  <2>1. at["db"] \in File
    BY <1>3, NamesAFile, NamesDiffer
  <2>2. Under("db", dbKey) /\ conv.phase # "installed" /\ "unsaved" \notin mishaps
    <3>1. Under("db", dbKey)
      BY <1>3 DEF Under
    <3>2. Under("db", conv.to) => conv.to = dbKey
      BY <1>3 DEF Under
    <3> QED
      BY <3>1, <3>2 DEF FileSound, OnTheWay, LeftBehind, KnowsTheKey
  <2> QED
    BY <1>1, <1>3, <2>1, <2>2, RowKeeps
<1> QED
  BY <1>2, <1>3 DEF Write

\* The steps of a process that has the library open.
LEMMA HolderKeeps ==
  ASSUME FileTypes, Sound, FileSound,
         HolderOpens \/ HolderCloses \/ \E r \in Record : HolderWrites(r)
  PROVE  FileSound'
<1>1. CASE HolderOpens
  <2>1. /\ UNCHANGED <<at, content, files, dbKey, conv, editor, written, stray, mishaps>>
        /\ at["db"] # 0 /\ content[at["db"]].key = dbKey /\ holder' = at["db"]
    BY <1>1 DEF HolderOpens
  <2>3. Under("db", dbKey) /\ (Under("db", conv.to) => conv.to = dbKey)
    BY <2>1 DEF Under
  <2>4. conv.phase # "installed" /\ "unsaved" \notin mishaps
    BY <2>3 DEF FileSound, OnTheWay, LeftBehind, KnowsTheKey
  <2>5. Promised' = Promised
    BY <2>1 DEF Promised
  <2> QED
    BY <2>1, <2>4, <2>5, NothingMoves
<1>2. CASE HolderCloses
  <2>1. UNCHANGED <<at, content, files, dbKey, conv, editor, written, stray, mishaps>> /\ holder' = 0
    BY <1>2 DEF HolderCloses
  <2>3. Promised' = Promised
    BY <2>1 DEF Promised
  <2> QED
    BY <2>1, <2>3, NothingMoves
<1>3. ASSUME NEW r \in Record, HolderWrites(r) PROVE FileSound'
  <2>1. /\ holder # 0 /\ Commit(holder, r)
        /\ content' = [content EXCEPT ![holder].rows = content[holder].rows \cup {r}]
        /\ UNCHANGED <<at, files, dbKey, conv, holder, editor, mishaps>>
    BY <1>3 DEF HolderWrites
  <2>2. holder \in File
    BY <2>1, FileAssumption DEF FileTypes, File, Key
  <2>3. conv.phase # "installed" /\ "unsaved" \notin mishaps
    BY <2>1 DEF FileSound, OnTheWay, NoneGetsFar
  <2> QED
    BY <2>1, <2>2, <2>3, RowKeeps
<1> QED
  BY <1>1, <1>2, <1>3

\* What other commands do to the config: what is not excepted leaves it.
LEMMA EditorKeeps ==
  ASSUME FileTypes, EditorLoads \/ EditorSaves \/ EditorDies
  PROVE  Sound' /\ FileSound => FileSound'
<1>1. /\ UNCHANGED <<at, content, files, conv, holder, written, stray>>
      /\ editor' \subseteq Key /\ dbKey' \in Key
      /\ mishaps \subseteq mishaps' /\ mishaps' \subseteq mishaps \cup {"overlap", "torn"}
      /\ mishaps' \cap {"overlap", "torn"} = {} => UNCHANGED <<dbKey, mishaps>>
  <2>1. 0 \in Key /\ dbKey \in Key /\ editor \subseteq Key
    BY FileAssumption DEF FileTypes, Key
  <2>2. CASE EditorLoads
    BY <2>1, <2>2 DEF EditorLoads
  <2>3. CASE EditorSaves
    BY <2>1, <2>3 DEF EditorSaves
  <2>4. CASE EditorDies
    BY <2>1, <2>4 DEF EditorDies
  <2> QED
    BY <2>2, <2>3, <2>4
<1>3. ASSUME Sound', FileSound PROVE FileSound'
  <2>1. UNCHANGED <<dbKey, mishaps>>
    BY <1>1, <1>3 DEF Sound, Ruinous
  <2>2. Promised' = Promised
    BY <1>1 DEF Promised
  <2> QED
    BY <1>1, <1>3, <2>1, <2>2, NothingMoves
<1> QED
  BY <1>1, <1>3 DEF Sound, Ruinous

(***************************************************************************)
(* The conversion, step by step.                                           *)
(***************************************************************************)

\* It begins, or refuses a file that is not under the key.
LEMMA BeginKeeps ==
  ASSUME FileTypes, Sound', FileSound, ConvertBegin \/ ConvertRefused
  PROVE  FileSound'
<1>1. CASE ConvertBegin
  <2>1. /\ conv = Idle /\ at["db"] # 0 /\ files < MaxFiles
        /\ conv' = [phase |-> "begun", from |-> dbKey, to |-> IF dbKey = 0 THEN files + 1 ELSE 0]
        /\ mishaps' = IF "halfway" \in mishaps THEN mishaps \cup {"again"} ELSE mishaps
        /\ UNCHANGED <<at, content, files, dbKey, holder, editor, written, stray>>
    BY <1>1 DEF ConvertBegin
  <2>2. mishaps' = mishaps /\ "halfway" \notin mishaps
    BY <2>1 DEF Sound
  <2>3. /\ conv'.phase = "begun" /\ conv'.from = dbKey /\ (conv'.from = 0 <=> conv'.to # 0)
        /\ conv'.to \in Key /\ dbKey \in Key
    BY <2>1, FileAssumption DEF FileTypes, Key
  <2>5. conv.phase = "idle"
    BY <2>1 DEF Idle
  <2>6. \A n \in Name, k \in Key : (Under(n, k)' <=> Under(n, k)) /\ (Has(n)' <=> Has(n))
                                 /\ (Readable(n)' <=> Readable(n))
    BY <2>1 DEF Under, Has, Readable, Promised
  <2>7. KnowsTheKey' /\ NoneGetsFar' /\ InPlace' /\ OnTheWay'
    BY <2>1, <2>2, <2>3, <2>5, <2>6, NamesDiffer
    DEF FileSound, KnowsTheKey, NoneGetsFar, InPlace, OnTheWay
  <2>8. LeftBehind'
    BY <2>1, <2>2, <2>3, <2>6, NamesDiffer DEF FileSound, LeftBehind
  <2> QED
    BY <2>7, <2>8 DEF FileSound
<1>2. CASE ConvertRefused
  <2>1. /\ conv.phase = "begun" /\ conv' = Idle /\ at' = [at EXCEPT ![Copy] = 0]
        /\ UNCHANGED <<content, files, dbKey, holder, editor, written, stray, mishaps>>
    BY <1>2 DEF ConvertRefused
  <2>2. /\ conv' \in [phase : {"idle", "begun", "copied", "moved", "installed"}, from : Key, to : Key]
        /\ conv'.phase = "idle" /\ dbKey \in Key
    BY <2>1, FileAssumption DEF FileTypes, Key, Idle
  <2>3. at' \in [Name -> 0 .. files] /\ \A n \in {"db"} \cup Backups : at'[n] = at[n]
    BY <2>1, NamesDiffer DEF FileTypes, Key
  <2>5. \A n \in {"db"} \cup Backups :
          /\ Under(n, dbKey)' <=> Under(n, dbKey)
          /\ (Has(n)' <=> Has(n)) /\ (Readable(n)' <=> Readable(n))
    BY <2>1, <2>3 DEF Under, Has, Readable, Promised
  <2>6. KnowsTheKey' /\ NoneGetsFar' /\ InPlace' /\ OnTheWay'
    BY <2>1, <2>2, <2>3, <2>5 DEF FileSound, KnowsTheKey, NoneGetsFar, InPlace, OnTheWay
  <2>7. LeftBehind'
    BY <2>1, <2>2, <2>3, <2>5 DEF FileSound, NoneGetsFar, LeftBehind
  <2> QED
    BY <2>6, <2>7 DEF FileSound
<1> QED
  BY <1>1, <1>2

\* The copy, under the new key.
LEMMA CopyKeeps ==
  ASSUME FileTypes, Sound, FileSound, ConvertCopy
  PROVE  FileSound'
<1>1. /\ conv.phase = "begun" /\ content[at["db"]].key = conv.from
      /\ conv' = [conv EXCEPT !.phase = "copied"]
      /\ Create(Copy, content[at["db"]].rows, conv.to)
      /\ UNCHANGED <<dbKey, holder, editor, written, stray, mishaps>>
  BY DEF ConvertCopy
<1>2. conv.from = dbKey /\ "halfway" \notin mishaps
  BY <1>1 DEF FileSound, KnowsTheKey, NoneGetsFar
<1>3. Has("db") /\ Under("db", dbKey) /\ "unsaved" \notin mishaps
  <2>1. "unsaved" \notin mishaps
    BY <1>1, <1>2 DEF FileSound, LeftBehind, Under
  <2> QED
    BY <1>1, <1>2, <2>1 DEF FileSound, InPlace
<1>4. at["db"] \in File /\ content[at["db"]].rows \in SUBSET Record /\ conv.to \in Key
  BY <1>3, NamesAFile, NamesDiffer DEF FileTypes, Has
<1>5. /\ files' = files + 1 /\ files' \in Key
      /\ at' \in [Name -> 0 .. files'] /\ at'[Copy] = files + 1 /\ at'["db"] = at["db"]
      /\ content' \in [File -> [rows : SUBSET Record, key : Key]]
      /\ content'[files + 1].rows = content[at["db"]].rows
      /\ content'[files + 1].key = conv.to
      /\ content'[at["db"]] = content[at["db"]]
  <2>1. /\ files' = files + 1 /\ files' \in Key
        /\ at' \in [Name -> 0 .. files'] /\ at'[Copy] = files + 1
        /\ \A m \in Name \ {Copy} : at'[m] = at[m]
        /\ content' \in [File -> [rows : SUBSET Record, key : Key]]
        /\ content'[files + 1].rows = content[at["db"]].rows
        /\ content'[files + 1].key = conv.to
        /\ \A m \in Name : at[m] # 0 => content'[at[m]] = content[at[m]]
    <3>1. PICK rows \in SUBSET Record : rows = content[at["db"]].rows
      BY <1>4
    <3>2. Create(Copy, rows, conv.to) /\ conv.to \in Key /\ Copy \in Name
      BY <1>1, <1>4, <3>1, NamesDiffer
    <3>3. /\ files' = files + 1 /\ files' \in Key
          /\ at' \in [Name -> 0 .. files'] /\ at'[Copy] = files + 1
          /\ \A m \in Name \ {Copy} : at'[m] = at[m]
          /\ content' \in [File -> [rows : SUBSET Record, key : Key]]
          /\ content'[files + 1].rows = rows
          /\ content'[files + 1].key = conv.to
          /\ \A m \in Name : at[m] # 0 => content'[at[m]] = content[at[m]]
      BY <3>2, CreateAdds
    <3> QED
      BY <3>1, <3>3
  <2>2. at["db"] # 0 /\ "db" \in Name \ {Copy}
    BY <1>3, NamesDiffer DEF Has
  <2> QED
    BY <2>1, <2>2
<1>6. /\ conv' \in [phase : {"idle", "begun", "copied", "moved", "installed"}, from : Key, to : Key]
      /\ conv'.phase = "copied" /\ conv'.from = conv.from /\ conv'.to = conv.to
  BY <1>1 DEF FileTypes
<1>8. /\ Has("db")' /\ Under("db", dbKey)' /\ Has(Copy)' /\ Under(Copy, conv.to)'
  <2>1. files + 1 # 0 /\ Promised' = Promised
    BY <1>1 DEF FileTypes, Key, Promised
  <2>2. Has("db")' /\ Under("db", dbKey)'
    BY <1>1, <1>3, <1>5, <2>1 DEF Has, Under
  <2>3. Copy' = Copy
    BY <1>6 DEF Copy
  <2>4. at'[Copy] # 0 /\ Promised' \subseteq content'[at'[Copy]].rows /\ content'[at'[Copy]].key = conv.to
    BY <1>3, <1>5, <2>1 DEF Has
  <2> QED
    BY <1>6, <2>2, <2>3, <2>4 DEF Has, Under
<1>9. KnowsTheKey' /\ NoneGetsFar' /\ InPlace' /\ OnTheWay' /\ LeftBehind'
  BY <1>1, <1>2, <1>3, <1>6, <1>8
  DEF FileSound, KnowsTheKey, NoneGetsFar, InPlace, OnTheWay, LeftBehind
<1> QED
  BY <1>9 DEF FileSound

\* The two renames, and the way back.
LEMMA RenamesKeep ==
  ASSUME FileTypes, Sound', FileSound, ConvertBackup \/ ConvertInstall \/ ConvertRollback
  PROVE  FileSound'
<1> USE DEF FileSound
<1>1. CASE ConvertBackup
  <2>1. /\ conv.phase = "copied" /\ conv' = [conv EXCEPT !.phase = "moved"]
        /\ at' = [at EXCEPT ![Backup] = at["db"], !["db"] = 0]
        /\ UNCHANGED <<content, files, dbKey, holder, editor, written, stray, mishaps>>
    BY <1>1 DEF ConvertBackup
  <2>2. /\ conv' \in [phase : {"idle", "begun", "copied", "moved", "installed"}, from : Key, to : Key]
        /\ conv'.phase = "moved" /\ conv'.from = conv.from /\ conv'.to = conv.to
    BY <2>1 DEF FileTypes
  <2>3. Copy' = Copy /\ Backup' = Backup
    BY <2>2 DEF Copy, Backup
  <2>4. /\ at' \in [Name -> 0 .. files] /\ at'["db"] = 0 /\ at'[Backup] = at["db"] /\ at'[Copy] = at[Copy]
    BY <2>1, NamesDiffer DEF FileTypes, Key
  <2>6. mishaps \cap {"halfway", "unsaved"} = {}
    BY <2>1 DEF NoneGetsFar
  <2>7. Has("db") /\ Under("db", dbKey) /\ Has(Copy) /\ Under(Copy, conv.to)
    <3>1. ~(conv.phase = "idle")
      BY <2>1
    <3> QED
      BY <2>1, <2>6, <3>1 DEF InPlace, OnTheWay
  <2>8. Has(Copy)' /\ Under(Copy, conv.to)' /\ Has(Backup)' /\ Under(Backup, dbKey)'
    BY <2>1, <2>2, <2>3, <2>4, <2>7 DEF Has, Under, Promised
  <2>9. KnowsTheKey' /\ NoneGetsFar' /\ InPlace' /\ OnTheWay' /\ LeftBehind'
    BY <2>1, <2>2, <2>4, <2>6, <2>8 DEF KnowsTheKey, NoneGetsFar, InPlace, OnTheWay, LeftBehind
  <2> QED
    BY <2>9
<1>2. CASE ConvertInstall
  <2>1. /\ conv.phase = "moved" /\ conv' = [conv EXCEPT !.phase = "installed"]
        /\ at' = [at EXCEPT !["db"] = at[Copy], ![Copy] = 0]
        /\ UNCHANGED <<files, dbKey, holder, editor, written, stray>>
        /\ holder = 0 /\ UNCHANGED <<content, mishaps>>
    BY <1>2 DEF ConvertInstall, Sound
  <2>2. /\ conv' \in [phase : {"idle", "begun", "copied", "moved", "installed"}, from : Key, to : Key]
        /\ conv'.phase = "installed" /\ conv'.from = conv.from /\ conv'.to = conv.to
    BY <2>1 DEF FileTypes
  <2>3. Copy' = Copy /\ Backup' = Backup
    BY <2>2 DEF Copy, Backup
  <2>4. at' \in [Name -> 0 .. files] /\ at'["db"] = at[Copy] /\ at'[Backup] = at[Backup]
    BY <2>1, NamesDiffer DEF FileTypes, Key
  <2>6. mishaps \cap {"halfway", "unsaved"} = {}
    BY <2>1 DEF NoneGetsFar
  <2>7. Has(Copy) /\ Under(Copy, conv.to) /\ Has(Backup) /\ Under(Backup, dbKey)
    BY <2>1 DEF OnTheWay
  <2>8. Has("db")' /\ Under("db", conv.to)' /\ Has(Backup)' /\ Under(Backup, dbKey)'
    BY <2>1, <2>2, <2>3, <2>4, <2>7 DEF Has, Under, Promised
  <2>9. KnowsTheKey' /\ NoneGetsFar' /\ InPlace' /\ OnTheWay' /\ LeftBehind'
    BY <2>1, <2>2, <2>6, <2>8 DEF KnowsTheKey, NoneGetsFar, InPlace, OnTheWay, LeftBehind
  <2> QED
    BY <2>9
<1>3. CASE ConvertRollback
  <2>1. /\ conv.phase = "moved" /\ conv' = Idle
        /\ at' = [at EXCEPT !["db"] = at[Backup], ![Backup] = 0]
        /\ UNCHANGED <<content, files, dbKey, holder, editor, written, stray, mishaps>>
    BY <1>3 DEF ConvertRollback
  <2>2. /\ conv' \in [phase : {"idle", "begun", "copied", "moved", "installed"}, from : Key, to : Key]
        /\ conv'.phase = "idle"
    BY <2>1, FileAssumption DEF Idle, Key
  <2>3. at' \in [Name -> 0 .. files] /\ at'["db"] = at[Backup]
    BY <2>1, NamesDiffer DEF FileTypes, Key
  <2>5. mishaps \cap {"halfway", "unsaved"} = {}
    BY <2>1 DEF NoneGetsFar
  <2>6. Has(Backup) /\ Under(Backup, dbKey)
    BY <2>1 DEF OnTheWay
  <2>7. Has("db")' /\ Under("db", dbKey)'
    BY <2>1, <2>3, <2>6 DEF Has, Under, Promised
  <2>8. KnowsTheKey' /\ NoneGetsFar' /\ InPlace' /\ OnTheWay' /\ LeftBehind'
    BY <2>1, <2>2, <2>5, <2>7 DEF KnowsTheKey, NoneGetsFar, InPlace, OnTheWay, LeftBehind
  <2> QED
    BY <2>8
<1> QED
  BY <1>1, <1>2, <1>3

\* The config has the new key, or the conversion has died before.
LEMMA ConversionEnds ==
  ASSUME FileTypes, Sound', FileSound, ConvertSave \/ ConvertDies
  PROVE  FileSound'
<1> USE DEF FileSound
<1>1. conv' = Idle /\ conv'.phase = "idle" /\ Idle \in [phase : {"idle", "begun", "copied", "moved", "installed"}, from : Key, to : Key]
  BY FileAssumption DEF ConvertSave, ConvertDies, Idle, Key
<1>2. UNCHANGED <<at, content, files, holder, editor, written, stray>> /\ Promised' = Promised
  BY DEF ConvertSave, ConvertDies, Promised
<1>3. CASE ConvertSave
  <2>1. conv.phase = "installed" /\ dbKey' = conv.to /\ mishaps' = mishaps /\ dbKey' \in Key
    BY <1>3 DEF ConvertSave, Sound, Ruinous, FileTypes
  <2>3. mishaps \cap {"halfway", "unsaved"} = {}
    BY <2>1 DEF NoneGetsFar
  <2>4. Has("db")' /\ Under("db", dbKey)'
    BY <1>2, <2>1 DEF OnTheWay, Has, Under
  <2> QED
    BY <1>1, <1>2, <2>1, <2>3, <2>4
    DEF KnowsTheKey, NoneGetsFar, InPlace, OnTheWay, LeftBehind
<1>4. CASE ConvertDies
  <2>1. /\ conv # Idle /\ dbKey' = dbKey
        /\ mishaps' = CASE conv.phase = "moved" -> mishaps \cup {"halfway"}
                        [] conv.phase = "installed" -> mishaps \cup {"unsaved"}
                        [] OTHER -> mishaps
    BY <1>4 DEF ConvertDies
  <2>3. \A n \in Name, k \in Key : (Under(n, k)' <=> Under(n, k)) /\ (Has(n)' <=> Has(n))
                                 /\ (Readable(n)' <=> Readable(n))
    BY <1>2, <2>1 DEF Under, Has, Readable
  <2>4. dbKey \in Key /\ conv.phase \in {"begun", "copied", "moved", "installed"} /\ conv.from = dbKey
    BY <2>1 DEF KnowsTheKey, FileTypes
  <2>5. CASE conv.phase \in {"begun", "copied"}
    <3>1. mishaps' = mishaps
      BY <2>1, <2>5
    <3>2. KnowsTheKey' /\ NoneGetsFar' /\ InPlace' /\ OnTheWay'
      BY <1>1, <1>2, <2>1, <2>3, <2>4, <2>5, <3>1, NamesDiffer
      DEF KnowsTheKey, NoneGetsFar, InPlace, OnTheWay
    <3>3. LeftBehind'
      BY <1>2, <2>1, <2>3, <2>4, <2>5, <3>1, NamesDiffer DEF NoneGetsFar, LeftBehind
    <3> QED
      BY <3>2, <3>3
  <2>6. CASE conv.phase = "moved"
    <3>1. mishaps' = mishaps \cup {"halfway"} /\ mishaps \cap {"halfway", "unsaved"} = {}
      BY <2>1, <2>6 DEF NoneGetsFar
    <3>2. Has(Backup) /\ Under(Backup, dbKey) /\ (at["db"] = 0 \/ Under("db", dbKey))
      BY <2>6 DEF OnTheWay
    <3>3. LeftBehind'
      <4>1. PICK n \in Backups : n = Backup
        BY NamesDiffer
      <4>2. Under(n, dbKey)' /\ (at'["db"] = 0 \/ Under("db", dbKey)')
        BY <1>2, <2>1, <2>3, <2>4, <3>2, <4>1, NamesDiffer
      <4>3. \A r \in Promised' : r \in content'[at'[n]].rows
        BY <1>2, <3>2, <4>1 DEF Has
      <4>4. "unsaved" \notin mishaps'
        BY <3>1
      <4> QED
        BY <4>2, <4>3, <4>4 DEF LeftBehind
    <3> QED
      BY <1>1, <3>1, <3>3 DEF KnowsTheKey, NoneGetsFar, InPlace, OnTheWay
  <2>7. CASE conv.phase = "installed"
    <3>1. mishaps' = mishaps \cup {"unsaved"} /\ mishaps \cap {"halfway", "unsaved"} = {}
      BY <2>1, <2>7 DEF NoneGetsFar
    <3>2. /\ Has("db") /\ Under("db", conv.to) /\ holder = 0
          /\ Has(Backup) /\ Under(Backup, dbKey)
      BY <2>7 DEF OnTheWay
    <3>3. conv.to # dbKey
      BY <2>4, <2>7 DEF KnowsTheKey
    <3>4. \E n \in {"db"} \cup Backups : Has(n) /\ Readable(n) /\ n \in Name
      <4>1. Readable(Backup)
        BY <3>2 DEF Under, Readable
      <4> QED
        BY <3>2, <4>1, NamesDiffer
    <3>5. LeftBehind'
      BY <1>2, <2>1, <2>3, <2>4, <3>1, <3>2, <3>3, <3>4 DEF LeftBehind, Under
    <3> QED
      BY <1>1, <1>2, <3>1, <3>2, <3>5 DEF KnowsTheKey, NoneGetsFar, InPlace, OnTheWay
  <2> QED
    BY <2>4, <2>5, <2>6, <2>7
<1> QED
  BY <1>3, <1>4

\* A backup is only deleted while the library is in its place.
LEMMA DeleteKeeps ==
  ASSUME FileTypes, FileSound, NEW n \in Name, DeleteBackup(n)
  PROVE  FileSound'
<1>1. /\ n \in Backups /\ conv = Idle /\ at' = [at EXCEPT ![n] = 0]
      /\ at["db"] # 0 /\ content[at["db"]].key = dbKey /\ "halfway" \notin mishaps
      /\ UNCHANGED <<content, files, dbKey, conv, holder, editor, written, stray, mishaps>>
  BY DEF DeleteBackup, Backups
<1>2. conv.phase = "idle" /\ Under("db", dbKey)
  BY <1>1 DEF Idle, Under
<1>3. "unsaved" \notin mishaps
  BY <1>2 DEF FileSound, LeftBehind
<1>4. at' \in [Name -> 0 .. files] /\ at'["db"] = at["db"]
  BY <1>1, NamesDiffer DEF FileTypes, Key
<1>6. Under("db", dbKey)' /\ (Has("db") => Has("db")')
  BY <1>1, <1>2, <1>4 DEF Under, Has, Promised
<1> QED
  BY <1>1, <1>2, <1>3, <1>4, <1>6
  DEF FileSound, KnowsTheKey, NoneGetsFar, InPlace, OnTheWay, LeftBehind

\* Nothing that has bent a promise is forgotten.
LEMMA MishapsStay ==
  ASSUME FileTypes, FileNext
  PROVE  Sound' => Sound
BY DEF FileNext, Write, HolderWrites, HolderOpens, HolderCloses, EditorLoads, EditorSaves,
   EditorDies, ConvertBegin, ConvertCopy, ConvertRefused, ConvertBackup, ConvertInstall,
   ConvertRollback, ConvertSave, ConvertDies, DeleteBackup, Sound, Ruinous

(***************************************************************************)
(* The inductive invariant of the library's file: where the rows are at    *)
(* each step of a conversion, and after one that died.                     *)
(***************************************************************************)
THEOREM FileInvariant == FileSpec => []FileInv
<1>1. FileInv /\ [FileNext]_fileVars => FileInv'
  <2> SUFFICES ASSUME FileInv, [FileNext]_fileVars PROVE FileInv'
    OBVIOUS
  <2>1. CASE UNCHANGED fileVars
    BY <2>1 DEF fileVars, FileInv, FileTypes, HasItsName, Sound, FileSound, KnowsTheKey,
       NoneGetsFar, InPlace, OnTheWay, LeftBehind, Has, Under, Readable, Promised, Copy, Backup
  <2>2. CASE FileNext
    <3>1. FileTypes' /\ HasItsName' /\ (Sound' => Sound)
      BY <2>2, FileTypesStep, MishapsStay DEF FileInv
    <3>2. ASSUME Sound' PROVE FileSound'
      <4>1. FileTypes /\ Sound /\ FileSound
        BY <3>1, <3>2 DEF FileInv
      <4> QED
        BY <2>2, <3>2, <4>1, WriteKeeps, HolderKeeps, EditorKeeps, BeginKeeps, CopyKeeps,
           RenamesKeep, ConversionEnds, DeleteKeeps DEF FileNext
    <3> QED
      BY <3>1, <3>2 DEF FileInv
  <2> QED
    BY <2>1, <2>2
<1> QED
  BY <1>1, FileInitInv, PTL DEF FileSpec

(***************************************************************************)
(* For any rows and any number of files: wherever toku db encrypt or       *)
(* decrypt is interrupted, and whoever writes beside it, no row is lost    *)
(* and the library opens between conversions, with the exceptions that     *)
(* RowsSurvive lists.                                                      *)
(***************************************************************************)
THEOREM RowsAlwaysSurvive == FileSpec => []RowsSurvive
<1>1. FileInv => RowsSurvive
  <2> SUFFICES ASSUME FileTypes, Sound, FileSound PROVE RowsSurvive
    BY DEF FileInv, Sound, RowsSurvive
  <2> USE DEF FileSound
  <2>1. \A n \in Name : Under(n, dbKey) => Readable(n)
    BY DEF Under, Readable
  <2>2. ASSUME NEW r \in Promised
        PROVE  \E n \in Name : /\ Readable(n) \/ (conv.phase = "installed" /\ n = "db")
                               /\ r \in content[at[n]].rows
    <3>1. CASE "halfway" \in mishaps
      BY <2>1, <3>1, NamesDiffer DEF LeftBehind
    <3>2. CASE "unsaved" \in mishaps
      BY <3>2, NamesDiffer DEF LeftBehind, Has
    <3>3. CASE mishaps \cap {"halfway", "unsaved"} = {} /\ conv.phase \in {"idle", "begun", "copied"}
      BY <2>1, <3>3, NamesDiffer DEF InPlace, Has, Promised
    <3>4. CASE conv.phase = "moved"
      BY <2>1, <3>4, NamesDiffer DEF OnTheWay, Has
    <3>5. CASE conv.phase = "installed"
      BY <3>5, NamesDiffer DEF OnTheWay, Has
    <3> QED
      BY <3>1, <3>2, <3>3, <3>4, <3>5 DEF FileTypes
  <2>3. conv = Idle /\ at["db"] # 0 /\ mishaps \cap {"halfway", "unsaved"} = {} =>
          Readable("db") /\ content[at["db"]].key = dbKey
    BY <2>1, NamesDiffer DEF InPlace, Idle, Under
  <2> QED
    BY <2>2, <2>3 DEF RowsSurvive, Promised
<1> QED
  BY <1>1, FileInvariant, PTL

-----------------------------------------------------------------------------
(* LibraryRestore: the inductive invariant, in parts. *)

\* The edit that is shown is the newest of those that reached it.
Shows(row, edits) == row.edit \in edits \cup {0} /\ \A t \in edits : t <= row.edit

\* A library, here or in an archive, that knows the edits k: what it shows is the
\* newest.  The clock of a note is that of its text, and a note that was only
\* ever created has the text of its create.
HoldsNote(note, k) ==
  /\ Shows(note, k.note) /\ note.dead = k.dead /\ (note.edit = 0 => ~note.dead)
  /\ note.stamp \in {0, note.edit} /\ note.updated >= note.edit
  /\ note.stamp = 0 => note.updated = note.edit /\ (note.edit = 0 \/ note.edit = noteOps[1])

Holds(lib, k, unstamped, over) ==
  /\ ~unstamped => Shows(lib.field, k.field) /\ lib.field.stamp = lib.field.edit
  /\ Shows(lib.setting, k.setting) /\ lib.setting.stamp = lib.setting.edit
  /\ ~over => HoldsNote(lib.note, k)

\* Nothing is known before it was edited, and a note by the ops that tell of it.
KnownSoFar(k) ==
  /\ k.field \cup k.setting \subseteq 1 .. tick
  /\ \A t \in k.note : \E i \in DOMAIN noteOps : noteOps[i] = t

NotesGrow ==
  /\ \A i \in DOMAIN noteOps : noteOps[i] <= tick
  /\ \A i, j \in DOMAIN noteOps : i < j => noteOps[i] < noteOps[j]

LibrariesHold ==
  \A m \in Home : Holds(library[m], known[m], bare[m], passed[m]) /\ KnownSoFar(known[m])

ArchivesHold ==
  \A i \in DOMAIN archives :
    Holds(archives[i].library, archives[i].known, archives[i].bare, archives[i].passed)
      /\ KnownSoFar(archives[i].known)

RestoredFromArchive == \A m \in Home : restored[m] \in 0 .. Len(archives)

RestoreInv ==
  /\ RestoreTypeOK /\ NotesGrow /\ LibrariesHold /\ ArchivesHold /\ RestoredFromArchive
  /\ RestoreIsSettled

-----------------------------------------------------------------------------

LEMMA RestoreInitInv == RestoreInit => RestoreInv
<1> SUFFICES ASSUME RestoreInit PROVE RestoreInv
  OBVIOUS
<1>1. 0 \in Time
  BY RestoreAssumption DEF Time
<1>2. ASSUME NEW m \in Home
      PROVE  /\ library[m] \in Library /\ library[m].field.edit = 0 /\ library[m].field.stamp = 0
             /\ library[m].setting.edit = 0 /\ library[m].setting.stamp = 0
             /\ library[m].note.edit = 0 /\ library[m].note.stamp = 0
             /\ library[m].note.updated = 0 /\ library[m].note.dead = FALSE
             /\ known[m] \in Known /\ known[m].field = {} /\ known[m].note = {}
             /\ known[m].setting = {} /\ known[m].dead = FALSE
  BY <1>1 DEF RestoreInit, Library, Cell, NoteRow, Known
<1>3. tick = 0 /\ noteOps = <<>> /\ archives = <<>> /\ Len(archives) = 0
  BY DEF RestoreInit
<1>8. DOMAIN noteOps = {} /\ DOMAIN archives = {}
  BY <1>3
<1>4. RestoreTypeOK
  <2>1. library \in [Home -> Library] /\ known \in [Home -> Known]
    BY <1>2 DEF RestoreInit
  <2>2. /\ bare \in [Home -> BOOLEAN] /\ passed \in [Home -> BOOLEAN] /\ noteGone \in BOOLEAN
        /\ restored \in [Home -> 0 .. MaxArchives]
    <3>1. 0 \in 0 .. MaxArchives
      BY RestoreAssumption
    <3> QED
      BY <3>1 DEF RestoreInit
  <2>3. noteOps \in Seq(Tick) /\ archives \in Seq(Archive) /\ Len(archives) <= MaxArchives
    BY <1>3, RestoreAssumption
  <2> QED
    BY <1>1, <1>3, <2>1, <2>2, <2>3 DEF RestoreTypeOK
<1>5. NotesGrow /\ ArchivesHold
  <2>1. NotesGrow
    BY <1>8, Zenon DEF NotesGrow
  <2>2. ArchivesHold
    BY <1>8, Zenon DEF ArchivesHold
  <2> QED
    BY <2>1, <2>2
<1>6. LibrariesHold
  <2>1. ASSUME NEW m \in Home
        PROVE  Holds(library[m], known[m], bare[m], passed[m])
    <3>1. Shows(library[m].field, known[m].field) /\ Shows(library[m].setting, known[m].setting)
      BY <1>2 DEF Shows
    <3>2. HoldsNote(library[m].note, known[m])
      <4>1. Shows(library[m].note, known[m].note)
        BY <1>2 DEF Shows
      <4>2. /\ library[m].note.dead = known[m].dead /\ library[m].note.edit = 0 /\ ~library[m].note.dead
            /\ library[m].note.stamp = 0 /\ library[m].note.updated = 0
        BY <1>2
      <4> QED
        BY <4>1, <4>2 DEF HoldsNote
    <3> QED
      BY <1>2, <3>1, <3>2 DEF Holds
  <2>2. ASSUME NEW m \in Home
        PROVE  KnownSoFar(known[m])
    BY <1>2 DEF KnownSoFar
  <2> QED
    BY <2>1, <2>2 DEF LibrariesHold
<1>7. RestoredFromArchive /\ RestoreIsSettled
  BY <1>3 DEF RestoreInit, RestoredFromArchive, RestoreIsSettled
<1> QED
  BY <1>4, <1>5, <1>6, <1>7 DEF RestoreInv

\* What holds of a library goes on to, while no text of the note is written.
LEMMA HoldsLater ==
  ASSUME NEW lib, NEW k, NEW unstamped, NEW over, NEW before \in Nat, NEW after \in Nat,
         before = tick, after = tick', before <= after, UNCHANGED noteOps,
         Holds(lib, k, unstamped, over), KnownSoFar(k)
  PROVE  Holds(lib, k, unstamped, over)' /\ KnownSoFar(k)'
<1>1. Holds(lib, k, unstamped, over)'
  BY DEF Holds, HoldsNote, Shows
<1>2. 1 .. before \subseteq 1 .. after
  OBVIOUS
<1>3. KnownSoFar(k)'
  BY <1>2 DEF KnownSoFar
<1> QED
  BY <1>1, <1>3

\* One library changes.
LEMMA OneLibraryChanges ==
  ASSUME RestoreInv, NEW m \in Home, RestoreTypeOK', tick <= tick', UNCHANGED <<noteOps, archives>>,
         \A n \in Home \ {m} : /\ library'[n] = library[n] /\ known'[n] = known[n] /\ bare'[n] = bare[n]
                               /\ passed'[n] = passed[n] /\ restored'[n] = restored[n],
         restored'[m] \in 0 .. Len(archives),
         \A i \in {restored'[m]} \ {0} :
           /\ archives[i].library.facts \subseteq library'[m].facts
           /\ MergedInto(library'[m], archives[i].library) = library'[m],
         Holds(library[m], known[m], bare[m], passed[m])', KnownSoFar(known[m])'
  PROVE  RestoreInv'
<1>1. tick \in Nat /\ tick' \in Nat /\ tick <= tick' /\ noteOps' = noteOps /\ archives' = archives
  BY RestoreAssumption DEF RestoreInv, RestoreTypeOK, Time
<1>2. NotesGrow'
  <2>1. \A i \in DOMAIN noteOps : noteOps[i] \in Nat /\ noteOps[i] <= tick
    BY RestoreAssumption DEF RestoreInv, RestoreTypeOK, NotesGrow, Tick
  <2> QED
    BY <1>1, <2>1 DEF RestoreInv, NotesGrow
<1>3. LibrariesHold'
  <2>1. ASSUME NEW n \in Home, n # m
        PROVE  (Holds(library[n], known[n], bare[n], passed[n]) /\ KnownSoFar(known[n]))'
    <3>1. PICK lib, k, b, o : lib = library[n] /\ k = known[n] /\ b = bare[n] /\ o = passed[n]
      OBVIOUS
    <3>2. Holds(lib, k, b, o) /\ KnownSoFar(k)
      BY <3>1 DEF RestoreInv, LibrariesHold
    <3>3. PICK before, after \in Nat : before = tick /\ after = tick'
      BY <1>1
    <3>4. Holds(lib, k, b, o)' /\ KnownSoFar(k)'
      BY <1>1, <3>2, <3>3, HoldsLater
    <3>5. lib = library'[n] /\ k = known'[n] /\ b = bare'[n] /\ o = passed'[n]
      BY <2>1, <3>1
    <3> QED
      BY <3>4, <3>5
  <2> QED
    BY <2>1 DEF LibrariesHold
<1>4. ArchivesHold'
  <2>1. ASSUME NEW i \in DOMAIN archives
        PROVE  (Holds(archives[i].library, archives[i].known, archives[i].bare, archives[i].passed)
                  /\ KnownSoFar(archives[i].known))'
    <3>1. PICK lib, k, b, o : /\ lib = archives[i].library /\ k = archives[i].known
                              /\ b = archives[i].bare /\ o = archives[i].passed
      OBVIOUS
    <3>2. Holds(lib, k, b, o) /\ KnownSoFar(k)
      BY <3>1 DEF RestoreInv, ArchivesHold
    <3>3. PICK before, after \in Nat : before = tick /\ after = tick'
      BY <1>1
    <3>4. Holds(lib, k, b, o)' /\ KnownSoFar(k)'
      BY <1>1, <3>2, <3>3, HoldsLater
    <3>5. /\ lib = archives'[i].library /\ k = archives'[i].known
          /\ b = archives'[i].bare /\ o = archives'[i].passed
      BY <1>1, <3>1
    <3> QED
      BY <3>4, <3>5
  <2> QED
    BY <1>1, <2>1 DEF ArchivesHold
<1>5. RestoredFromArchive'
  BY <1>1 DEF RestoreInv, RestoredFromArchive
<1>6. RestoreIsSettled'
  <2>1. ASSUME NEW n \in Home, NEW i \in {restored'[n]} \ {0}
        PROVE  /\ archives'[i].library.facts \subseteq library'[n].facts
               /\ MergedInto(library'[n], archives'[i].library) = library'[n]
    <3>1. CASE n = m
      BY <1>1, <2>1, <3>1
    <3>2. CASE n # m
      BY <1>1, <2>1, <3>2 DEF RestoreInv, RestoreIsSettled
    <3> QED
      BY <3>1, <3>2
  <2> QED
    BY <2>1 DEF RestoreIsSettled, MergedInto, MergeField, Applied, MergeNoteRow, RaisedClock, MergeSettingRow,
                MergeFacts, Later
<1> QED
  BY <1>2, <1>3, <1>4, <1>5, <1>6 DEF RestoreInv

\* Rows are equal that have the same fields.
LEMMA SameCell ==
  ASSUME NEW r \in Cell, NEW s \in Cell, r.edit = s.edit, r.stamp = s.stamp
  PROVE  r = s
BY DEF Cell

LEMMA SameNoteRow ==
  ASSUME NEW r \in NoteRow, NEW s \in NoteRow, r.edit = s.edit, r.stamp = s.stamp,
         r.updated = s.updated, r.dead = s.dead
  PROVE  r = s
BY DEF NoteRow

LEMMA SameLibrary ==
  ASSUME NEW r \in Library, NEW s \in Library, r.field = s.field, r.note = s.note,
         r.setting = s.setting, r.facts = s.facts
  PROVE  r = s
BY DEF Library

\* The rules of a merge give rows, and have nothing left to do after once.
LEMMA FieldMerges ==
  ASSUME NEW h \in Cell, NEW t \in Cell
  PROVE  /\ MergeField(h, t) \in Cell /\ MergeField(t, t) = t
         /\ MergeField(MergeField(h, t), t) = MergeField(h, t)
  BY DEF MergeField, Applied

LEMMA SettingMerges ==
  ASSUME NEW h \in Cell, NEW t \in Cell
  PROVE  /\ MergeSettingRow(h, t) \in Cell /\ MergeSettingRow(t, t) = t
         /\ MergeSettingRow(MergeSettingRow(h, t), t) = MergeSettingRow(h, t)
  BY DEF MergeSettingRow

\* What the merge of two notes is made of.
LEMMA NoteMergesTo ==
  ASSUME NEW h \in NoteRow, NEW t \in NoteRow, h.edit # 0, t.edit # 0
  PROVE  /\ MergeNoteRow(h, t) \in NoteRow
         /\ MergeNoteRow(h, t).stamp = Later(h.stamp, t.stamp)
         /\ \E x \in {h, t} :
              /\ MergeNoteRow(h, t).edit = x.edit /\ MergeNoteRow(h, t).updated = x.updated
              /\ MergeNoteRow(h, t).dead = x.dead
              /\ x = IF t.stamp = 0 /\ t.updated > h.updated THEN t ELSE h
<1>1. h.stamp \in Nat /\ t.stamp \in Nat /\ {h.stamp, t.stamp} \subseteq Time
  BY DEF NoteRow, Time
<1>2. PICK clock \in Time : clock = Later(h.stamp, t.stamp) /\ clock >= t.stamp /\ clock \in Nat
  BY <1>1 DEF Later, Time
<1>3. PICK x \in {h, t} : x = IF t.stamp = 0 /\ t.updated > h.updated THEN t ELSE h
  OBVIOUS
<1>4. (IF t.stamp > 0 THEN t.stamp > clock ELSE t.updated > h.updated)
        <=> t.stamp = 0 /\ t.updated > h.updated
  BY <1>1, <1>2
<1>5. PICK r : r = [x EXCEPT !.stamp = clock]
  OBVIOUS
<1>6. MergeNoteRow(h, t) = r
  BY <1>2, <1>3, <1>4, <1>5 DEF MergeNoteRow, RaisedClock
<1>7. r \in NoteRow /\ r.stamp = clock /\ r.edit = x.edit /\ r.updated = x.updated /\ r.dead = x.dead
  BY <1>2, <1>3, <1>5 DEF NoteRow
<1> QED
  BY <1>2, <1>3, <1>6, <1>7

LEMMA NoteMerges ==
  ASSUME NEW h \in NoteRow, NEW t \in NoteRow
  PROVE  /\ MergeNoteRow(h, t) \in NoteRow /\ MergeNoteRow(t, t) = t
         /\ MergeNoteRow(MergeNoteRow(h, t), t) = MergeNoteRow(h, t)
<1>1. ASSUME NEW r \in NoteRow, t.edit # 0, r.edit # 0, Later(r.stamp, t.stamp) = r.stamp,
             ~(t.stamp = 0 /\ t.updated > r.updated)
      PROVE  MergeNoteRow(r, t) = r
  <2>1. /\ MergeNoteRow(r, t) \in NoteRow /\ MergeNoteRow(r, t).stamp = r.stamp
        /\ MergeNoteRow(r, t).edit = r.edit /\ MergeNoteRow(r, t).updated = r.updated
        /\ MergeNoteRow(r, t).dead = r.dead
    BY <1>1, NoteMergesTo
  <2> QED
    BY <2>1, SameNoteRow
<1>2. MergeNoteRow(t, t) = t
  <2>1. CASE t.edit = 0
    BY <2>1 DEF MergeNoteRow, RaisedClock
  <2>2. CASE t.edit # 0
    <3>1. Later(t.stamp, t.stamp) = t.stamp /\ ~(t.updated > t.updated)
      BY DEF Later, NoteRow, Time
    <3> QED
      BY <1>1, <2>2, <3>1
  <2> QED
    BY <2>1, <2>2
<1>3. CASE t.edit = 0 \/ h.edit = 0
  <2>1. (MergeNoteRow(h, t) = h /\ t.edit = 0) \/ MergeNoteRow(h, t) = t
    BY <1>3 DEF MergeNoteRow, RaisedClock
  <2> QED
    BY <1>2, <2>1
<1>4. CASE t.edit # 0 /\ h.edit # 0
  <2>1. PICK r \in NoteRow : r = MergeNoteRow(h, t)
    BY <1>4, NoteMergesTo
  <2>2. PICK x \in {h, t} : /\ r.edit = x.edit /\ r.updated = x.updated
                            /\ x = IF t.stamp = 0 /\ t.updated > h.updated THEN t ELSE h
    BY <1>4, <2>1, NoteMergesTo
  <2>3. r.stamp = Later(h.stamp, t.stamp)
    BY <1>4, <2>1, NoteMergesTo
  <2>4. Later(r.stamp, t.stamp) = r.stamp
    BY <2>3 DEF Later, NoteRow, Time
  <2>5. ~(t.stamp = 0 /\ t.updated > r.updated)
    BY <2>2 DEF NoteRow, Time
  <2>6. MergeNoteRow(r, t) = r
    BY <1>1, <1>4, <2>2, <2>4, <2>5
  <2> QED
    BY <1>2, <2>1, <2>6
<1> QED
  BY <1>2, <1>3, <1>4

\* restore_library: a library, which has no use for the same archive again.
LEMMA LibraryMerges ==
  ASSUME NEW h \in Library, NEW t \in Library
  PROVE  /\ MergedInto(h, t) \in Library /\ MergedInto(t, t) = t
         /\ MergedInto(MergedInto(h, t), t) = MergedInto(h, t)
         /\ t.facts \subseteq MergedInto(h, t).facts
<1>1. /\ {h.field, t.field, h.setting, t.setting} \subseteq Cell /\ {h.note, t.note} \subseteq NoteRow
      /\ {h.facts, t.facts} \subseteq SUBSET Tick
  BY DEF Library
<1>2. ASSUME NEW a \in Library, NEW b \in Library
      PROVE  /\ MergedInto(a, b).field = MergeField(a.field, b.field)
             /\ MergedInto(a, b).note = MergeNoteRow(a.note, b.note)
             /\ MergedInto(a, b).setting = MergeSettingRow(a.setting, b.setting)
             /\ MergedInto(a, b).facts = a.facts \cup b.facts
             /\ MergedInto(a, b) \in Library
  <2>1. /\ a.field \in Cell /\ a.note \in NoteRow /\ a.setting \in Cell /\ a.facts \in SUBSET Tick
        /\ b.field \in Cell /\ b.note \in NoteRow /\ b.setting \in Cell /\ b.facts \in SUBSET Tick
    BY DEF Library
  <2>2. PICK field \in Cell, note \in NoteRow, option \in Cell, facts \in SUBSET Tick :
          /\ field = MergeField(a.field, b.field) /\ note = MergeNoteRow(a.note, b.note)
          /\ option = MergeSettingRow(a.setting, b.setting) /\ facts = a.facts \cup b.facts
    <3>1. /\ MergeField(a.field, b.field) \in Cell /\ MergeNoteRow(a.note, b.note) \in NoteRow
          /\ MergeSettingRow(a.setting, b.setting) \in Cell /\ a.facts \cup b.facts \in SUBSET Tick
      BY <2>1, FieldMerges, NoteMerges, SettingMerges
    <3> QED
      BY <3>1
  <2>3. MergedInto(a, b) = [field |-> field, note |-> note, setting |-> option, facts |-> facts]
    BY <2>2 DEF MergedInto, MergeFacts
  <2> QED
    BY <2>2, <2>3 DEF Library
<1>3. PICK r \in Library : r = MergedInto(h, t)
  BY <1>2
<1>4. MergedInto(t, t) = t
  <2>1. /\ MergedInto(t, t).field = t.field /\ MergedInto(t, t).note = t.note
        /\ MergedInto(t, t).setting = t.setting /\ MergedInto(t, t).facts = t.facts
        /\ MergedInto(t, t) \in Library
    <3>1. /\ MergeField(t.field, t.field) = t.field /\ MergeNoteRow(t.note, t.note) = t.note
          /\ MergeSettingRow(t.setting, t.setting) = t.setting /\ t.facts \cup t.facts = t.facts
      BY <1>1, FieldMerges, NoteMerges, SettingMerges
    <3> QED
      BY <1>2, <3>1
  <2> QED
    BY <2>1, SameLibrary
<1>5. MergedInto(r, t) = r
  <2>1. /\ r.field = MergeField(h.field, t.field) /\ r.note = MergeNoteRow(h.note, t.note)
        /\ r.setting = MergeSettingRow(h.setting, t.setting) /\ r.facts = h.facts \cup t.facts
    BY <1>2, <1>3
  <2>2. /\ MergeField(r.field, t.field) = r.field /\ MergeNoteRow(r.note, t.note) = r.note
        /\ MergeSettingRow(r.setting, t.setting) = r.setting
    BY <1>1, <2>1, FieldMerges, NoteMerges, SettingMerges
  <2>3. r.facts \cup t.facts = r.facts
    BY <2>1
  <2>4. /\ MergedInto(r, t).field = r.field /\ MergedInto(r, t).note = r.note
        /\ MergedInto(r, t).setting = r.setting /\ MergedInto(r, t).facts = r.facts
        /\ MergedInto(r, t) \in Library
    BY <1>2, <2>2, <2>3
  <2> QED
    BY <2>4, SameLibrary
<1> QED
  BY <1>2, <1>3, <1>4, <1>5

\* A merge of what shows the newest shows the newest.
LEMMA FieldShows ==
  ASSUME NEW h \in Cell, NEW t \in Cell, NEW K \in SUBSET Tick, NEW L \in SUBSET Tick,
         Shows(h, K), Shows(t, L), h.stamp = h.edit, t.stamp = t.edit
  PROVE  /\ Shows(MergeField(h, t), K \cup L)
         /\ MergeField(h, t).stamp = MergeField(h, t).edit
<1>1. /\ h.edit \in Nat /\ t.edit \in Nat /\ h.stamp \in Nat /\ t.stamp \in Nat
      /\ K \subseteq Nat /\ L \subseteq Nat
  BY DEF Cell, Time, Tick
<1>2. CASE t.edit > h.edit
  <2>1. MergeField(h, t) = t
    BY <1>1, <1>2 DEF MergeField, Applied
  <2> QED
    BY <1>1, <1>2, <2>1 DEF Shows
<1>3. CASE t.edit <= h.edit
  <2>1. MergeField(h, t) = h \/ (MergeField(h, t) = t /\ h.edit = 0)
    <3>1. ~(t.stamp > h.stamp)
      BY <1>1, <1>3
    <3>2. CASE h.edit = 0
      BY <3>2 DEF MergeField
    <3>3. CASE h.edit # 0
      BY <3>1, <3>3 DEF MergeField, Applied
    <3> QED
      BY <3>2, <3>3
  <2>2. MergeField(h, t).edit = h.edit /\ MergeField(h, t).stamp = MergeField(h, t).edit
    BY <1>1, <1>3, <2>1
  <2> QED
    BY <1>1, <1>3, <2>2 DEF Shows
<1> QED
  BY <1>1, <1>2, <1>3

LEMMA SettingShows ==
  ASSUME NEW h \in Cell, NEW t \in Cell, NEW K \in SUBSET Tick, NEW L \in SUBSET Tick,
         Shows(h, K), Shows(t, L), h.stamp = h.edit, t.stamp = t.edit
  PROVE  /\ Shows(MergeSettingRow(h, t), K \cup L)
         /\ MergeSettingRow(h, t).stamp = MergeSettingRow(h, t).edit
<1>1. MergeSettingRow(h, t) = MergeField(h, t)
  BY DEF MergeSettingRow, MergeField, Applied
<1> QED
  BY <1>1, FieldShows

LEMMA NoteShows ==
  ASSUME NEW h \in NoteRow, NEW t \in NoteRow, NEW k \in Known, NEW l \in Known, NEW both \in Known,
         HoldsNote(h, k), HoldsNote(t, l), NotesGrow, noteOps \in Seq(Tick),
         KnownSoFar(k), KnownSoFar(l), ~Overtakes(h, t),
         both.note = k.note \cup l.note, both.dead = (k.dead \/ l.dead)
  PROVE  HoldsNote(MergeNoteRow(h, t), both)
<1>1. /\ h.edit \in Nat /\ t.edit \in Nat /\ h.stamp \in Nat /\ t.stamp \in Nat
      /\ h.updated \in Nat /\ t.updated \in Nat /\ k.note \subseteq Nat /\ l.note \subseteq Nat
  BY DEF NoteRow, Time, Tick, Known
<1>2. h.edit # 0 => t.edit <= h.edit
  BY <1>1 DEF Overtakes
<1>3. h.edit # 0 => (t.dead => h.dead)
  BY DEF Overtakes
<1>4. CASE h.edit = 0
  <2>1. h.dead = FALSE /\ k.dead = FALSE /\ both.dead = l.dead
    BY <1>4 DEF HoldsNote, NoteRow, Known
  <2>2. \A e \in k.note : e <= t.edit
    BY <1>1, <1>4 DEF HoldsNote, Shows
  <2>3. CASE t.edit = 0
    <3>1. MergeNoteRow(h, t) = h
      BY <2>3 DEF MergeNoteRow, RaisedClock
    <3>2. l.dead = FALSE
      BY <2>3 DEF HoldsNote, NoteRow, Known
    <3>3. Shows(h, both.note)
      BY <1>4, <2>3 DEF HoldsNote, Shows
    <3> QED
      BY <2>1, <3>1, <3>2, <3>3 DEF HoldsNote
  <2>4. CASE t.edit # 0
    <3>1. MergeNoteRow(h, t) = t
      BY <1>4, <2>4 DEF MergeNoteRow, RaisedClock
    <3>2. Shows(t, both.note)
      BY <2>2 DEF HoldsNote, Shows
    <3> QED
      BY <2>1, <3>1, <3>2 DEF HoldsNote
  <2> QED
    BY <2>3, <2>4
<1>5. CASE h.edit # 0 /\ t.edit = 0
  <2>1. MergeNoteRow(h, t) = h
    BY <1>5 DEF MergeNoteRow, RaisedClock
  <2>2. l.dead = FALSE /\ both.dead = k.dead
    BY <1>5 DEF HoldsNote, NoteRow, Known
  <2>3. Shows(h, both.note)
    BY <1>1, <1>5 DEF HoldsNote, Shows
  <2> QED
    BY <2>1, <2>2, <2>3 DEF HoldsNote
<1>6. CASE h.edit # 0 /\ t.edit # 0
  <2>1. PICK r \in NoteRow : r = MergeNoteRow(h, t)
    BY <1>6, NoteMergesTo
  <2>2. h.updated >= h.edit /\ t.updated >= t.edit
    BY DEF HoldsNote
  <2>3. PICK i \in DOMAIN noteOps : noteOps[i] = h.edit
    BY <1>1, <1>6 DEF HoldsNote, Shows, KnownSoFar
  <2>4. PICK j \in DOMAIN noteOps : noteOps[j] = t.edit
    BY <1>1, <1>6 DEF HoldsNote, Shows, KnownSoFar
  <2>5. 1 \in DOMAIN noteOps /\ noteOps[1] <= t.edit
    <3>1. DOMAIN noteOps = 1 .. Len(noteOps) /\ Len(noteOps) \in Nat
      OBVIOUS
    <3>2. 1 \in DOMAIN noteOps /\ (j = 1 \/ 1 < j)
      BY <2>4, <3>1
    <3>3. noteOps[1] \in Nat
      <4>1. noteOps[1] \in Tick
        BY <3>2
      <4> QED
        BY <4>1 DEF Tick
    <3>4. CASE j = 1
      BY <1>1, <2>4, <3>2, <3>4
    <3>5. CASE 1 < j
      BY <1>1, <2>4, <3>2, <3>3, <3>5 DEF NotesGrow
    <3> QED
      BY <3>2, <3>4, <3>5
  <2>6. h.stamp = 0 => h.edit = t.edit
    BY <1>1, <1>2, <1>6, <2>5 DEF HoldsNote
  <2>7. ~(t.stamp = 0 /\ t.updated > h.updated)
    BY <1>1, <1>2, <1>6, <2>2 DEF HoldsNote
  <2>8. r.edit = h.edit /\ r.updated = h.updated /\ r.dead = h.dead /\ r.stamp = Later(h.stamp, t.stamp)
    BY <1>6, <2>1, <2>7, NoteMergesTo
  <2>9. r.stamp \in {0, r.edit}
    BY <1>1, <1>2, <1>6, <2>6, <2>8 DEF HoldsNote, Later
  <2>10. r.stamp = 0 => h.stamp = 0
    BY <1>1, <2>8 DEF Later
  <2>11. Shows(r, both.note)
    BY <1>1, <1>2, <1>6, <2>8 DEF HoldsNote, Shows
  <2>12. r.dead = both.dead
    <3>1. h.dead = k.dead /\ t.dead = l.dead /\ k.dead \in BOOLEAN /\ l.dead \in BOOLEAN
      BY DEF HoldsNote, Known
    <3>2. CASE k.dead
      BY <2>8, <3>1, <3>2
    <3>3. CASE ~k.dead
      BY <1>3, <1>6, <2>8, <3>1, <3>3
    <3> QED
      BY <3>2, <3>3
  <2>13. r.stamp = 0 => r.updated = r.edit /\ (r.edit = 0 \/ r.edit = noteOps[1])
    BY <2>8, <2>10 DEF HoldsNote
  <2>14. HoldsNote(r, both)
    BY <1>6, <2>2, <2>8, <2>9, <2>11, <2>12, <2>13 DEF HoldsNote
  <2> QED
    BY <2>1, <2>14
<1> QED
  BY <1>4, <1>5, <1>6

\* What is there of a library, and of an archive.
LEMMA RestoreTypes ==
  ASSUME RestoreInv
  PROVE  /\ tick \in Nat /\ tick \in Time /\ MaxTick \in Nat /\ noteOps \in Seq(Tick)
         /\ DOMAIN noteOps = 1 .. Len(noteOps) /\ Len(noteOps) \in Nat
         /\ DOMAIN archives = 1 .. Len(archives) /\ Len(archives) \in Nat
         /\ \A m \in Home : /\ library[m] \in Library /\ known[m] \in Known
                            /\ bare[m] \in BOOLEAN /\ passed[m] \in BOOLEAN
                            /\ restored[m] \in 0 .. Len(archives)
         /\ \A i \in DOMAIN archives :
              /\ archives[i] \in Archive /\ archives[i].library \in Library
              /\ archives[i].known \in Known /\ archives[i].bare \in BOOLEAN
              /\ archives[i].passed \in BOOLEAN
<1>1. \A a \in Archive : a.library \in Library /\ a.known \in Known /\ a.bare \in BOOLEAN /\ a.passed \in BOOLEAN
  BY DEF Archive
<1>2. archives \in Seq(Archive) /\ noteOps \in Seq(Tick)
  BY DEF RestoreInv, RestoreTypeOK
<1>3. \A i \in DOMAIN archives : archives[i] \in Archive
  BY <1>2
<1>4. tick \in Time /\ MaxTick \in Nat
  BY RestoreAssumption DEF RestoreInv, RestoreTypeOK
<1>5. \A m \in Home : /\ library[m] \in Library /\ known[m] \in Known
                      /\ bare[m] \in BOOLEAN /\ passed[m] \in BOOLEAN
                      /\ restored[m] \in 0 .. Len(archives)
  BY DEF RestoreInv, RestoreTypeOK, RestoredFromArchive
<1>6. /\ DOMAIN noteOps = 1 .. Len(noteOps) /\ Len(noteOps) \in Nat
      /\ DOMAIN archives = 1 .. Len(archives) /\ Len(archives) \in Nat
  BY <1>2
<1>7. tick \in Nat
  BY <1>4 DEF Time
<1> QED
  BY <1>1, <1>2, <1>3, <1>4, <1>5, <1>6, <1>7

\* A change that no restore makes: one library becomes lib, with what it knows.
LEMMA RestoreEditStep ==
  ASSUME RestoreInv, NEW m \in Home, NEW lib \in Library, NEW k \in Known, NEW b \in BOOLEAN,
         tick' \in Time, tick <= tick', UNCHANGED <<noteOps, noteGone, archives, passed>>,
         library' = [library EXCEPT ![m] = lib], known' = [known EXCEPT ![m] = k],
         bare' = [bare EXCEPT ![m] = b], Changed(m),
         Holds(lib, k, b, passed[m])', KnownSoFar(k)'
  PROVE  RestoreInv'
<1>1. RestoreTypeOK'
  <2>1. library' \in [Home -> Library] /\ known' \in [Home -> Known] /\ bare' \in [Home -> BOOLEAN]
    BY DEF RestoreInv, RestoreTypeOK
  <2>2. restored' \in [Home -> 0 .. MaxArchives]
    <3>1. 0 \in 0 .. MaxArchives
      BY RestoreAssumption
    <3> QED
      BY <3>1 DEF RestoreInv, RestoreTypeOK, Changed
  <2> QED
    BY <2>1, <2>2 DEF RestoreInv, RestoreTypeOK
<1>2. /\ library'[m] = lib /\ known'[m] = k /\ bare'[m] = b /\ restored'[m] = 0
      /\ \A n \in Home \ {m} : /\ library'[n] = library[n] /\ known'[n] = known[n] /\ bare'[n] = bare[n]
                               /\ passed'[n] = passed[n] /\ restored'[n] = restored[n]
  BY DEF RestoreInv, RestoreTypeOK, Changed
<1>3. (Holds(library[m], known[m], bare[m], passed[m]) /\ KnownSoFar(known[m]))'
  BY <1>2
<1>4. restored'[m] \in 0 .. Len(archives)
  BY <1>2, RestoreTypes
<1>5. \A i \in {restored'[m]} \ {0} :
        /\ archives[i].library.facts \subseteq library'[m].facts
        /\ MergedInto(library'[m], archives[i].library) = library'[m]
  BY <1>2
<1> QED
  BY <1>1, <1>2, <1>3, <1>4, <1>5, OneLibraryChanges

\* The next tick is later than all that is known.
LEMMA TickIsNew ==
  ASSUME RestoreInv, Ticks
  PROVE  /\ tick' = tick + 1 /\ tick' \in Tick /\ tick' \in Time /\ tick' \in Nat /\ tick <= tick'
         /\ tick' # 0
         /\ \A m \in Home : \A t \in known[m].field \cup known[m].setting : t \in Nat /\ t < tick'
<1>1. tick' = tick + 1 /\ tick < MaxTick /\ tick \in Nat /\ MaxTick \in Nat
  BY RestoreTypes DEF Ticks
<1>2. \A m \in Home : known[m].field \cup known[m].setting \subseteq 1 .. tick
  BY DEF RestoreInv, LibrariesHold, KnownSoFar
<1>3. \A t \in 1 .. tick : t \in Nat /\ t < tick'
  BY <1>1
<1> QED
  BY <1>1, <1>2, <1>3 DEF Tick, Time

\* A write of the field.
LEMMA EditFieldStep ==
  ASSUME RestoreInv, NEW m \in Home, NEW imported \in BOOLEAN, EditField(m, imported)
  PROVE  RestoreInv'
<1> DEFINE stamped == m \in Enrolled \/ (imported /\ library[m].field.edit = 0)
<1>1. /\ Ticks /\ Changed(m) /\ UNCHANGED <<archives, noteOps, noteGone, passed>>
  BY DEF EditField
<1>2. PICK h \in Library, k \in Known, b \in BOOLEAN, o \in BOOLEAN :
        h = library[m] /\ k = known[m] /\ b = bare[m] /\ o = passed[m]
  BY RestoreTypes
<1>3. PICK t \in Tick : t = tick' /\ t \in Time /\ t \in Nat /\ t # 0
  BY <1>1, TickIsNew
<1>4. PICK s \in Time : s = IF stamped THEN t ELSE h.field.stamp
  BY <1>3 DEF Library, Cell
<1>5. PICK lib \in Library : /\ library' = [library EXCEPT ![m] = lib]
                             /\ lib.field.edit = t /\ lib.field.stamp = s /\ lib.note = h.note
                             /\ lib.setting = h.setting
  <2>1. PICK cell : cell = [edit |-> t, stamp |-> s]
    OBVIOUS
  <2>5. cell \in Cell /\ cell.edit = t /\ cell.stamp = s
    BY <1>3, <1>4, <2>1 DEF Cell
  <2>2. PICK lib : lib = [h EXCEPT !.field = cell]
    OBVIOUS
  <2>3. lib \in Library /\ lib.field = cell /\ lib.note = h.note /\ lib.setting = h.setting
    BY <2>2, <2>5 DEF Library
  <2>4. library' = [library EXCEPT ![m] = lib]
    BY <1>2, <1>3, <1>4, <2>1, <2>2 DEF EditField
  <2> QED
    BY <2>3, <2>4, <2>5
<1>6. PICK l \in Known : /\ known' = [known EXCEPT ![m] = l]
                         /\ l.field = k.field \cup {t} /\ l.note = k.note /\ l.setting = k.setting
                         /\ l.dead = k.dead
  <2>1. PICK l : l = [k EXCEPT !.field = k.field \cup {t}]
    OBVIOUS
  <2>2. /\ l \in Known /\ l.field = k.field \cup {t} /\ l.note = k.note /\ l.setting = k.setting
        /\ l.dead = k.dead
    BY <2>1 DEF Known
  <2>3. known' = [known EXCEPT ![m] = l]
    BY <1>2, <1>3, <2>1 DEF EditField
  <2> QED
    BY <2>2, <2>3
<1>7. PICK c \in BOOLEAN : bare' = [bare EXCEPT ![m] = c] /\ (~c => ~b /\ stamped)
  <2>1. PICK c \in BOOLEAN : c = (b \/ ~stamped)
    OBVIOUS
  <2>2. bare' = [bare EXCEPT ![m] = c]
    BY <1>2, <2>1 DEF EditField
  <2> QED
    BY <2>1, <2>2
<1>8. Holds(h, k, b, o) /\ KnownSoFar(k)
  BY <1>2 DEF RestoreInv, LibrariesHold
<1>9. \A x \in k.field \cup k.setting : x \in Nat /\ x < t
  BY <1>1, <1>2, <1>3, TickIsNew
<1>10. Holds(lib, l, c, o)'
  <2>1. Shows(lib.field, l.field)
    BY <1>3, <1>5, <1>6, <1>9 DEF Shows
  <2>2. ~c => lib.field.stamp = lib.field.edit
    BY <1>4, <1>5, <1>7
  <2>3. Shows(lib.setting, l.setting) /\ lib.setting.stamp = lib.setting.edit
    BY <1>5, <1>6, <1>8 DEF Holds
  <2>4. ~o => HoldsNote(lib.note, l)
    BY <1>5, <1>6, <1>8 DEF Holds, HoldsNote
  <2>5. ~o => HoldsNote(lib.note, l)'
    BY <1>1, <2>4 DEF HoldsNote, Shows
  <2> QED
    BY <2>1, <2>2, <2>3, <2>5 DEF Holds, Shows
<1>11. KnownSoFar(l)'
  <2>1. l.field \cup l.setting \subseteq 1 .. t
    BY <1>3, <1>6, <1>9, <1>8, TickIsNew, <1>1, RestoreTypes DEF KnownSoFar
  <2>2. \A x \in l.note : \E i \in DOMAIN noteOps : noteOps[i] = x
    BY <1>6, <1>8 DEF KnownSoFar
  <2> QED
    BY <1>1, <1>3, <2>1, <2>2 DEF KnownSoFar
<1>12. Holds(lib, l, c, passed[m])'
  <2>1. passed'[m] = o
    BY <1>1, <1>2
  <2> QED
    BY <1>10, <2>1
<1>13. /\ tick' \in Time /\ tick <= tick' /\ UNCHANGED <<noteOps, noteGone, archives, passed>>
  BY <1>1, TickIsNew
<1> QED
  BY <1>1, <1>5, <1>6, <1>7, <1>11, <1>12, <1>13, RestoreEditStep

\* What a library holds goes on to hold, while the notes are as they are.
LEMMA NothingWritten ==
  ASSUME RestoreInv
  PROVE  \A m \in Home : /\ library = [library EXCEPT ![m] = library[m]]
                         /\ known = [known EXCEPT ![m] = known[m]]
                         /\ bare = [bare EXCEPT ![m] = bare[m]]
                         /\ passed = [passed EXCEPT ![m] = passed[m]]
  BY DEF RestoreInv, RestoreTypeOK

LEMMA MergeRemoteSettingStep ==
  ASSUME RestoreInv, NEW m \in Home, MergeRemoteSetting(m)
  PROVE  RestoreInv'
<1>1. /\ Ticks /\ Changed(m) /\ UNCHANGED <<archives, noteOps, noteGone, bare, passed>>
  BY DEF MergeRemoteSetting
<1>2. PICK h \in Library, k \in Known, b \in BOOLEAN, o \in BOOLEAN :
        h = library[m] /\ k = known[m] /\ b = bare[m] /\ o = passed[m]
  BY RestoreTypes
<1>3. PICK t \in Tick : t = tick' /\ t \in Time /\ t \in Nat /\ t # 0
  BY <1>1, TickIsNew
<1>4. PICK lib \in Library : /\ library' = [library EXCEPT ![m] = lib]
                             /\ lib.setting.edit = t /\ lib.setting.stamp = t
                             /\ lib.note = h.note /\ lib.field = h.field
  <2>1. PICK cell : cell = [edit |-> t, stamp |-> t]
    OBVIOUS
  <2>2. cell \in Cell /\ cell.edit = t /\ cell.stamp = t
    BY <1>3, <2>1 DEF Cell
  <2>3. PICK lib : lib = [h EXCEPT !.setting = cell]
    OBVIOUS
  <2>4. lib \in Library /\ lib.setting = cell /\ lib.note = h.note /\ lib.field = h.field
    BY <2>2, <2>3 DEF Library
  <2>5. library' = [library EXCEPT ![m] = lib]
    BY <1>2, <1>3, <2>1, <2>3 DEF MergeRemoteSetting
  <2> QED
    BY <2>2, <2>4, <2>5
<1>5. PICK l \in Known : /\ known' = [known EXCEPT ![m] = l]
                         /\ l.setting = k.setting \cup {t} /\ l.note = k.note /\ l.field = k.field
                         /\ l.dead = k.dead
  <2>1. PICK l : l = [k EXCEPT !.setting = k.setting \cup {t}]
    OBVIOUS
  <2>2. /\ l \in Known /\ l.setting = k.setting \cup {t} /\ l.note = k.note /\ l.field = k.field
        /\ l.dead = k.dead
    BY <2>1 DEF Known
  <2>3. known' = [known EXCEPT ![m] = l]
    BY <1>2, <1>3, <2>1 DEF MergeRemoteSetting
  <2> QED
    BY <2>2, <2>3
<1>6. Holds(h, k, b, o) /\ KnownSoFar(k)
  BY <1>2 DEF RestoreInv, LibrariesHold
<1>7. \A x \in k.field \cup k.setting : x \in Nat /\ x < t
  BY <1>1, <1>2, <1>3, TickIsNew
<1>8. Holds(lib, l, b, o)'
  <2>1. Shows(lib.setting, l.setting) /\ lib.setting.stamp = lib.setting.edit
    BY <1>3, <1>4, <1>5, <1>7 DEF Shows
  <2>2. ~b => Shows(lib.field, l.field) /\ lib.field.stamp = lib.field.edit
    BY <1>4, <1>5, <1>6 DEF Holds
  <2>3. ~o => HoldsNote(lib.note, l)
    BY <1>4, <1>5, <1>6 DEF Holds, HoldsNote
  <2>4. ~o => HoldsNote(lib.note, l)'
    BY <1>1, <2>3 DEF HoldsNote, Shows
  <2> QED
    BY <2>1, <2>2, <2>4 DEF Holds, Shows
<1>9. KnownSoFar(l)'
  <2>1. l.field \cup l.setting \subseteq 1 .. t
    BY <1>3, <1>5, <1>6, <1>7, <1>1, TickIsNew, RestoreTypes DEF KnownSoFar
  <2>2. \A x \in l.note : \E i \in DOMAIN noteOps : noteOps[i] = x
    BY <1>5, <1>6 DEF KnownSoFar
  <2> QED
    BY <1>1, <1>3, <2>1, <2>2 DEF KnownSoFar
<1>10. Holds(lib, l, b, passed[m])'
  <2>1. passed'[m] = o
    BY <1>1, <1>2
  <2> QED
    BY <1>8, <2>1
<1>11. /\ tick' \in Time /\ tick <= tick' /\ UNCHANGED <<noteOps, noteGone, archives, passed>>
       /\ bare' = [bare EXCEPT ![m] = b]
  BY <1>1, <1>2, TickIsNew, NothingWritten
<1> QED
  BY <1>1, <1>4, <1>5, <1>9, <1>10, <1>11, RestoreEditStep

LEMMA AddFactStep ==
  ASSUME RestoreInv, NEW m \in Home, AddFact(m)
  PROVE  RestoreInv'
<1>1. /\ Ticks /\ Changed(m) /\ UNCHANGED <<archives, noteOps, noteGone, known, bare, passed>>
  BY DEF AddFact
<1>2. PICK h \in Library, k \in Known, b \in BOOLEAN, o \in BOOLEAN :
        h = library[m] /\ k = known[m] /\ b = bare[m] /\ o = passed[m]
  BY RestoreTypes
<1>3. PICK t \in Tick : t = tick' /\ t \in Nat
  BY <1>1, TickIsNew
<1>4. PICK lib \in Library : /\ library' = [library EXCEPT ![m] = lib]
                             /\ lib.setting = h.setting /\ lib.note = h.note /\ lib.field = h.field
  <2>1. PICK lib : lib = [h EXCEPT !.facts = h.facts \cup {t}]
    OBVIOUS
  <2>2. lib \in Library /\ lib.setting = h.setting /\ lib.note = h.note /\ lib.field = h.field
    BY <2>1 DEF Library
  <2>3. library' = [library EXCEPT ![m] = lib]
    BY <1>2, <1>3, <2>1 DEF AddFact
  <2> QED
    BY <2>2, <2>3
<1>5. Holds(h, k, b, o) /\ KnownSoFar(k)
  BY <1>2 DEF RestoreInv, LibrariesHold
<1>6. PICK before \in Nat : before = tick /\ before <= t
  BY <1>1, <1>3, TickIsNew, RestoreTypes
<1>7. Holds(lib, k, b, o)
  BY <1>4, <1>5 DEF Holds
<1>8. Holds(lib, k, b, o)' /\ KnownSoFar(k)'
  BY <1>1, <1>3, <1>5, <1>6, <1>7, HoldsLater
<1>9. Holds(lib, k, b, passed[m])'
  <2>1. passed'[m] = o
    BY <1>1, <1>2
  <2> QED
    BY <1>8, <2>1
<1>10. /\ tick' \in Time /\ tick <= tick' /\ UNCHANGED <<noteOps, noteGone, archives, passed>>
       /\ bare' = [bare EXCEPT ![m] = b] /\ known' = [known EXCEPT ![m] = k]
  BY <1>1, <1>2, TickIsNew, NothingWritten
<1> QED
  BY <1>1, <1>4, <1>8, <1>9, <1>10, RestoreEditStep

\* The pull of an op of the note.
LEMMA MergeNoteStep ==
  ASSUME RestoreInv, NEW m \in Home, NEW i \in DOMAIN noteOps, MergeNote(m, i)
  PROVE  RestoreInv'
<1>1. /\ Changed(m) /\ UNCHANGED <<tick, archives, noteOps, noteGone, bare, passed>>
  BY DEF MergeNote
<1>2. PICK h \in Library, k \in Known, b \in BOOLEAN, o \in BOOLEAN :
        h = library[m] /\ k = known[m] /\ b = bare[m] /\ o = passed[m]
  BY RestoreTypes
<1>3. PICK t \in Tick : t = noteOps[i]
  BY RestoreTypes
<1>4. t \in Nat /\ t # 0 /\ t <= tick /\ t \in Time /\ tick \in Time /\ tick \in Nat
  BY <1>3, RestoreTypes DEF Tick, Time, RestoreInv, NotesGrow
<1>5. PICK note \in NoteRow : note = h.note
  BY DEF Library
<1>6. ~note.dead /\ (note.edit = 0 => i = 1) /\ t \notin k.note
  BY <1>2, <1>3, <1>5 DEF MergeNote
<1>7. PICK new \in NoteRow :
        /\ new = IF note.edit = 0 THEN [note EXCEPT !.edit = t, !.updated = t]
                 ELSE IF t > note.stamp THEN [note EXCEPT !.edit = t, !.stamp = t, !.updated = tick]
                 ELSE note
        /\ new.dead = note.dead
        /\ note.edit = 0 => new.edit = t /\ new.updated = t /\ new.stamp = note.stamp
        /\ note.edit # 0 /\ t > note.stamp => new.edit = t /\ new.stamp = t /\ new.updated = tick
        /\ note.edit # 0 /\ ~(t > note.stamp) => new = note
  <2>1. PICK made : made = [note EXCEPT !.edit = t, !.updated = t]
    OBVIOUS
  <2>2. /\ made \in NoteRow /\ made.dead = note.dead /\ made.edit = t /\ made.updated = t
        /\ made.stamp = note.stamp
    BY <1>4, <2>1 DEF NoteRow
  <2>3. PICK later : later = [note EXCEPT !.edit = t, !.stamp = t, !.updated = tick]
    OBVIOUS
  <2>4. /\ later \in NoteRow /\ later.dead = note.dead /\ later.edit = t /\ later.updated = tick
        /\ later.stamp = t
    BY <1>4, <2>3 DEF NoteRow
  <2> QED
    BY <2>1, <2>2, <2>3, <2>4
<1>8. PICK lib \in Library : /\ library' = [library EXCEPT ![m] = lib]
                             /\ lib.setting = h.setting /\ lib.note = new /\ lib.field = h.field
  <2>1. PICK lib : lib = [h EXCEPT !.note = new]
    OBVIOUS
  <2>2. lib \in Library /\ lib.setting = h.setting /\ lib.note = new /\ lib.field = h.field
    BY <2>1 DEF Library
  <2>3. library' = [library EXCEPT ![m] = lib]
    BY <1>2, <1>3, <1>5, <1>7, <2>1 DEF MergeNote
  <2> QED
    BY <2>2, <2>3
<1>9. PICK l \in Known : /\ known' = [known EXCEPT ![m] = l]
                         /\ l.note = k.note \cup {t} /\ l.setting = k.setting /\ l.field = k.field
                         /\ l.dead = k.dead
  <2>1. PICK l : l = [k EXCEPT !.note = k.note \cup {t}]
    OBVIOUS
  <2>2. /\ l \in Known /\ l.note = k.note \cup {t} /\ l.setting = k.setting /\ l.field = k.field
        /\ l.dead = k.dead
    BY <2>1 DEF Known
  <2>3. known' = [known EXCEPT ![m] = l]
    BY <1>2, <1>3, <2>1 DEF MergeNote
  <2> QED
    BY <2>2, <2>3
<1>10. Holds(h, k, b, o) /\ KnownSoFar(k)
  BY <1>2 DEF RestoreInv, LibrariesHold
<1>11. ASSUME ~o
       PROVE  HoldsNote(new, l)
  <2>1. HoldsNote(note, k)
    BY <1>5, <1>10, <1>11 DEF Holds
  <2>2. /\ note.edit \in Nat /\ note.stamp \in Nat /\ note.updated \in Nat /\ k.note \subseteq Nat
    BY DEF NoteRow, Time, Known, Tick
  <2>3. new.dead = l.dead /\ ~new.dead
    BY <1>6, <1>7, <1>9, <2>1 DEF HoldsNote
  <2>4. CASE note.edit = 0
    <3>1. note.stamp = 0 /\ t = noteOps[1] /\ \A x \in k.note : x <= 0
      BY <1>3, <1>6, <2>1, <2>4 DEF HoldsNote, Shows
    <3>2. new.edit = t /\ new.updated = t /\ new.stamp = 0
      BY <1>7, <2>4, <3>1
    <3>3. Shows(new, l.note)
      BY <1>4, <1>9, <2>2, <3>1, <3>2 DEF Shows
    <3> QED
      BY <1>4, <2>3, <3>1, <3>2, <3>3 DEF HoldsNote
  <2>5. CASE note.edit # 0 /\ t > note.stamp
    <3>1. note.edit \in k.note /\ note.edit # t
      BY <1>6, <2>1, <2>5 DEF HoldsNote, Shows
    <3>2. note.edit <= t
      <4>1. CASE note.stamp = note.edit
        BY <1>4, <2>2, <2>5, <4>1
      <4>2. CASE note.stamp = 0
        <5>1. note.edit = noteOps[1]
          BY <2>1, <2>5, <4>2 DEF HoldsNote
        <5>2. i = 1 \/ 1 < i
          BY RestoreTypes
        <5>3. 1 \in DOMAIN noteOps
          BY RestoreTypes
        <5> QED
          BY <1>3, <1>4, <2>2, <5>1, <5>2, <5>3 DEF RestoreInv, NotesGrow
      <4> QED
        BY <2>1, <4>1, <4>2 DEF HoldsNote
    <3>3. new.edit = t /\ new.stamp = t /\ new.updated = tick
      BY <1>7, <2>5
    <3>4. Shows(new, l.note)
      BY <1>4, <1>9, <2>1, <2>2, <3>2, <3>3 DEF HoldsNote, Shows
    <3> QED
      BY <1>4, <2>3, <3>3, <3>4 DEF HoldsNote
  <2>6. CASE note.edit # 0 /\ ~(t > note.stamp)
    <3>1. new = note /\ t <= note.stamp
      BY <1>4, <1>7, <2>2, <2>6
    <3>2. note.stamp = note.edit
      BY <1>4, <2>1, <2>2, <3>1 DEF HoldsNote
    <3>3. Shows(new, l.note)
      BY <1>9, <2>1, <3>1, <3>2 DEF HoldsNote, Shows
    <3> QED
      BY <2>1, <2>3, <3>1, <3>3 DEF HoldsNote
  <2> QED
    BY <2>4, <2>5, <2>6
<1>12. Holds(lib, l, b, o)
  BY <1>8, <1>9, <1>10, <1>11 DEF Holds
<1>13. KnownSoFar(l)
  BY <1>3, <1>9, <1>10 DEF KnownSoFar
<1>14. Holds(lib, l, b, o)' /\ KnownSoFar(l)'
  BY <1>1, <1>4, <1>12, <1>13, HoldsLater
<1>15. Holds(lib, l, b, passed[m])'
  <2>1. passed'[m] = o
    BY <1>1, <1>2
  <2> QED
    BY <1>14, <2>1
<1>16. /\ tick' \in Time /\ tick <= tick' /\ UNCHANGED <<noteOps, noteGone, archives, passed>>
       /\ bare' = [bare EXCEPT ![m] = b]
  BY <1>1, <1>2, <1>4, NothingWritten
<1> QED
  BY <1>1, <1>8, <1>9, <1>14, <1>15, <1>16, RestoreEditStep

LEMMA MergeNoteDeleteStep ==
  ASSUME RestoreInv, NEW m \in Home, MergeNoteDelete(m)
  PROVE  RestoreInv'
<1>1. /\ Changed(m) /\ UNCHANGED <<tick, archives, noteOps, noteGone, bare, passed>>
  BY DEF MergeNoteDelete
<1>2. PICK h \in Library, k \in Known, b \in BOOLEAN, o \in BOOLEAN :
        h = library[m] /\ k = known[m] /\ b = bare[m] /\ o = passed[m]
  BY RestoreTypes
<1>3. PICK note \in NoteRow : note = h.note /\ note.edit # 0
  BY <1>2 DEF MergeNoteDelete, Library
<1>4. PICK new : new = [note EXCEPT !.dead = TRUE]
  OBVIOUS
<1>5. /\ new \in NoteRow /\ new.edit = note.edit /\ new.stamp = note.stamp
      /\ new.updated = note.updated /\ new.dead = TRUE
  BY <1>4 DEF NoteRow
<1>6. PICK lib : lib = [h EXCEPT !.note = new]
  OBVIOUS
<1>7. lib \in Library /\ lib.setting = h.setting /\ lib.note = new /\ lib.field = h.field
  BY <1>5, <1>6 DEF Library
<1>8. library' = [library EXCEPT ![m] = lib]
  BY <1>2, <1>3, <1>4, <1>6 DEF MergeNoteDelete, Library
<1>9. PICK l : l = [k EXCEPT !.dead = TRUE]
  OBVIOUS
<1>10. /\ l \in Known /\ l.note = k.note /\ l.setting = k.setting /\ l.field = k.field
       /\ l.dead = TRUE
  BY <1>9 DEF Known
<1>11. known' = [known EXCEPT ![m] = l]
  BY <1>2, <1>9 DEF MergeNoteDelete
<1>12. Holds(h, k, b, o) /\ KnownSoFar(k)
  BY <1>2 DEF RestoreInv, LibrariesHold
<1>13. Holds(lib, l, b, o)
  <2>1. ~o => HoldsNote(new, l)
    BY <1>3, <1>5, <1>10, <1>12 DEF Holds, HoldsNote, Shows
  <2> QED
    BY <1>7, <1>10, <1>12, <2>1 DEF Holds
<1>14. KnownSoFar(l)
  BY <1>10, <1>12 DEF KnownSoFar
<1>15. tick \in Nat /\ tick \in Time
  BY RestoreTypes
<1>16. Holds(lib, l, b, o)' /\ KnownSoFar(l)'
  BY <1>1, <1>13, <1>14, <1>15, HoldsLater
<1>17. Holds(lib, l, b, passed[m])'
  <2>1. passed'[m] = o
    BY <1>1, <1>2
  <2> QED
    BY <1>16, <2>1
<1>18. /\ tick' \in Time /\ tick <= tick' /\ UNCHANGED <<noteOps, noteGone, archives, passed>>
       /\ bare' = [bare EXCEPT ![m] = b]
  BY <1>1, <1>2, <1>15, NothingWritten
<1> QED
  BY <1>1, <1>7, <1>8, <1>10, <1>11, <1>16, <1>17, <1>18, RestoreEditStep

\* Another device writes the text of the note.
LEMMA HoldsAfterWrite ==
  ASSUME NEW lib \in Library, NEW k \in Known, NEW unstamped, NEW over,
         NEW before \in Nat, NEW after \in Nat, before = tick, after = tick', before <= after,
         NEW t \in Tick, noteOps \in Seq(Tick), noteOps' = Append(noteOps, t),
         Holds(lib, k, unstamped, over), KnownSoFar(k)
  PROVE  Holds(lib, k, unstamped, over)' /\ KnownSoFar(k)'
<1>1. /\ DOMAIN noteOps = 1 .. Len(noteOps) /\ Len(noteOps) \in Nat
      /\ DOMAIN noteOps' = 1 .. Len(noteOps) + 1
      /\ \A i \in DOMAIN noteOps : i \in DOMAIN noteOps' /\ noteOps'[i] = noteOps[i]
  OBVIOUS
<1>2. ASSUME ~over
      PROVE  HoldsNote(lib.note, k)'
  <2>1. HoldsNote(lib.note, k)
    BY <1>2 DEF Holds
  <2>2. ASSUME lib.note.edit # 0
        PROVE  noteOps'[1] = noteOps[1]
    <3>1. lib.note.edit \in k.note
      BY <2>1, <2>2 DEF HoldsNote, Shows
    <3>2. PICK i \in DOMAIN noteOps : noteOps[i] = lib.note.edit
      BY <3>1 DEF KnownSoFar
    <3> QED
      BY <1>1, <3>2
  <2> QED
    BY <2>1, <2>2 DEF HoldsNote, Shows
<1>3. Holds(lib, k, unstamped, over)'
  BY <1>2 DEF Holds, Shows
<1>4. 1 .. before \subseteq 1 .. after
  OBVIOUS
<1>5. KnownSoFar(k)'
  BY <1>1, <1>4 DEF KnownSoFar
<1> QED
  BY <1>3, <1>5

LEMMA NoteWrittenStep ==
  ASSUME RestoreInv, NoteWritten
  PROVE  RestoreInv'
<1>1. /\ Ticks /\ noteOps' = Append(noteOps, tick')
      /\ UNCHANGED <<library, archives, noteGone, known, bare, passed, restored>>
  BY DEF NoteWritten
<1>2. PICK t \in Tick : t = tick' /\ t \in Time /\ t \in Nat
  BY <1>1, TickIsNew
<1>3. PICK before \in Nat : before = tick /\ before < t
  BY <1>1, <1>2, TickIsNew, RestoreTypes
<1>4. noteOps \in Seq(Tick) /\ noteOps' = Append(noteOps, t)
  BY <1>1, <1>2, RestoreTypes
<1>5. RestoreTypeOK'
  <2>1. noteOps' \in Seq(Tick)
    BY <1>4
  <2> QED
    BY <1>1, <1>2, <2>1 DEF RestoreInv, RestoreTypeOK
<1>6. NotesGrow'
  <2>1. /\ DOMAIN noteOps = 1 .. Len(noteOps) /\ Len(noteOps) \in Nat
        /\ DOMAIN noteOps' = 1 .. Len(noteOps) + 1
        /\ \A i \in DOMAIN noteOps : noteOps'[i] = noteOps[i] /\ noteOps[i] \in Tick
        /\ noteOps'[Len(noteOps) + 1] = t
    BY <1>4
  <2>2. \A i \in DOMAIN noteOps : noteOps'[i] \in Nat /\ noteOps'[i] < t
    BY <1>3, <2>1 DEF RestoreInv, NotesGrow, Tick
  <2>3. \A i \in DOMAIN noteOps' : noteOps'[i] <= t
    BY <1>2, <2>1, <2>2
  <2>4. ASSUME NEW i \in DOMAIN noteOps', NEW j \in DOMAIN noteOps', i < j
        PROVE  noteOps'[i] < noteOps'[j]
    <3>1. i \in DOMAIN noteOps
      BY <2>1, <2>4
    <3>2. CASE j = Len(noteOps) + 1
      BY <2>1, <2>2, <3>1, <3>2
    <3>3. CASE j # Len(noteOps) + 1
      <4>1. j \in DOMAIN noteOps
        BY <2>1, <3>3
      <4> QED
        BY <2>1, <2>4, <3>1, <4>1 DEF RestoreInv, NotesGrow
    <3> QED
      BY <3>2, <3>3
  <2> QED
    BY <1>2, <2>3, <2>4 DEF NotesGrow
<1>7. LibrariesHold'
  <2>1. ASSUME NEW m \in Home
        PROVE  (Holds(library[m], known[m], bare[m], passed[m]) /\ KnownSoFar(known[m]))'
    <3>1. PICK lib \in Library, k \in Known, b \in BOOLEAN, o \in BOOLEAN :
            lib = library[m] /\ k = known[m] /\ b = bare[m] /\ o = passed[m]
      BY RestoreTypes
    <3>2. Holds(lib, k, b, o) /\ KnownSoFar(k)
      BY <3>1 DEF RestoreInv, LibrariesHold
    <3>3. Holds(lib, k, b, o)' /\ KnownSoFar(k)'
      BY <1>2, <1>3, <1>4, <3>2, HoldsAfterWrite
    <3> QED
      BY <1>1, <3>1, <3>3
  <2> QED
    BY <2>1 DEF LibrariesHold
<1>8. ArchivesHold'
  <2>1. ASSUME NEW i \in DOMAIN archives
        PROVE  (Holds(archives[i].library, archives[i].known, archives[i].bare, archives[i].passed)
                  /\ KnownSoFar(archives[i].known))'
    <3>1. PICK lib \in Library, k \in Known, b \in BOOLEAN, o \in BOOLEAN :
            /\ lib = archives[i].library /\ k = archives[i].known
            /\ b = archives[i].bare /\ o = archives[i].passed
      BY RestoreTypes
    <3>2. Holds(lib, k, b, o) /\ KnownSoFar(k)
      BY <3>1 DEF RestoreInv, ArchivesHold
    <3>3. Holds(lib, k, b, o)' /\ KnownSoFar(k)'
      BY <1>2, <1>3, <1>4, <3>2, HoldsAfterWrite
    <3> QED
      BY <1>1, <3>1, <3>3
  <2> QED
    BY <1>1, <2>1 DEF ArchivesHold
<1>9. RestoredFromArchive' /\ RestoreIsSettled'
  BY <1>1 DEF RestoreInv, RestoredFromArchive, RestoreIsSettled
<1> QED
  BY <1>5, <1>6, <1>7, <1>8, <1>9 DEF RestoreInv

\* The invariant speaks of the libraries and archives only, not of noteGone.
LEMMA RestoreUnread ==
  ASSUME RestoreInv, noteGone' \in BOOLEAN,
         UNCHANGED <<tick, library, archives, noteOps, known, bare, passed, restored>>
  PROVE  RestoreInv'
<1>1. RestoreTypeOK' /\ RestoredFromArchive'
  BY DEF RestoreInv, RestoreTypeOK, RestoredFromArchive
<1>2. NotesGrow'
  BY DEF RestoreInv, NotesGrow
<1>3. LibrariesHold'
  BY DEF RestoreInv, LibrariesHold, Holds, HoldsNote, KnownSoFar, Shows
<1>4. ArchivesHold'
  BY DEF RestoreInv, ArchivesHold, Holds, HoldsNote, KnownSoFar, Shows
<1>5. RestoreIsSettled'
  BY DEF RestoreInv, RestoreIsSettled
<1> QED
  BY <1>1, <1>2, <1>3, <1>4, <1>5 DEF RestoreInv

LEMMA NoteDeletedStep ==
  ASSUME RestoreInv, NoteDeleted
  PROVE  RestoreInv'
BY RestoreUnread DEF NoteDeleted

LEMMA RestoreStutters ==
  ASSUME RestoreInv, UNCHANGED restoreVars
  PROVE  RestoreInv'
<1>1. noteGone' \in BOOLEAN
  BY DEF restoreVars, RestoreInv, RestoreTypeOK
<1> QED
  BY <1>1, RestoreUnread DEF restoreVars

\* export_library: the archive holds what the library does.
LEMMA ExportStep ==
  ASSUME RestoreInv, NEW m \in Home, Export(m)
  PROVE  RestoreInv'
<1>1. UNCHANGED <<tick, library, noteOps, noteGone, known, bare, passed, restored>>
  BY DEF Export, ArchiveOf
<1>2. PICK lib \in Library, k \in Known, b \in BOOLEAN, o \in BOOLEAN :
        lib = library[m] /\ k = known[m] /\ b = bare[m] /\ o = passed[m]
  BY RestoreTypes
<1>3. PICK new : new = [library |-> lib, known |-> k, bare |-> b, passed |-> o]
  OBVIOUS
<1>4. new \in Archive /\ new.library = lib /\ new.known = k /\ new.bare = b /\ new.passed = o
  BY <1>3 DEF Archive
<1>5. archives \in Seq(Archive) /\ archives' = Append(archives, new) /\ Len(archives) < MaxArchives
  BY <1>2, <1>3 DEF Export, ArchiveOf, RestoreInv, RestoreTypeOK
<1>6. /\ archives' \in Seq(Archive) /\ Len(archives') = Len(archives) + 1 /\ Len(archives) \in Nat
      /\ DOMAIN archives = 1 .. Len(archives) /\ DOMAIN archives' = 1 .. Len(archives) + 1
      /\ \A i \in DOMAIN archives : archives'[i] = archives[i]
      /\ archives'[Len(archives) + 1] = new
  BY <1>4, <1>5
<1>7. RestoreTypeOK'
  <2>1. Len(archives') <= MaxArchives
    BY <1>5, <1>6, RestoreAssumption
  <2> QED
    BY <1>1, <1>6, <2>1 DEF RestoreInv, RestoreTypeOK
<1>8. NotesGrow' /\ LibrariesHold'
  BY <1>1 DEF RestoreInv, NotesGrow, LibrariesHold, Holds, HoldsNote, KnownSoFar, Shows
<1>9. ArchivesHold'
  <2>1. ASSUME NEW i \in DOMAIN archives'
        PROVE  (Holds(archives[i].library, archives[i].known, archives[i].bare, archives[i].passed)
                  /\ KnownSoFar(archives[i].known))'
    <3>1. PICK a : a = archives'[i]
      OBVIOUS
    <3>2. Holds(a.library, a.known, a.bare, a.passed) /\ KnownSoFar(a.known)
      <4>1. CASE i = Len(archives) + 1
        <5>1. Holds(lib, k, b, o) /\ KnownSoFar(k)
          BY <1>2 DEF RestoreInv, LibrariesHold
        <5> QED
          BY <1>4, <1>6, <3>1, <4>1, <5>1
      <4>2. CASE i # Len(archives) + 1
        <5>1. i \in DOMAIN archives /\ a = archives[i]
          BY <1>6, <3>1, <4>2
        <5> QED
          BY <5>1 DEF RestoreInv, ArchivesHold
      <4> QED
        BY <4>1, <4>2
    <3>3. PICK before \in Nat : before = tick /\ before = tick'
      BY <1>1, RestoreTypes
    <3>4. before <= before /\ UNCHANGED noteOps
      BY <1>1, <3>3
    <3>5. Holds(a.library, a.known, a.bare, a.passed)' /\ KnownSoFar(a.known)'
      BY <3>2, <3>3, <3>4, HoldsLater
    <3> QED
      BY <3>1, <3>5
  <2> QED
    BY <2>1 DEF ArchivesHold
<1>10. RestoredFromArchive'
  <2>1. 0 .. Len(archives) \subseteq 0 .. Len(archives')
    BY <1>6
  <2> QED
    BY <1>1, <2>1 DEF RestoreInv, RestoredFromArchive
<1>11. RestoreIsSettled'
  <2>1. ASSUME NEW n \in Home, NEW i \in {restored[n]} \ {0}
        PROVE  archives'[i] = archives[i]
    <3>1. i \in DOMAIN archives
      BY <1>6 DEF RestoreInv, RestoredFromArchive
    <3> QED
      BY <1>6, <3>1
  <2>2. ASSUME NEW n \in Home, NEW i \in {restored'[n]} \ {0}
        PROVE  /\ archives'[i].library.facts \subseteq library'[n].facts
               /\ MergedInto(library'[n], archives'[i].library) = library'[n]
    BY <1>1, <2>1 DEF RestoreInv, RestoreIsSettled
  <2> QED
    BY <2>2 DEF RestoreIsSettled, MergedInto, MergeField, Applied, MergeNoteRow, RaisedClock, MergeSettingRow,
                MergeFacts, Later
<1> QED
  BY <1>7, <1>8, <1>9, <1>10, <1>11 DEF RestoreInv

\* The library that a restore leaves, with what it knows.
LEMMA RestoredStep ==
  ASSUME RestoreInv, NEW m \in Home, NEW i \in DOMAIN archives, NEW lib \in Library, NEW k \in Known,
         NEW b \in BOOLEAN, NEW o \in BOOLEAN, UNCHANGED <<tick, archives, noteOps, noteGone>>,
         library' = [library EXCEPT ![m] = lib], known' = [known EXCEPT ![m] = k],
         bare' = [bare EXCEPT ![m] = b], passed' = [passed EXCEPT ![m] = o],
         restored' = [restored EXCEPT ![m] = i],
         archives[i].library.facts \subseteq lib.facts, MergedInto(lib, archives[i].library) = lib,
         Holds(lib, k, b, o), KnownSoFar(k)
  PROVE  RestoreInv'
<1>1. i \in 0 .. Len(archives) /\ i \in 0 .. MaxArchives /\ i # 0
  BY RestoreTypes, RestoreAssumption DEF RestoreInv, RestoreTypeOK
<1>2. RestoreTypeOK'
  <2>1. /\ library' \in [Home -> Library] /\ known' \in [Home -> Known] /\ bare' \in [Home -> BOOLEAN]
        /\ passed' \in [Home -> BOOLEAN] /\ restored' \in [Home -> 0 .. MaxArchives]
    BY <1>1 DEF RestoreInv, RestoreTypeOK
  <2> QED
    BY <2>1 DEF RestoreInv, RestoreTypeOK
<1>3. /\ library'[m] = lib /\ known'[m] = k /\ bare'[m] = b /\ passed'[m] = o /\ restored'[m] = i
      /\ \A n \in Home \ {m} : /\ library'[n] = library[n] /\ known'[n] = known[n] /\ bare'[n] = bare[n]
                               /\ passed'[n] = passed[n] /\ restored'[n] = restored[n]
  BY DEF RestoreInv, RestoreTypeOK
<1>4. tick \in Nat /\ tick <= tick'
  BY RestoreTypes
<1>5. Holds(lib, k, b, o)' /\ KnownSoFar(k)'
  BY <1>4, HoldsLater
<1>6. (Holds(library[m], known[m], bare[m], passed[m]) /\ KnownSoFar(known[m]))'
  BY <1>3, <1>5
<1>7. \A j \in {restored'[m]} \ {0} :
        /\ archives[j].library.facts \subseteq library'[m].facts
        /\ MergedInto(library'[m], archives[j].library) = library'[m]
  BY <1>3
<1>8. restored'[m] \in 0 .. Len(archives)
  BY <1>1, <1>3
<1> QED
  BY <1>2, <1>3, <1>4, <1>6, <1>7, <1>8, OneLibraryChanges

LEMMA RestoreReplaceStep ==
  ASSUME RestoreInv, NEW m \in Home, NEW i \in DOMAIN archives, RestoreReplace(m, i)
  PROVE  RestoreInv'
<1>1. PICK t \in Library, l \in Known, c \in BOOLEAN, p \in BOOLEAN :
        /\ t = archives[i].library /\ l = archives[i].known
        /\ c = archives[i].bare /\ p = archives[i].passed
  BY RestoreTypes
<1>2. /\ UNCHANGED <<tick, archives, noteOps, noteGone>>
      /\ library' = [library EXCEPT ![m] = t] /\ known' = [known EXCEPT ![m] = l]
      /\ bare' = [bare EXCEPT ![m] = c] /\ passed' = [passed EXCEPT ![m] = p]
      /\ restored' = [restored EXCEPT ![m] = i]
  BY <1>1 DEF RestoreReplace
<1>3. Holds(t, l, c, p) /\ KnownSoFar(l)
  BY <1>1 DEF RestoreInv, ArchivesHold
<1>4. archives[i].library.facts \subseteq t.facts /\ MergedInto(t, archives[i].library) = t
  BY <1>1, LibraryMerges
<1> QED
  BY <1>2, <1>3, <1>4, RestoredStep

LEMMA RestoreMergeStep ==
  ASSUME RestoreInv, NEW m \in Home, NEW i \in DOMAIN archives, RestoreMerge(m, i)
  PROVE  RestoreInv'
<1>1. PICK t \in Library, l \in Known, c \in BOOLEAN, p \in BOOLEAN :
        /\ t = archives[i].library /\ l = archives[i].known
        /\ c = archives[i].bare /\ p = archives[i].passed
  BY RestoreTypes
<1>2. PICK h \in Library, k \in Known, b \in BOOLEAN, o \in BOOLEAN :
        h = library[m] /\ k = known[m] /\ b = bare[m] /\ o = passed[m]
  BY RestoreTypes
<1>3. PICK lib \in Library : lib = MergedInto(h, t)
  BY LibraryMerges
<1>4. PICK both : both = [field |-> k.field \cup l.field, note |-> k.note \cup l.note,
                          setting |-> k.setting \cup l.setting, dead |-> k.dead \/ l.dead]
  OBVIOUS
<1>5. /\ both \in Known /\ both.field = k.field \cup l.field /\ both.note = k.note \cup l.note
      /\ both.setting = k.setting \cup l.setting /\ both.dead = (k.dead \/ l.dead)
  BY <1>4 DEF Known
<1>6. PICK d \in BOOLEAN : d = (b \/ c)
  OBVIOUS
<1>7. PICK q \in BOOLEAN : q = (o \/ p \/ Overtakes(h.note, t.note))
  OBVIOUS
<1>8. /\ UNCHANGED <<tick, archives, noteOps, noteGone>>
      /\ library' = [library EXCEPT ![m] = lib] /\ known' = [known EXCEPT ![m] = both]
      /\ bare' = [bare EXCEPT ![m] = d] /\ passed' = [passed EXCEPT ![m] = q]
      /\ restored' = [restored EXCEPT ![m] = i]
  BY <1>1, <1>2, <1>3, <1>4, <1>6, <1>7 DEF RestoreMerge
<1>9. Holds(h, k, b, o) /\ KnownSoFar(k) /\ Holds(t, l, c, p) /\ KnownSoFar(l)
  BY <1>1, <1>2 DEF RestoreInv, LibrariesHold, ArchivesHold
<1>10. /\ lib.field = MergeField(h.field, t.field) /\ lib.note = MergeNoteRow(h.note, t.note)
       /\ lib.setting = MergeSettingRow(h.setting, t.setting)
  BY <1>3 DEF MergedInto
<1>11. /\ {h.field, t.field, h.setting, t.setting} \subseteq Cell /\ {h.note, t.note} \subseteq NoteRow
       /\ {k.field, l.field, k.setting, l.setting} \subseteq SUBSET Tick
  BY DEF Library, Known
<1>12. Holds(lib, both, d, q)
  <2>1. ASSUME ~d
        PROVE  Shows(lib.field, both.field) /\ lib.field.stamp = lib.field.edit
    <3>1. ~b /\ ~c
      BY <1>6, <2>1
    <3>2. /\ h.field \in Cell /\ t.field \in Cell
          /\ k.field \in SUBSET Tick /\ l.field \in SUBSET Tick
      BY <1>11
    <3>3. /\ Shows(h.field, k.field) /\ h.field.stamp = h.field.edit
          /\ Shows(t.field, l.field) /\ t.field.stamp = t.field.edit
      BY <1>9, <3>1 DEF Holds
    <3>4. /\ Shows(MergeField(h.field, t.field), k.field \cup l.field)
          /\ MergeField(h.field, t.field).stamp = MergeField(h.field, t.field).edit
      BY <3>2, <3>3, FieldShows
    <3> QED
      BY <1>5, <1>10, <3>4
  <2>2. Shows(lib.setting, both.setting) /\ lib.setting.stamp = lib.setting.edit
    <3>1. /\ h.setting \in Cell /\ t.setting \in Cell
          /\ k.setting \in SUBSET Tick /\ l.setting \in SUBSET Tick
      BY <1>11
    <3>2. /\ Shows(h.setting, k.setting) /\ h.setting.stamp = h.setting.edit
          /\ Shows(t.setting, l.setting) /\ t.setting.stamp = t.setting.edit
      BY <1>9 DEF Holds
    <3>3. /\ Shows(MergeSettingRow(h.setting, t.setting), k.setting \cup l.setting)
          /\ MergeSettingRow(h.setting, t.setting).stamp = MergeSettingRow(h.setting, t.setting).edit
      BY <3>1, <3>2, SettingShows
    <3> QED
      BY <1>5, <1>10, <3>3
  <2>3. ASSUME ~q
        PROVE  HoldsNote(lib.note, both)
    <3>1. ~o /\ ~p /\ ~Overtakes(h.note, t.note)
      BY <1>7, <2>3
    <3>2. HoldsNote(h.note, k) /\ HoldsNote(t.note, l)
      BY <1>9, <3>1 DEF Holds
    <3>3. NotesGrow /\ noteOps \in Seq(Tick)
      BY DEF RestoreInv, RestoreTypeOK
    <3>4. HoldsNote(MergeNoteRow(h.note, t.note), both)
      BY <1>5, <1>9, <1>11, <3>1, <3>2, <3>3, NoteShows
    <3> QED
      BY <1>10, <3>4
  <2> QED
    BY <2>1, <2>2, <2>3 DEF Holds
<1>13. KnownSoFar(both)
  BY <1>5, <1>9 DEF KnownSoFar
<1>14. archives[i].library.facts \subseteq lib.facts /\ MergedInto(lib, archives[i].library) = lib
  BY <1>1, <1>3, LibraryMerges
<1> QED
  BY <1>5, <1>8, <1>12, <1>13, <1>14, RestoredStep

LEMMA RestoreStep == RestoreInv /\ [RestoreNext]_restoreVars => RestoreInv'
<1> SUFFICES ASSUME RestoreInv, [RestoreNext]_restoreVars PROVE RestoreInv'
  OBVIOUS
<1>1. CASE UNCHANGED restoreVars
  BY <1>1, RestoreStutters
<1>2. CASE NoteWritten \/ NoteDeleted
  BY <1>2, NoteWrittenStep, NoteDeletedStep
<1>3. ASSUME NEW m \in Home, \E imported \in BOOLEAN : EditField(m, imported)
      PROVE  RestoreInv'
  BY <1>3, EditFieldStep
<1>4. ASSUME NEW m \in Home, \/ \E i \in DOMAIN noteOps : MergeNote(m, i)
                             \/ MergeNoteDelete(m) \/ MergeRemoteSetting(m)
      PROVE  RestoreInv'
  BY <1>4, MergeNoteStep, MergeNoteDeleteStep, MergeRemoteSettingStep
<1>5. ASSUME NEW m \in Home, AddFact(m) \/ Export(m)
      PROVE  RestoreInv'
  BY <1>5, AddFactStep, ExportStep
<1>6. ASSUME NEW m \in Home, \E i \in DOMAIN archives : RestoreMerge(m, i) \/ RestoreReplace(m, i)
      PROVE  RestoreInv'
  BY <1>6, RestoreMergeStep, RestoreReplaceStep
<1> QED
  BY <1>1, <1>2, <1>3, <1>4, <1>5, <1>6 DEF RestoreNext

(***************************************************************************)
(* The inductive invariant of backups: a library, and every archive, shows *)
(* the newest edit that reached it, the clock of a row is that of what it  *)
(* shows, and a library is settled on the archive it was restored from.    *)
(***************************************************************************)
THEOREM RestoreInvariant == RestoreSpec => []RestoreInv
<1>1. RestoreInit => RestoreInv
  BY RestoreInitInv
<1>2. RestoreInv /\ [RestoreNext]_restoreVars => RestoreInv'
  BY RestoreStep
<1> QED
  BY <1>1, <1>2, PTL DEF RestoreSpec

LEMMA ShowsNewest ==
  ASSUME NEW row, NEW edits \in SUBSET Tick, Shows(row, edits)
  PROVE  IsNewest(row, edits)
<1>1. ASSUME NEW t \in edits
      PROVE  t <= row.edit /\ row.edit \in edits
  <2>1. t <= row.edit /\ t \in Nat /\ t > 0
    BY DEF Shows, Tick
  <2>2. row.edit # 0
    BY <2>1
  <2> QED
    BY <2>1, <2>2 DEF Shows
<1> QED
  BY <1>1 DEF IsNewest

(***************************************************************************)
(* export_library and restore_library: for any number of libraries, edits, *)
(* archives and restores, in merge mode and in replace mode, a restore     *)
(* never puts something older over something newer, brings every fact, and *)
(* has nothing left to do after once.                                      *)
(***************************************************************************)
THEOREM RestoreFaithful == RestoreSpec => []RestoreIsFaithful
<1>1. RestoreInv => RestoreIsFaithful
  <2> SUFFICES ASSUME RestoreInv PROVE RestoredIsNewest
    BY DEF RestoreIsFaithful, RestoreInv
  <2>1. ASSUME NEW m \in Home
        PROVE  /\ ~bare[m] => IsNewest(library[m].field, known[m].field)
               /\ IsNewest(library[m].setting, known[m].setting)
               /\ ~passed[m] =>
                    /\ IsNewest(library[m].note, known[m].note)
                    /\ library[m].note.dead = known[m].dead
                    /\ library[m].note.stamp \in {0, library[m].note.edit}
    <3>1. Holds(library[m], known[m], bare[m], passed[m])
      BY DEF RestoreInv, LibrariesHold
    <3>2. /\ known[m].field \in SUBSET Tick /\ known[m].note \in SUBSET Tick
          /\ known[m].setting \in SUBSET Tick
      BY RestoreTypes DEF Known
    <3> QED
      BY <3>1, <3>2, ShowsNewest DEF Holds, HoldsNote
  <2> QED
    BY <2>1 DEF RestoredIsNewest
<1> QED
  BY <1>1, RestoreInvariant, PTL

=============================================================================
