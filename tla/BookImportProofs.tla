--------------------------- MODULE BookImportProofs ---------------------------
(***************************************************************************)
(* Theorems about BookImport for every set of devices, every finite set of *)
(* rows, and every number of books, imports and changes.                   *)
(***************************************************************************)
EXTENDS BookImport, FiniteSetTheorems, SequenceTheorems, TLAPS

-----------------------------------------------------------------------------
(* BookImport: the inductive invariant, in parts. *)

BookOp == [type : {"create", "delete"}, book : Volume, after : [Machine -> Nat]]
Making == [by : Machine, row : ExportRow, import : 0 .. MaxImports]

\* What d knows of the ops of each device: all of its own, and what it merged.
Of(d) == [f \in Machine |-> IF f = d THEN Len(sent[d]) ELSE merged[d][f]]

\* Some op among the first v[f] of each device f creates, or deletes, x.
Tells(v, type, x) ==
  \E f \in Machine : \E n \in 1 .. v[f] : sent[f][n].type = type /\ sent[f][n].book = x

\* What each op came after is there.
Whole(v) ==
  \A f \in Machine :
    /\ v[f] <= Len(sent[f])
    /\ \A n \in 1 .. v[f] : \A g \in Machine : sent[f][n].after[g] <= v[g]

Excused == discarded \cup crossed

\* No device has said that k is deleted.
NeverDeleted(k) ==
  \A f \in Machine : \A n \in 1 .. Len(sent[f]) :
    sent[f][n].type = "delete" => sent[f][n].book # k

\* Whoever knows v, and all that its ops came after, has a live book for each row.
CutCovers(v) ==
  \A x \in Volume : Tells(v, "create", x) =>
    \A r \in covers[x] \ Excused :
      \E k \in Volume : Tells(v, "create", k) /\ ~Tells(v, "delete", k) /\ r \in covers[k]

CutsCover == \A v \in [Machine -> Nat] : Whole(v) => CutCovers(v)

\* The create of a book is one op, of the device that made it.
CreatesAreUnique ==
  \A f \in Machine : \A n \in 1 .. Len(sent[f]) :
    LET op == sent[f][n] IN
    /\ op.book \in 1 .. Len(made)
    /\ op.type = "create" => /\ made[op.book].by = f
                             /\ \A m \in 1 .. Len(sent[f]) :
                                  sent[f][m].type = "create" /\ sent[f][m].book = op.book => m = n
    /\ op.type = "delete" => op.book \in Arrived(f) /\ ~OnShelf(f, op.book)

BooksAreCreated ==
  \A x \in 1 .. Len(made) : \E n \in 1 .. Len(sent[made[x].by]) :
    sent[made[x].by][n].type = "create" /\ sent[made[x].by][n].book = x

\* Nothing is known or came after what is not there.
KnownIsSent ==
  /\ \A d, e \in Machine : merged[d][e] <= Len(sent[e])
  /\ \A f \in Machine : \A n \in 1 .. Len(sent[f]) : \A g \in Machine :
       sent[f][n].after[g] <= Len(sent[g])
  /\ \A d \in Machine : Whole(Of(d))

\* What a device has is what the ops it knows say, but for what it has undone.
RowsFollowOps ==
  \A d \in Machine : \A x \in Volume :
    /\ ~Tells(Of(d), "create", x) => book[d][x] = "none"
    /\ Tells(Of(d), "create", x) /\ ~Tells(Of(d), "delete", x) =>
         OnShelf(d, x) \/ covers[x] \subseteq Excused

\* A log names books that the import has made, or that inherited from them.
LogIsOfImport ==
  \A d \in Machine : \A l \in logged[d] :
    l[2] \in 1 .. Len(made) /\ (made[l[2]].import = l[1] \/ l \in heirs)

\* A book stands for its row, and for no other that is not recurring; it is still
\* known by it where it was made, and no other book has the row.
OneBookPerRow ==
  /\ \A x \in 1 .. Len(made) : made[x].row \in covers[x]
  /\ \A x \in Volume : covers[x] # {} => x \in 1 .. Len(made)
  /\ \A x \in 1 .. Len(made) : \A r \in covers[x] \ recurring :
       made[x].row = r /\ r \in ids[made[x].by][x]
  /\ \A x, y \in 1 .. Len(made) : made[x].row = made[y].row /\ made[x].row \notin recurring => x = y

BooksInBounds ==
  /\ Len(made) <= MaxBooks
  /\ \A d \in Machine : walk[d].import = 0 => walk[d].todo = {}

ImportInv ==
  /\ ImportTypeOK /\ BooksInBounds /\ KnownIsSent /\ CreatesAreUnique /\ BooksAreCreated
  /\ RowsFollowOps /\ LogIsOfImport /\ OneBookPerRow /\ CutsCover

-----------------------------------------------------------------------------
(* Sets as sequences, types, and what the devices know. *)

\* SetToSeq lists a finite set: each member once.
LEMMA RowsInOrder ==
  ASSUME NEW S, IsFiniteSet(S)
  PROVE  /\ SetToSeq(S) \in [1 .. Cardinality(S) -> S] /\ Cardinality(S) \in Nat
         /\ IsInjective(SetToSeq(S))
         /\ \A r \in S : \E k \in 1 .. Cardinality(S) : SetToSeq(S)[k] = r
<1>1. Cardinality(S) \in Nat /\ ExistsBijection(1 .. Cardinality(S), S)
  BY FS_CardinalityType
<1>2. PICK f \in [1 .. Cardinality(S) -> S] : IsInjective(f)
  <2>1. PICK f : f \in Bijection(1 .. Cardinality(S), S)
    BY <1>1 DEF ExistsBijection
  <2> QED
    BY <2>1 DEF Bijection, Injection, IsInjective
<1>3. SetToSeq(S) \in [1 .. Cardinality(S) -> S] /\ IsInjective(SetToSeq(S))
  BY <1>2 DEF SetToSeq
<1>4. SetToSeq(S) \in Surjection(1 .. Cardinality(S), S)
  <2>1. SetToSeq(S) \in Injection(1 .. Cardinality(S), S)
    BY <1>3 DEF Injection, IsInjective
  <2>2. Cardinality(1 .. Cardinality(S)) = Cardinality(S)
    BY <1>1, FS_Interval
  <2> QED
    BY <2>1, <2>2, FS_Injection
<1> QED
  BY <1>1, <1>3, <1>4 DEF Surjection

\* What the type invariant says of single books, ops and rows.
LEMMA ImportTypes ==
  ASSUME ImportTypeOK
  PROVE  /\ Len(made) \in Nat
         /\ \A x \in 1 .. Len(made) : made[x].by \in Machine /\ made[x].row \in ExportRow
         /\ \A f \in Machine : Len(sent[f]) \in Nat
         /\ \A f \in Machine : \A n \in 1 .. Len(sent[f]) :
              /\ sent[f][n].type \in {"create", "delete"} /\ sent[f][n].book \in Volume
              /\ \A g \in Machine : sent[f][n].after[g] \in Nat
         /\ \A d, e \in Machine : merged[d][e] \in Nat
         /\ \A d \in Machine : Of(d) \in [Machine -> Nat]
         /\ \A d \in Machine : \A x \in Volume : book[d][x] \in {"none", "live", "dead"}
<1>1. Len(made) \in Nat /\ \A x \in 1 .. Len(made) : made[x].by \in Machine /\ made[x].row \in ExportRow
  <2>1. made \in Seq(Making)
    BY DEF ImportTypeOK, Making
  <2>2. Len(made) \in Nat /\ \A x \in 1 .. Len(made) : made[x] \in Making
    BY <2>1, LenProperties, ElementOfSeq
  <2> QED
    BY <2>2 DEF Making
<1>2. ASSUME NEW f \in Machine
      PROVE  /\ Len(sent[f]) \in Nat
             /\ \A n \in 1 .. Len(sent[f]) :
                  /\ sent[f][n].type \in {"create", "delete"} /\ sent[f][n].book \in Volume
                  /\ \A g \in Machine : sent[f][n].after[g] \in Nat
  <2>1. sent[f] \in Seq(BookOp)
    BY DEF ImportTypeOK, BookOp
  <2>2. Len(sent[f]) \in Nat /\ \A n \in 1 .. Len(sent[f]) : sent[f][n] \in BookOp
    BY <2>1, LenProperties, ElementOfSeq
  <2> QED
    BY <2>2 DEF BookOp
<1>3. \A d, e \in Machine : merged[d][e] \in Nat
  BY DEF ImportTypeOK
<1>4. \A d \in Machine : Of(d) \in [Machine -> Nat]
  BY <1>2, <1>3 DEF Of
<1>5. \A d \in Machine : \A x \in Volume : book[d][x] \in {"none", "live", "dead"}
  BY DEF ImportTypeOK
<1> QED
  BY <1>1, <1>2, <1>3, <1>4, <1>5

\* The ops that were sent stay.
SentGrows ==
  \A f \in Machine :
    /\ Len(sent'[f]) \in Nat /\ Len(sent[f]) <= Len(sent'[f])
    /\ \A n \in 1 .. Len(sent[f]) : sent'[f][n] = sent[f][n]

\* What was there when it was told is told as before.
LEMMA TellsLater ==
  ASSUME ImportTypeOK, SentGrows, NEW v \in [Machine -> Nat],
         \A f \in Machine : v[f] <= Len(sent[f])
  PROVE  /\ \A type, x : Tells(v, type, x)' <=> Tells(v, type, x)
         /\ Whole(v)' <=> Whole(v)
<1>1. \A f \in Machine : \A n \in 1 .. v[f] : n \in 1 .. Len(sent[f]) /\ sent'[f][n] = sent[f][n]
  BY ImportTypes DEF SentGrows
<1>2. \A type, x : Tells(v, type, x)' <=> Tells(v, type, x)
  BY <1>1 DEF Tells
<1>3. \A f \in Machine : v[f] <= Len(sent'[f])
  BY ImportTypes DEF SentGrows
<1>4. Whole(v)' <=> Whole(v)
  BY <1>1, <1>3 DEF Whole
<1> QED
  BY <1>2, <1>4

\* The part of a cut that was there before.
LEMMA CutBefore ==
  ASSUME ImportTypeOK, SentGrows, KnownIsSent, NEW v \in [Machine -> Nat], Whole(v)'
  PROVE  \E w \in [Machine -> Nat] :
           /\ Whole(w)
           /\ \A f \in Machine : w[f] <= Len(sent[f]) /\ w[f] <= v[f]
           /\ \A f \in Machine : v[f] <= Len(sent[f]) => w[f] = v[f]
           /\ \A f \in Machine : v[f] > Len(sent[f]) => w[f] = Len(sent[f])
<1> DEFINE w == [f \in Machine |-> IF v[f] <= Len(sent[f]) THEN v[f] ELSE Len(sent[f])]
<1>1. /\ w \in [Machine -> Nat]
      /\ \A f \in Machine : w[f] <= Len(sent[f]) /\ w[f] <= v[f] /\ (w[f] = v[f] \/ w[f] = Len(sent[f]))
      /\ \A f \in Machine : v[f] <= Len(sent[f]) => w[f] = v[f]
      /\ \A f \in Machine : v[f] > Len(sent[f]) => w[f] = Len(sent[f])
  BY ImportTypes
<1> HIDE DEF w
<1>2. ASSUME NEW f \in Machine, NEW n \in 1 .. w[f], NEW g \in Machine
      PROVE  sent[f][n].after[g] <= w[g]
  <2>1. n \in 1 .. Len(sent[f]) /\ n \in 1 .. v[f]
    BY <1>1, ImportTypes
  <2>2. sent'[f][n] = sent[f][n]
    BY <2>1 DEF SentGrows
  <2>3. sent'[f][n].after[g] <= v[g]
    BY <2>1 DEF Whole
  <2>4. sent[f][n].after[g] <= Len(sent[g])
    BY <2>1 DEF KnownIsSent
  <2> QED
    BY <1>1, <2>2, <2>3, <2>4
<1>3. Whole(w)
  BY <1>1, <1>2 DEF Whole
<1> QED
  BY <1>1, <1>3

\* The ops from n on that f has sent are new.
NewOp(f, n) == n \in 1 .. Len(sent'[f]) /\ n > Len(sent[f])

\* A new delete names a book that takes over, and that came before it.
TakenOver(f, n, r) ==
  \E k \in Volume :
    /\ r \in covers'[k] /\ NeverDeleted(k)'
    /\ \E g \in Machine : \E m \in 1 .. Len(sent'[g]) :
         /\ sent'[g][m].type = "create" /\ sent'[g][m].book = k
         /\ (g = f /\ m < n) \/ m <= sent'[f][n].after[g]

\* The cuts stay covered if every new op is a create, or a delete of a book whose
\* rows are excused or taken over.
LEMMA CutsCoverLater ==
  ASSUME ImportInv, SentGrows, ImportTypeOK', Excused \subseteq Excused',
         \A x \in Volume : covers[x] \subseteq covers'[x],
         \A x \in Volume : \A r \in covers'[x] \ Excused' : r \in covers[x] \/ NeverDeleted(x)',
         \A f \in Machine : \A n \in Nat : NewOp(f, n) =>
           \/ /\ sent'[f][n].type = "create"
              /\ \A k \in Volume : sent'[f][n].book = k => NeverDeleted(k)'
           \/ /\ sent'[f][n].type = "delete"
              /\ \A r \in covers[sent'[f][n].book] \ Excused' : TakenOver(f, n, r)
  PROVE  CutsCover'
<1> SUFFICES ASSUME NEW v \in [Machine -> Nat], Whole(v)', NEW x \in Volume, Tells(v, "create", x)',
                    NEW r \in covers'[x] \ Excused'
             PROVE  \E k \in Volume : Tells(v, "create", k)' /\ ~Tells(v, "delete", k)' /\ r \in covers'[k]
  BY DEF CutsCover, CutCovers
<1>1. ImportTypeOK /\ KnownIsSent /\ CutsCover /\ \A f \in Machine : Len(sent[f]) \in Nat
  BY ImportTypes DEF ImportInv
<1>2. \A k : NeverDeleted(k)' => ~Tells(v, "delete", k)'
  BY DEF NeverDeleted, Tells, Whole
<1>3. CASE NeverDeleted(x)'
  BY <1>2, <1>3
<1>4. CASE ~NeverDeleted(x)'
  <2>1. r \in covers[x] /\ r \notin Excused
    BY <1>4
  <2>2. PICK w \in [Machine -> Nat] :
          /\ Whole(w)
          /\ \A f \in Machine : w[f] <= Len(sent[f]) /\ w[f] <= v[f]
          /\ \A f \in Machine : v[f] <= Len(sent[f]) => w[f] = v[f]
          /\ \A f \in Machine : v[f] > Len(sent[f]) => w[f] = Len(sent[f])
    BY <1>1, CutBefore
  <2>3. \A type, y : Tells(w, type, y)' <=> Tells(w, type, y)
    BY <1>1, <2>2, TellsLater
  <2>4. \A type, y : Tells(w, type, y)' => Tells(v, type, y)'
    BY <2>2 DEF Tells
  <2>5. ASSUME NEW type, NEW y, Tells(v, type, y)', ~Tells(w, type, y)'
        PROVE  \E f \in Machine : \E n \in 1 .. v[f] :
                 NewOp(f, n) /\ sent'[f][n].type = type /\ sent'[f][n].book = y
    <3>1. PICK f \in Machine, n \in Nat : n \in 1 .. v[f] /\ sent'[f][n].type = type /\ sent'[f][n].book = y
      BY <2>5 DEF Tells
    <3>2. ~(n <= w[f])
      <4>1. ~Tells(w, type, y)'
        BY <2>3, <2>5
      <4>2. ~(n \in 1 .. w[f])
        BY <3>1, <4>1 DEF Tells
      <4>3. w[f] \in Nat /\ v[f] \in Nat /\ n \in 1 .. v[f]
        BY <3>1
      <4> QED
        BY <4>2, <4>3
    <3>3. n > Len(sent[f])
      BY <1>1, <2>2, <3>1, <3>2
    <3>4. n \in 1 .. Len(sent'[f])
      <4>1. v[f] <= Len(sent'[f]) /\ Len(sent'[f]) \in Nat
        BY DEF Whole, SentGrows
      <4> QED
        BY <1>1, <3>1, <3>3, <4>1
    <3> QED
      BY <3>1, <3>3, <3>4 DEF NewOp
  <2>6. Tells(w, "create", x)
    <3>1. ASSUME ~Tells(w, "create", x)
          PROVE  FALSE
      <4>1. \E f \in Machine : \E n \in 1 .. v[f] :
              NewOp(f, n) /\ sent'[f][n].type = "create" /\ sent'[f][n].book = x
        BY <2>3, <2>5, <3>1
      <4>2. PICK f \in Machine, n \in Nat : NewOp(f, n) /\ sent'[f][n].type = "create" /\ sent'[f][n].book = x
        BY <4>1
      <4> QED
        BY <1>4, <4>2
    <3> QED
      BY <3>1
  <2>7. PICK k \in Volume : Tells(w, "create", k) /\ ~Tells(w, "delete", k) /\ r \in covers[k]
    BY <1>1, <2>1, <2>2, <2>6 DEF CutsCover, CutCovers
  <2>8. Tells(v, "create", k)' /\ r \in covers'[k]
    BY <2>3, <2>4, <2>7
  <2>9. CASE Tells(v, "delete", k)'
    <3>1. PICK f \in Machine, n \in Nat : n \in 1 .. v[f] /\
             NewOp(f, n) /\ sent'[f][n].type = "delete" /\ sent'[f][n].book = k
      BY <2>3, <2>5, <2>7, <2>9
    <3>2. TakenOver(f, n, r)
      BY <2>7, <3>1
    <3>3. PICK j \in Volume, g \in Machine, m \in Nat :
            /\ m \in 1 .. Len(sent'[g]) /\ r \in covers'[j] /\ NeverDeleted(j)'
            /\ sent'[g][m].type = "create" /\ sent'[g][m].book = j
            /\ (g = f /\ m < n) \/ m <= sent'[f][n].after[g]
      BY <3>2 DEF TakenOver
    <3>4. m \in 1 .. v[g]
      <4>1. CASE g = f /\ m < n
        BY <3>1, <3>3, <4>1
      <4>2. CASE m <= sent'[f][n].after[g]
        <5>1. sent'[f][n].after[g] <= v[g]
          BY <3>1 DEF Whole
        <5>2. sent'[f][n].after[g] \in Nat
          <6>1. \A e \in Machine : \A i \in 1 .. Len(sent'[e]) : sent'[e][i] \in BookOp
            <7>1. \A e \in Machine : sent'[e] \in Seq(BookOp)
              BY DEF ImportTypeOK, BookOp
            <7> QED
              BY <7>1, ElementOfSeq
          <6>2. sent'[f][n] \in BookOp
            BY <3>1, <6>1 DEF NewOp
          <6> QED
            BY <6>2 DEF BookOp
        <5> QED
          BY <3>3, <4>2, <5>1, <5>2
      <4> QED
        BY <3>3, <4>1, <4>2
    <3>5. Tells(v, "create", j)'
      BY <3>3, <3>4 DEF Tells
    <3> QED
      BY <1>2, <3>3, <3>5
  <2> QED
    BY <2>8, <2>9
<1> QED
  BY <1>3, <1>4

\* The books that are made are among those of the bound.
LEMMA MadeInBounds ==
  ASSUME ImportInv
  PROVE  1 .. Len(made) \subseteq Volume /\ Len(made) <= MaxBooks /\ MaxBooks \in Nat /\ MaxImports \in Nat
<1>1. Len(made) \in Nat /\ Len(made) <= MaxBooks /\ MaxBooks \in Nat /\ MaxImports \in Nat
  BY ImportAssumption, ImportTypes DEF ImportInv, BooksInBounds
<1> QED
  BY <1>1 DEF Volume

\* The books that d has been told of are those whose create is in what it knows.
LEMMA ArrivedIsTold ==
  ASSUME ImportInv, NEW d \in Machine, NEW x \in Volume
  PROVE  x \in Arrived(d) <=> Tells(Of(d), "create", x)
<1>1. /\ Of(d)[d] = Len(sent[d]) /\ \A f \in Machine \ {d} : Of(d)[f] = merged[d][f]
      /\ \A f \in Machine : Of(d)[f] <= Len(sent[f]) /\ Of(d)[f] \in Nat /\ Len(sent[f]) \in Nat
  BY ImportTypes DEF Of, ImportInv, KnownIsSent, Whole
<1>2. ASSUME x \in Arrived(d)
      PROVE  Tells(Of(d), "create", x)
  <2>1. x \in 1 .. Len(made) /\ made[x].by \in Machine
    BY <1>2, ImportTypes DEF Arrived, ImportInv
  <2>2. CASE made[x].by = d
    <3>1. \E n \in 1 .. Len(sent[d]) : sent[d][n].type = "create" /\ sent[d][n].book = x
      BY <2>1, <2>2 DEF ImportInv, BooksAreCreated
    <3> QED
      BY <1>1, <3>1 DEF Tells
  <2>3. CASE made[x].by # d
    <3>1. \E n \in 1 .. merged[d][made[x].by] :
            sent[made[x].by][n].type = "create" /\ sent[made[x].by][n].book = x
      BY <1>2, <2>3 DEF Arrived
    <3> QED
      BY <1>1, <2>1, <2>3, <3>1 DEF Tells
  <2> QED
    BY <2>2, <2>3
<1>3. ASSUME Tells(Of(d), "create", x)
      PROVE  x \in Arrived(d)
  <2>1. PICK f \in Machine, n \in Nat :
          n \in 1 .. Of(d)[f] /\ sent[f][n].type = "create" /\ sent[f][n].book = x
    BY <1>1, <1>3 DEF Tells
  <2>2. n \in 1 .. Len(sent[f])
    BY <1>1, <2>1
  <2>3. x \in 1 .. Len(made) /\ made[x].by = f
    BY <2>1, <2>2 DEF ImportInv, CreatesAreUnique
  <2>4. made[x].by = d \/ n \in 1 .. merged[d][made[x].by]
    BY <1>1, <2>1, <2>3
  <2> QED
    BY <2>1, <2>3, <2>4 DEF Arrived
<1> QED
  BY <1>2, <1>3

\* What the invariant says of the ops holds while they are the same.
LEMMA SameOps ==
  ASSUME ImportInv, UNCHANGED <<made, sent, merged>>
  PROVE  /\ KnownIsSent' /\ BooksAreCreated'
         /\ \A d \in Machine : \A type, x : Tells(Of(d), type, x)' <=> Tells(Of(d), type, x)
         /\ \A d \in Machine : Arrived(d)' = Arrived(d)
         /\ \A v : Whole(v)' <=> Whole(v)
         /\ \A v, type, x : Tells(v, type, x)' <=> Tells(v, type, x)
<1>1. KnownIsSent'
  BY DEF ImportInv, KnownIsSent, Whole, Of
<1>2. BooksAreCreated'
  BY DEF ImportInv, BooksAreCreated
<1>3. \A d \in Machine : \A type, x : Tells(Of(d), type, x)' <=> Tells(Of(d), type, x)
  BY DEF Tells, Of
<1>4. \A d \in Machine : Arrived(d)' = Arrived(d)
  BY DEF Arrived
<1>5. (\A v : Whole(v)' <=> Whole(v)) /\ \A v, type, x : Tells(v, type, x)' <=> Tells(v, type, x)
  BY DEF Whole, Tells
<1> QED
  BY <1>1, <1>2, <1>3, <1>4, <1>5

\* While the same books stand for the rows, more can only be excused.
LEMMA SameCuts ==
  ASSUME ImportInv, UNCHANGED <<sent, covers>>, Excused \subseteq Excused'
  PROVE  CutsCover'
<1> SUFFICES ASSUME NEW v \in [Machine -> Nat], Whole(v)', NEW x \in Volume, Tells(v, "create", x)',
                    NEW r \in covers[x] \ Excused'
             PROVE  \E k \in Volume : Tells(v, "create", k)' /\ ~Tells(v, "delete", k)' /\ r \in covers[k]
  BY DEF CutsCover, CutCovers
<1>1. Whole(v) /\ \A type, y : Tells(v, type, y)' <=> Tells(v, type, y)
  BY DEF Whole, Tells
<1>2. \E k \in Volume : Tells(v, "create", k) /\ ~Tells(v, "delete", k) /\ r \in covers[k]
  BY <1>1 DEF ImportInv, CutsCover, CutCovers
<1> QED
  BY <1>1, <1>2

\* Attachments, and what an import from Calibre goes through.
LEMMA QuietStep ==
  ASSUME ImportInv, ImportTypeOK', BooksInBounds',
         UNCHANGED <<made, book, ids, logged, sent, merged, covers, heirs, discarded, crossed, recurring>>
  PROVE  ImportInv'
<1>1. KnownIsSent' /\ BooksAreCreated'
  BY SameOps
<1>2. CreatesAreUnique'
  BY SameOps DEF ImportInv, CreatesAreUnique, OnShelf
<1>3. RowsFollowOps'
  BY SameOps DEF ImportInv, RowsFollowOps, OnShelf, Excused
<1>4. LogIsOfImport' /\ OneBookPerRow'
  BY DEF ImportInv, LogIsOfImport, OneBookPerRow
<1>5. CutsCover'
  BY SameCuts DEF Excused
<1> QED
  BY <1>1, <1>2, <1>3, <1>4, <1>5 DEF ImportInv

\* undo_import takes books that the import has made, or that inherited from them.
LEMMA UndoStep ==
  ASSUME ImportInv, ImportTypeOK', NEW d \in Machine, NEW i \in ImportNo, UndoImport(d, i)
  PROVE  ImportInv'
<1> DEFINE bs == {b \in Volume : <<i, b>> \in logged[d]}
<1>1. /\ UNCHANGED <<made, held, sent, merged, walk, imports, covers, heirs, crossed>>
      /\ logged' = [logged EXCEPT ![d] = {l \in logged[d] : l[2] \notin bs}]
      /\ discarded' = discarded \cup
           UNION {covers[b] : b \in {b \in bs : made[b].import = i \/ <<i, b>> \in heirs}}
      /\ recurring' = recurring \cup UNION {covers[b] : b \in bs}
      /\ book' = [book EXCEPT ![d] = [b \in Volume |-> IF b \in bs THEN "none" ELSE book[d][b]]]
      /\ ids' = [ids EXCEPT ![d] = [b \in Volume |-> IF b \in bs THEN {} ELSE ids[d][b]]]
  BY DEF UndoImport, RowsGone
<1>2. \A b \in bs : b \in 1 .. Len(made) /\ (made[b].import = i \/ <<i, b>> \in heirs)
  BY DEF ImportInv, LogIsOfImport
<1> HIDE DEF bs
<1>3. bs \subseteq Volume /\ \A b \in bs : covers[b] \subseteq discarded' /\ covers[b] \subseteq recurring'
  BY <1>1, <1>2 DEF bs
<1>4. /\ book \in [Machine -> [Volume -> {"none", "live", "dead"}]]
      /\ ids \in [Machine -> [Volume -> SUBSET ExportRow]]
      /\ logged \in [Machine -> SUBSET (ImportNo \X Volume)]
  BY DEF ImportInv, ImportTypeOK
<1>5. /\ \A e \in Machine \ {d} : book'[e] = book[e] /\ ids'[e] = ids[e] /\ logged'[e] = logged[e]
      /\ \A x \in bs : book'[d][x] = "none" /\ ids'[d][x] = {}
      /\ \A x \in Volume \ bs : book'[d][x] = book[d][x] /\ ids'[d][x] = ids[d][x]
      /\ logged'[d] \subseteq logged[d]
  BY <1>1, <1>3, <1>4
<1>6. Excused \subseteq Excused' /\ recurring \subseteq recurring'
  BY <1>1 DEF Excused
<1>7. KnownIsSent' /\ BooksAreCreated'
  BY <1>1, SameOps
<1>8. CreatesAreUnique'
  <2>1. \A f \in Machine : \A x \in Volume : OnShelf(f, x)' => OnShelf(f, x)
    BY <1>5 DEF OnShelf
  <2>2. \A f \in Machine : Arrived(f)' = Arrived(f)
    BY <1>1, SameOps
  <2>3. \A f \in Machine : \A n \in 1 .. Len(sent[f]) : sent[f][n].book \in Volume
    BY ImportTypes DEF ImportInv
  <2> QED
    BY <1>1, <2>1, <2>2, <2>3 DEF ImportInv, CreatesAreUnique
<1>9. RowsFollowOps'
  <2>1. ASSUME NEW e \in Machine, NEW x \in Volume
        PROVE  /\ ~Tells(Of(e), "create", x) => book'[e][x] = "none"
               /\ Tells(Of(e), "create", x) /\ ~Tells(Of(e), "delete", x) =>
                    book'[e][x] = "live" \/ covers[x] \subseteq Excused'
    <3>1. CASE e = d /\ x \in bs
      BY <1>3, <1>5, <3>1 DEF Excused
    <3>2. CASE ~(e = d /\ x \in bs)
      BY <1>5, <1>6, <3>2 DEF ImportInv, RowsFollowOps, OnShelf
    <3> QED
      BY <3>1, <3>2
  <2> QED
    BY <1>1, <2>1, SameOps DEF RowsFollowOps, OnShelf
<1>10. LogIsOfImport'
  BY <1>1, <1>5 DEF ImportInv, LogIsOfImport
<1>11. OneBookPerRow'
  <2>1. ASSUME NEW x \in 1 .. Len(made), NEW r \in covers[x] \ recurring'
        PROVE  made[x].row = r /\ r \in ids'[made[x].by][x]
    <3>1. made[x].row = r /\ r \in ids[made[x].by][x]
      BY <1>6 DEF ImportInv, OneBookPerRow
    <3>2. made[x].by \in Machine /\ x \in Volume
      BY ImportTypes, MadeInBounds DEF ImportInv
    <3>3. x \notin bs
      BY <1>3
    <3> QED
      BY <1>5, <3>1, <3>2, <3>3
  <2> QED
    BY <1>1, <1>6, <2>1 DEF ImportInv, OneBookPerRow
<1>12. CutsCover'
  BY <1>1, <1>6, SameCuts
<1>13. BooksInBounds'
  BY <1>1 DEF ImportInv, BooksInBounds
<1> QED
  BY <1>7, <1>8, <1>9, <1>10, <1>11, <1>12, <1>13 DEF ImportInv

\* Who has been told of a book stays told of it.
LEMMA ArrivedStays ==
  ASSUME ImportInv, SentGrows, UNCHANGED merged, Len(made') \in Nat, Len(made) <= Len(made'),
         \A x \in 1 .. Len(made) : made'[x] = made[x], NEW f \in Machine
  PROVE  Arrived(f) \subseteq Arrived(f)'
<1> SUFFICES ASSUME NEW x \in Arrived(f)
             PROVE  x \in Arrived(f)'
  OBVIOUS
<1>1. x \in 1 .. Len(made) /\ made[x].by \in Machine /\ Len(made) \in Nat
  BY ImportTypes DEF ImportInv, Arrived
<1>2. x \in 1 .. Len(made') /\ made'[x] = made[x]
  BY <1>1
<1>3. CASE made[x].by = f
  BY <1>2, <1>3 DEF Arrived
<1>4. CASE made[x].by # f
  <2>1. PICK n \in 1 .. merged[f][made[x].by] :
          sent[made[x].by][n].type = "create" /\ sent[made[x].by][n].book = x
    BY <1>4 DEF Arrived
  <2>2. n \in 1 .. Len(sent[made[x].by])
    <3>1. /\ merged[f][made[x].by] <= Len(sent[made[x].by]) /\ merged[f][made[x].by] \in Nat
          /\ Len(sent[made[x].by]) \in Nat
      BY <1>1, ImportTypes DEF ImportInv, KnownIsSent
    <3> QED
      BY <3>1
  <2>3. sent'[made[x].by][n] = sent[made[x].by][n]
    BY <1>1, <2>2 DEF SentGrows
  <2> QED
    BY <1>2, <2>1, <2>3 DEF Arrived
<1> QED
  BY <1>3, <1>4

-----------------------------------------------------------------------------
(* Pulls, deletes and merges. *)

\* A pull of the next op of e.
LEMMA PullStep ==
  ASSUME ImportInv, ImportTypeOK', NEW d \in Machine, NEW e \in Machine, PullBook(d, e)
  PROVE  ImportInv'
<1>1. PICK n \in Nat : n = merged[d][e] + 1
  BY ImportTypes DEF ImportInv
<1>2. PICK op : op = sent[e][n]
  OBVIOUS
<1>3. merged \in [Machine -> [Machine -> Nat]] /\ book \in [Machine -> [Volume -> {"none", "live", "dead"}]]
  BY DEF ImportInv, ImportTypeOK
<1>4. /\ d # e /\ n \in 1 .. Len(sent[e]) /\ n - 1 = merged[d][e]
      /\ merged' = [merged EXCEPT ![d][e] = n] /\ merged'[d][e] = n
      /\ merged'[d] = [merged[d] EXCEPT ![e] = n]
      /\ \A c \in Machine \ {d} : merged'[c] = merged[c]
      /\ \A f \in Machine \ {e} : merged'[d][f] = merged[d][f]
  <2>1. d # e /\ merged[d][e] < Len(sent[e]) /\ merged' = [merged EXCEPT ![d][e] = n]
    BY <1>1 DEF PullBook
  <2>2. n \in 1 .. Len(sent[e]) /\ n - 1 = merged[d][e]
    BY <1>1, <2>1, ImportTypes DEF ImportInv
  <2> QED
    BY <1>3, <2>1, <2>2
<1>5. /\ UNCHANGED <<changes, made, ids, logged, held, sent, walk, imports, covers, heirs,
                     discarded, crossed, recurring>>
      /\ \A f \in Machine \ {d} : op.after[f] <= merged[d][f]
      /\ book' = [book EXCEPT ![d][op.book] =
                    IF op.type = "create" /\ book[d][op.book] = "none" THEN "live"
                    ELSE IF op.type = "delete" /\ book[d][op.book] = "live" THEN "dead" ELSE book[d][op.book]]
  BY <1>2, <1>4 DEF PullBook
<1>6. /\ op.type \in {"create", "delete"} /\ op.book \in Volume /\ op.after[d] <= Len(sent[d])
      /\ \A f \in Machine : op.after[f] \in Nat /\ Len(sent[f]) \in Nat
  BY <1>2, <1>4, ImportTypes DEF ImportInv, KnownIsSent
<1>7. /\ \A c \in Machine \ {d} : book'[c] = book[c]
      /\ \A x \in Volume \ {op.book} : book'[d][x] = book[d][x]
      /\ book'[d][op.book] = IF op.type = "create" /\ book[d][op.book] = "none" THEN "live"
                             ELSE IF op.type = "delete" /\ book[d][op.book] = "live" THEN "dead"
                             ELSE book[d][op.book]
  BY <1>3, <1>5, <1>6
<1>8. /\ \A c \in Machine \ {d} : Of(c)' = Of(c)
      /\ Of(d)'[e] = n /\ Of(d)[e] = n - 1 /\ Of(d)[d] = Len(sent[d])
      /\ \A f \in Machine \ {e} : Of(d)'[f] = Of(d)[f]
      /\ \A f \in Machine \ {d} : Of(d)[f] = merged[d][f]
      /\ \A f \in Machine : Of(d)'[f] \in Nat /\ Of(d)[f] \in Nat /\ Of(d)[f] <= Of(d)'[f]
  <2>1. \A c \in Machine \ {d} : Of(c)' = Of(c)
    BY <1>4, <1>5 DEF Of
  <2>2. /\ Of(d)'[e] = n /\ Of(d)[e] = n - 1 /\ Of(d)[d] = Len(sent[d])
        /\ \A f \in Machine \ {e} : Of(d)'[f] = Of(d)[f]
        /\ \A f \in Machine \ {d} : Of(d)[f] = merged[d][f]
    BY <1>4, <1>5 DEF Of
  <2>3. \A f \in Machine : Of(d)[f] \in Nat
    BY ImportTypes DEF ImportInv
  <2> QED
    BY <1>1, <2>1, <2>2, <2>3
<1>9. KnownIsSent'
  <2>1. \A c, f \in Machine : merged'[c][f] <= Len(sent[f])
    <3>1. n <= Len(sent[e])
      BY <1>4
    <3>2. \A c, f \in Machine : merged[c][f] <= Len(sent[f])
      BY DEF ImportInv, KnownIsSent
    <3> QED
      BY <1>4, <3>1, <3>2
  <2>2. \A c \in Machine \ {d} : Whole(Of(c))'
    BY <1>5, <1>8 DEF ImportInv, KnownIsSent, Whole
  <2>3. Whole(Of(d))'
    <3>1. Whole(Of(d))
      BY DEF ImportInv, KnownIsSent
    <3>2. ASSUME NEW f \in Machine
          PROVE  Of(d)'[f] <= Len(sent[f])
      BY <1>4, <1>8, <3>1 DEF Whole
    <3>3. ASSUME NEW f \in Machine, NEW k \in 1 .. Of(d)'[f], NEW g \in Machine
          PROVE  sent[f][k].after[g] <= Of(d)'[g]
      <4>1. CASE f = e /\ k = n
        <5>1. op.after[g] <= Of(d)[g]
          BY <1>5, <1>6, <1>8
        <5> QED
          BY <1>2, <1>6, <1>8, <4>1, <5>1
      <4>2. CASE ~(f = e /\ k = n)
        <5>1. k \in 1 .. Of(d)[f]
          BY <1>8, <4>2
        <5>2. sent[f][k].after[g] <= Of(d)[g]
          BY <3>1, <5>1 DEF Whole
        <5>3. sent[f][k].after[g] \in Nat
          <6>1. k \in 1 .. Len(sent[f])
            BY <1>6, <3>1, <5>1, <1>8 DEF Whole
          <6> QED
            BY <6>1, ImportTypes DEF ImportInv
        <5> QED
          BY <1>8, <5>2, <5>3
      <4> QED
        BY <4>1, <4>2
    <3> QED
      BY <1>5, <3>2, <3>3 DEF Whole
  <2> QED
    BY <1>5, <2>1, <2>2, <2>3 DEF ImportInv, KnownIsSent
<1>10. /\ \A c \in Machine \ {d} : \A type, x : Tells(Of(c), type, x)' <=> Tells(Of(c), type, x)
       /\ \A type, x : Tells(Of(d), type, x)' <=>
            Tells(Of(d), type, x) \/ (op.type = type /\ op.book = x)
  <2>1. \A c \in Machine \ {d} : \A type, x : Tells(Of(c), type, x)' <=> Tells(Of(c), type, x)
    BY <1>5, <1>8 DEF Tells
  <2>2. ASSUME NEW type, NEW x
        PROVE  Tells(Of(d), type, x)' <=> Tells(Of(d), type, x) \/ (op.type = type /\ op.book = x)
    <3>1. ASSUME Tells(Of(d), type, x)
          PROVE  Tells(Of(d), type, x)'
      <4>1. \A f \in Machine : 1 .. Of(d)[f] \subseteq 1 .. Of(d)'[f]
        BY <1>8
      <4> QED
        BY <1>5, <3>1, <4>1 DEF Tells
    <3>2. ASSUME op.type = type, op.book = x
          PROVE  Tells(Of(d), type, x)'
      <4>1. n \in 1 .. Of(d)'[e] /\ sent'[e][n] = op
        BY <1>2, <1>4, <1>5, <1>8
      <4> QED
        BY <3>2, <4>1 DEF Tells
    <3>3. ASSUME Tells(Of(d), type, x)', ~Tells(Of(d), type, x)
          PROVE  op.type = type /\ op.book = x
      <4>1. PICK f \in Machine, k \in Nat :
              k \in 1 .. Of(d)'[f] /\ sent[f][k].type = type /\ sent[f][k].book = x
        BY <1>5, <1>8, <3>3 DEF Tells
      <4>2. ~(k \in 1 .. Of(d)[f])
        BY <3>3, <4>1 DEF Tells
      <4>3. f = e /\ k = n
        BY <1>8, <4>1, <4>2
      <4> QED
        BY <1>2, <4>1, <4>3
    <3> QED
      BY <3>1, <3>2, <3>3
  <2> QED
    BY <2>1, <2>2
<1>11. CreatesAreUnique'
  <2>1. \A f \in Machine : Arrived(f) \subseteq Arrived(f)'
    <3>1. \A f, g \in Machine : 1 .. merged[f][g] \subseteq 1 .. merged'[f][g]
      BY <1>1, <1>3, <1>4
    <3>2. \A x \in 1 .. Len(made) : made[x].by \in Machine
      BY ImportTypes DEF ImportInv
    <3> QED
      BY <1>5, <3>1, <3>2 DEF Arrived
  <2>2. ASSUME NEW f \in Machine, NEW k \in 1 .. Len(sent[f]), sent[f][k].type = "delete"
        PROVE  ~OnShelf(f, sent[f][k].book)'
    <3>1. PICK x \in Volume : x = sent[f][k].book
      BY ImportTypes DEF ImportInv
    <3>2. x \in Arrived(f) /\ book[f][x] # "live"
      BY <2>2, <3>1 DEF ImportInv, CreatesAreUnique, OnShelf
    <3>3. book'[f][x] # "live"
      <4>1. CASE f = d /\ x = op.book /\ op.type = "create"
        <5>1. x \in 1 .. Len(made) /\ made[x].by = e
          BY <1>2, <1>4, <4>1 DEF ImportInv, CreatesAreUnique
        <5>2. PICK m \in Nat : m \in 1 .. merged[d][e] /\ sent[e][m].type = "create" /\ sent[e][m].book = x
          <6>1. \E m \in 1 .. merged[d][e] : sent[e][m].type = "create" /\ sent[e][m].book = x
            BY <1>4, <3>2, <4>1, <5>1 DEF Arrived
          <6> QED
            BY <6>1
        <5>3. m \in 1 .. Len(sent[e]) /\ m # n
          BY <1>1, <1>4, <1>6, <5>2
        <5>4. m = n
          BY <1>2, <1>4, <4>1, <5>2, <5>3 DEF ImportInv, CreatesAreUnique
        <5> QED
          BY <5>3, <5>4
      <4>2. CASE ~(f = d /\ x = op.book /\ op.type = "create")
        BY <1>7, <3>2, <4>2
      <4> QED
        BY <4>1, <4>2
    <3> QED
      BY <1>5, <3>1, <3>3 DEF OnShelf
  <2> QED
    BY <1>5, <2>1, <2>2 DEF ImportInv, CreatesAreUnique
<1>12. RowsFollowOps'
  <2>1. ASSUME NEW x \in Volume
        PROVE  /\ ~Tells(Of(d), "create", x)' => book'[d][x] = "none"
               /\ Tells(Of(d), "create", x)' /\ ~Tells(Of(d), "delete", x)' =>
                    book'[d][x] = "live" \/ covers[x] \subseteq Excused
    <3>1. /\ ~Tells(Of(d), "create", x) => book[d][x] = "none"
          /\ Tells(Of(d), "create", x) /\ ~Tells(Of(d), "delete", x) =>
               book[d][x] = "live" \/ covers[x] \subseteq Excused
      BY DEF ImportInv, RowsFollowOps, OnShelf
    <3>2. /\ Tells(Of(d), "create", x)' <=> Tells(Of(d), "create", x) \/ (op.type = "create" /\ op.book = x)
          /\ Tells(Of(d), "delete", x)' <=> Tells(Of(d), "delete", x) \/ (op.type = "delete" /\ op.book = x)
      BY <1>10
    <3>3. CASE x # op.book
      BY <1>7, <3>1, <3>2, <3>3
    <3>4. CASE x = op.book /\ op.type = "create"
      BY <1>7, <3>1, <3>2, <3>4
    <3>5. CASE x = op.book /\ op.type = "delete"
      BY <1>7, <3>1, <3>2, <3>5
    <3> QED
      BY <1>6, <3>3, <3>4, <3>5
  <2>2. ASSUME NEW c \in Machine \ {d}, NEW x \in Volume
        PROVE  /\ ~Tells(Of(c), "create", x)' => book'[c][x] = "none"
               /\ Tells(Of(c), "create", x)' /\ ~Tells(Of(c), "delete", x)' =>
                    book'[c][x] = "live" \/ covers[x] \subseteq Excused
    BY <1>7, <1>10 DEF ImportInv, RowsFollowOps, OnShelf
  <2> QED
    BY <1>5, <2>1, <2>2 DEF RowsFollowOps, OnShelf, Excused
<1>13. LogIsOfImport' /\ OneBookPerRow' /\ BooksInBounds' /\ BooksAreCreated'
  BY <1>5 DEF ImportInv, LogIsOfImport, OneBookPerRow, BooksInBounds, BooksAreCreated
<1>14. CutsCover'
  BY <1>5, SameCuts DEF Excused
<1> QED
  BY <1>9, <1>11, <1>12, <1>13, <1>14 DEF ImportInv

\* A delete of b is sent by d, which had it on the shelf until now.
LEMMA DeleteSent ==
  ASSUME ImportInv, NEW d \in Machine, NEW b \in Volume, OnShelf(d, b), SendDelete(d, b),
         UNCHANGED <<made, merged>>, \A c \in Machine \ {d} : book'[c] = book[c],
         \A x \in Volume \ {b} : book'[d][x] = book[d][x], book'[d][b] # "live"
  PROVE  /\ SentGrows /\ KnownIsSent' /\ CreatesAreUnique' /\ BooksAreCreated'
         /\ b \in Arrived(d) /\ b \in 1 .. Len(made)
         /\ \A c \in Machine \ {d} : \A type, x : Tells(Of(c), type, x)' <=> Tells(Of(c), type, x)
         /\ \A type, x : Tells(Of(d), type, x)' <=>
              Tells(Of(d), type, x) \/ (type = "delete" /\ x = b)
         /\ \A f \in Machine : \A n \in Nat : NewOp(f, n) =>
              /\ f = d /\ n = Len(sent[d]) + 1
              /\ sent'[f][n].type = "delete" /\ sent'[f][n].book = b /\ sent'[f][n].after = merged[d]
         /\ \A k \in Volume \ {b} : NeverDeleted(k) => NeverDeleted(k)'
<1>1. PICK op : op = DeleteOp(d, b)
  OBVIOUS
<1>2. op.type = "delete" /\ op.book = b /\ op.after = merged[d]
  BY <1>1 DEF DeleteOp
<1>3. sent \in [Machine -> Seq(BookOp)] /\ merged[d] \in [Machine -> Nat] /\ op \in BookOp
  <2>1. sent \in [Machine -> Seq(BookOp)] /\ merged[d] \in [Machine -> Nat]
    BY DEF ImportInv, ImportTypeOK, BookOp
  <2> QED
    BY <1>1, <2>1 DEF DeleteOp, BookOp
<1>4. PICK t : t = Append(sent[d], op)
  OBVIOUS
<1>5. PICK N \in Nat : N = Len(sent[d])
  BY ImportTypes DEF ImportInv
<1>6. Len(t) = N + 1 /\ t[N + 1] = op /\ \A n \in 1 .. N : t[n] = sent[d][n]
  <2>1. sent[d] \in Seq(BookOp)
    BY <1>3
  <2> QED
    BY <1>3, <1>4, <1>5, <2>1
<1>7. sent' = [sent EXCEPT ![d] = t]
  BY <1>1, <1>4 DEF SendDelete
<1>8. /\ sent'[d] = t /\ \A c \in Machine \ {d} : sent'[c] = sent[c]
      /\ \A f \in Machine : Len(sent[f]) \in Nat
  BY <1>3, <1>7, ImportTypes DEF ImportInv
<1>9. /\ Len(sent'[d]) = N + 1 /\ sent'[d][N + 1] = op
      /\ \A n \in 1 .. N : sent'[d][n] = sent[d][n]
      /\ \A f \in Machine : \A n \in 1 .. Len(sent'[f]) :
           (f = d /\ n = N + 1) \/ (n \in 1 .. Len(sent[f]) /\ sent'[f][n] = sent[f][n])
  BY <1>5, <1>6, <1>8
<1>10. SentGrows
  BY <1>5, <1>8, <1>9 DEF SentGrows
<1>11. \A f \in Machine : \A n \in Nat : NewOp(f, n) =>
         /\ f = d /\ n = Len(sent[d]) + 1
         /\ sent'[f][n].type = "delete" /\ sent'[f][n].book = b /\ sent'[f][n].after = merged[d]
  BY <1>2, <1>5, <1>8, <1>9 DEF NewOp
<1>12. Tells(Of(d), "create", b) /\ b \in Arrived(d) /\ b \in 1 .. Len(made)
  <2>1. Tells(Of(d), "create", b)
    BY DEF ImportInv, RowsFollowOps, OnShelf
  <2> QED
    BY <2>1, ArrivedIsTold DEF Arrived
<1>13. /\ Of(d)'[d] = N + 1 /\ Of(d)[d] = N
       /\ \A f \in Machine \ {d} : Of(d)'[f] = merged[d][f] /\ Of(d)[f] = merged[d][f]
       /\ \A c \in Machine \ {d} : Of(c)' = Of(c)
       /\ \A c, f \in Machine : Of(c)[f] \in Nat /\ Of(c)[f] <= Len(sent[f])
       /\ Of(d)' \in [Machine -> Nat]
  <2>1. /\ Of(d)'[d] = N + 1 /\ Of(d)[d] = N
        /\ \A f \in Machine \ {d} : Of(d)'[f] = merged[d][f] /\ Of(d)[f] = merged[d][f]
    BY <1>5, <1>9 DEF Of
  <2>2. \A c \in Machine \ {d} : Of(c)' = Of(c)
    BY <1>8 DEF Of
  <2>3. \A c, f \in Machine : Of(c)[f] \in Nat /\ Of(c)[f] <= Len(sent[f])
    BY ImportTypes DEF ImportInv, KnownIsSent, Whole
  <2>4. Of(d)' \in [Machine -> Nat]
    BY <1>3, <1>5, <1>9 DEF Of
  <2> QED
    BY <2>1, <2>2, <2>3, <2>4
<1>14. /\ \A c \in Machine : \A type, x : Tells(Of(c), type, x) =>
            \E f \in Machine : \E n \in 1 .. Of(c)[f] : sent'[f][n].type = type /\ sent'[f][n].book = x
       /\ \A c \in Machine : \A f \in Machine : \A n \in 1 .. Of(c)[f] : sent'[f][n] = sent[f][n]
  <2>1. \A c \in Machine : \A f \in Machine : \A n \in 1 .. Of(c)[f] : sent'[f][n] = sent[f][n]
    <3>1. ASSUME NEW c \in Machine, NEW f \in Machine, NEW n \in 1 .. Of(c)[f]
          PROVE  sent'[f][n] = sent[f][n]
      <4>1. Of(c)[f] \in Nat /\ Of(c)[f] <= Len(sent[f]) /\ Len(sent[f]) \in Nat
        BY <1>8, <1>13
      <4>2. n \in 1 .. Len(sent[f])
        BY <4>1
      <4> QED
        BY <1>10, <4>2 DEF SentGrows
    <3> QED
      BY <3>1
  <2> QED
    BY <2>1 DEF Tells
<1>15. \A c \in Machine \ {d} : \A type, x : Tells(Of(c), type, x)' <=> Tells(Of(c), type, x)
  <2>1. ASSUME NEW c \in Machine \ {d}, NEW type, NEW x
        PROVE  Tells(Of(c), type, x)' <=> Tells(Of(c), type, x)
    <3>1. Of(c)' = Of(c) /\ \A f \in Machine : \A n \in 1 .. Of(c)[f] : sent'[f][n] = sent[f][n]
      BY <1>13, <1>14
    <3> QED
      BY <3>1 DEF Tells
  <2> QED
    BY <2>1
<1>16. ASSUME NEW type, NEW x
       PROVE  Tells(Of(d), type, x)' <=> Tells(Of(d), type, x) \/ (type = "delete" /\ x = b)
  <2>1. ASSUME Tells(Of(d), type, x)
        PROVE  Tells(Of(d), type, x)'
    <3>1. \A f \in Machine : 1 .. Of(d)[f] \subseteq 1 .. Of(d)'[f]
      BY <1>13
    <3>2. \E f \in Machine : \E n \in 1 .. Of(d)[f] : sent'[f][n].type = type /\ sent'[f][n].book = x
      BY <1>14, <2>1
    <3> QED
      BY <3>1, <3>2 DEF Tells
  <2>2. ASSUME type = "delete", x = b
        PROVE  Tells(Of(d), type, x)'
    <3>1. N + 1 \in 1 .. Of(d)'[d] /\ sent'[d][N + 1].type = type /\ sent'[d][N + 1].book = x
      BY <1>2, <1>9, <1>13, <2>2
    <3> QED
      BY <3>1 DEF Tells
  <2>3. ASSUME Tells(Of(d), type, x)'
        PROVE  Tells(Of(d), type, x) \/ (type = "delete" /\ x = b)
    <3>1. PICK f \in Machine : \E n \in 1 .. Of(d)'[f] : sent'[f][n].type = type /\ sent'[f][n].book = x
      BY <2>3 DEF Tells
    <3>2. PICK n \in Nat : n \in 1 .. Of(d)'[f] /\ sent'[f][n].type = type /\ sent'[f][n].book = x
      BY <1>13, <3>1
    <3>3. CASE f = d /\ n = N + 1
      BY <1>2, <1>9, <3>2, <3>3
    <3>4. CASE ~(f = d /\ n = N + 1)
      <4>1. n \in 1 .. Of(d)[f]
        BY <1>13, <3>2, <3>4
      <4>2. sent'[f][n] = sent[f][n]
        BY <1>14, <4>1
      <4> QED
        BY <3>2, <4>1, <4>2 DEF Tells
    <3> QED
      BY <3>3, <3>4
  <2> QED
    BY <2>1, <2>2, <2>3
<1>17. KnownIsSent'
  <2>1. \A c, f \in Machine : merged[c][f] <= Len(sent'[f])
    <3>1. \A c, f \in Machine : merged[c][f] <= Len(sent[f]) /\ merged[c][f] \in Nat
      BY ImportTypes DEF ImportInv, KnownIsSent
    <3> QED
      BY <1>10, <1>8, <3>1 DEF SentGrows
  <2>2. ASSUME NEW f \in Machine, NEW n \in 1 .. Len(sent'[f]), NEW g \in Machine
        PROVE  sent'[f][n].after[g] <= Len(sent'[g])
    <3>1. CASE f = d /\ n = N + 1
      BY <1>2, <1>9, <2>1, <3>1
    <3>2. CASE n \in 1 .. Len(sent[f]) /\ sent'[f][n] = sent[f][n]
      <4>1. sent[f][n].after[g] <= Len(sent[g]) /\ sent[f][n].after[g] \in Nat
        BY <3>2, ImportTypes DEF ImportInv, KnownIsSent
      <4> QED
        BY <1>8, <1>10, <3>2, <4>1 DEF SentGrows
    <3> QED
      BY <1>9, <3>1, <3>2
  <2>3. ASSUME NEW c \in Machine \ {d}
        PROVE  Whole(Of(c))'
    <3>1. Whole(Of(c)) /\ Of(c) \in [Machine -> Nat]
      BY ImportTypes DEF ImportInv, KnownIsSent
    <3>2. Of(c)' = Of(c) /\ \A f \in Machine : Of(c)[f] <= Len(sent'[f])
      BY <1>8, <1>10, <1>13 DEF SentGrows
    <3>3. \A f \in Machine : \A n \in 1 .. Of(c)[f] : sent'[f][n] = sent[f][n]
      BY <1>14
    <3> QED
      BY <3>1, <3>2, <3>3 DEF Whole
  <2>4. Whole(Of(d))'
    <3>1. Whole(Of(d))
      BY DEF ImportInv, KnownIsSent
    <3>2. \A f \in Machine : Of(d)'[f] <= Len(sent'[f])
      BY <1>5, <1>8, <1>9, <1>13
    <3>3. \A f \in Machine : Of(d)[f] <= Of(d)'[f] /\ Of(d)'[f] \in Nat
      BY <1>13
    <3>4. ASSUME NEW f \in Machine, NEW n \in 1 .. Of(d)'[f], NEW g \in Machine
          PROVE  sent'[f][n].after[g] <= Of(d)'[g]
      <4>1. CASE f = d /\ n = N + 1
        <5>1. merged[d][g] <= Of(d)'[g]
          <6>1. merged[d][d] <= Len(sent[d]) /\ merged[d][g] \in Nat
            BY ImportTypes DEF ImportInv, KnownIsSent
          <6> QED
            BY <1>5, <1>13, <6>1
        <5> QED
          BY <1>2, <1>9, <4>1, <5>1
      <4>2. CASE ~(f = d /\ n = N + 1)
        <5>1. n \in 1 .. Of(d)[f]
          BY <1>13, <4>2
        <5>2. sent'[f][n] = sent[f][n] /\ sent[f][n].after[g] <= Of(d)[g]
          BY <1>14, <3>1, <5>1 DEF Whole
        <5>3. sent[f][n].after[g] \in Nat
          <6>1. n \in 1 .. Len(sent[f])
            BY <1>8, <1>13, <5>1
          <6> QED
            BY <6>1, ImportTypes DEF ImportInv
        <5> QED
          BY <1>13, <3>3, <5>2, <5>3
      <4> QED
        BY <4>1, <4>2
    <3> QED
      BY <3>2, <3>4 DEF Whole
  <2> QED
    BY <2>1, <2>2, <2>3, <2>4 DEF KnownIsSent
<1>18. \A f \in Machine : Arrived(f) \subseteq Arrived(f)'
  BY <1>10, ArrivedStays, ImportTypes DEF ImportInv
<1>19. CreatesAreUnique'
  <2>1. ASSUME NEW f \in Machine, NEW n \in 1 .. Len(sent'[f])
        PROVE  /\ sent'[f][n].book \in 1 .. Len(made)
               /\ sent'[f][n].type = "create" =>
                    /\ made[sent'[f][n].book].by = f
                    /\ \A m \in 1 .. Len(sent'[f]) :
                         sent'[f][m].type = "create" /\ sent'[f][m].book = sent'[f][n].book => m = n
               /\ sent'[f][n].type = "delete" =>
                    sent'[f][n].book \in Arrived(f)' /\ book'[f][sent'[f][n].book] # "live"
    <3>1. CASE f = d /\ n = N + 1
      BY <1>2, <1>9, <1>12, <1>18, <3>1
    <3>2. CASE n \in 1 .. Len(sent[f]) /\ sent'[f][n] = sent[f][n]
      <4>1. PICK x \in Volume : x = sent[f][n].book
        BY <3>2, ImportTypes DEF ImportInv
      <4>2. /\ x \in 1 .. Len(made)
            /\ sent[f][n].type = "create" =>
                 /\ made[x].by = f
                 /\ \A m \in 1 .. Len(sent[f]) :
                      sent[f][m].type = "create" /\ sent[f][m].book = x => m = n
            /\ sent[f][n].type = "delete" => x \in Arrived(f) /\ book[f][x] # "live"
        BY <3>2, <4>1 DEF ImportInv, CreatesAreUnique, OnShelf
      <4>3. sent[f][n].type = "delete" => x \in Arrived(f)' /\ book'[f][x] # "live"
        BY <1>18, <4>2
      <4>4. ASSUME sent[f][n].type = "create", NEW m \in 1 .. Len(sent'[f]),
                   sent'[f][m].type = "create", sent'[f][m].book = x
            PROVE  m = n
        <5>1. m \in 1 .. Len(sent[f]) /\ sent'[f][m] = sent[f][m]
          BY <1>2, <1>9, <4>4
        <5> QED
          BY <4>2, <4>4, <5>1
      <4> QED
        BY <3>2, <4>1, <4>2, <4>3, <4>4
    <3> QED
      BY <1>9, <3>1, <3>2
  <2> QED
    BY <2>1 DEF CreatesAreUnique, OnShelf
<1>20. BooksAreCreated'
  <2>1. ASSUME NEW x \in 1 .. Len(made)
        PROVE  \E n \in 1 .. Len(sent'[made[x].by]) :
                 sent'[made[x].by][n].type = "create" /\ sent'[made[x].by][n].book = x
    <3>1. made[x].by \in Machine
      BY ImportTypes DEF ImportInv
    <3>2. PICK n \in 1 .. Len(sent[made[x].by]) :
            sent[made[x].by][n].type = "create" /\ sent[made[x].by][n].book = x
      BY DEF ImportInv, BooksAreCreated
    <3>3. n \in 1 .. Len(sent'[made[x].by]) /\ sent'[made[x].by][n] = sent[made[x].by][n]
      BY <1>8, <1>10, <3>1 DEF SentGrows
    <3> QED
      BY <3>2, <3>3
  <2> QED
    BY <2>1 DEF BooksAreCreated
<1>21. ASSUME NEW k \in Volume \ {b}, NeverDeleted(k)
       PROVE  NeverDeleted(k)'
  <2>1. ASSUME NEW f \in Machine, NEW n \in 1 .. Len(sent'[f]), sent'[f][n].type = "delete"
        PROVE  sent'[f][n].book # k
    <3>1. CASE f = d /\ n = N + 1
      BY <1>2, <1>9, <3>1
    <3>2. CASE n \in 1 .. Len(sent[f]) /\ sent'[f][n] = sent[f][n]
      BY <1>21, <2>1, <3>2 DEF NeverDeleted
    <3> QED
      BY <1>9, <3>1, <3>2
  <2> QED
    BY <2>1 DEF NeverDeleted
<1> QED
  BY <1>10, <1>11, <1>12, <1>15, <1>16, <1>17, <1>19, <1>20, <1>21

\* A delete excuses the rows that the book stood for.
LEMMA DeleteStep ==
  ASSUME ImportInv, ImportTypeOK', NEW d \in Machine, NEW b \in Volume, DeleteBook(d, b)
  PROVE  ImportInv'
<1>1. /\ UNCHANGED <<made, ids, logged, held, merged, walk, imports, covers, heirs, crossed, recurring>>
      /\ OnShelf(d, b) /\ SendDelete(d, b) /\ discarded' = discarded \cup covers[b]
      /\ book' = [book EXCEPT ![d][b] = "dead"]
  BY DEF DeleteBook
<1>2. /\ \A c \in Machine \ {d} : book'[c] = book[c]
      /\ \A x \in Volume \ {b} : book'[d][x] = book[d][x]
      /\ book'[d][b] = "dead"
  <2>1. book \in [Machine -> [Volume -> {"none", "live", "dead"}]]
    BY DEF ImportInv, ImportTypeOK
  <2> QED
    BY <1>1, <2>1
<1>3. /\ SentGrows /\ KnownIsSent' /\ CreatesAreUnique' /\ BooksAreCreated'
      /\ b \in Arrived(d) /\ b \in 1 .. Len(made)
      /\ \A c \in Machine \ {d} : \A type, x : Tells(Of(c), type, x)' <=> Tells(Of(c), type, x)
      /\ \A type, x : Tells(Of(d), type, x)' <=>
           Tells(Of(d), type, x) \/ (type = "delete" /\ x = b)
      /\ \A f \in Machine : \A n \in Nat : NewOp(f, n) =>
           /\ f = d /\ n = Len(sent[d]) + 1
           /\ sent'[f][n].type = "delete" /\ sent'[f][n].book = b /\ sent'[f][n].after = merged[d]
  BY <1>1, <1>2, DeleteSent
<1>4. Excused \subseteq Excused' /\ covers[b] \subseteq Excused'
  BY <1>1 DEF Excused
<1>5. CutsCover'
  BY <1>1, <1>3, <1>4, CutsCoverLater
<1>6. RowsFollowOps'
  <2>1. ASSUME NEW c \in Machine, NEW x \in Volume
        PROVE  /\ ~Tells(Of(c), "create", x)' => book'[c][x] = "none"
               /\ Tells(Of(c), "create", x)' /\ ~Tells(Of(c), "delete", x)' =>
                    book'[c][x] = "live" \/ covers[x] \subseteq Excused'
    <3>1. /\ ~Tells(Of(c), "create", x) => book[c][x] = "none"
          /\ Tells(Of(c), "create", x) /\ ~Tells(Of(c), "delete", x) =>
               book[c][x] = "live" \/ covers[x] \subseteq Excused
      BY DEF ImportInv, RowsFollowOps, OnShelf
    <3>2. CASE c # d
      BY <1>2, <1>3, <1>4, <3>1, <3>2
    <3>3. CASE c = d /\ x # b
      BY <1>2, <1>3, <1>4, <3>1, <3>3
    <3>4. CASE c = d /\ x = b
      <4>1. Tells(Of(d), "create", b) /\ Tells(Of(d), "delete", b)'
        BY <1>1, <1>3 DEF ImportInv, RowsFollowOps, OnShelf
      <4> QED
        BY <1>3, <3>4, <4>1
    <3> QED
      BY <3>2, <3>3, <3>4
  <2> QED
    BY <1>1, <2>1 DEF RowsFollowOps, OnShelf
<1>7. LogIsOfImport' /\ OneBookPerRow' /\ BooksInBounds'
  BY <1>1 DEF ImportInv, LogIsOfImport, OneBookPerRow, BooksInBounds
<1> QED
  BY <1>3, <1>5, <1>6, <1>7 DEF ImportInv

\* merge_books: the book that is kept stands for the rows of the other one too.
LEMMA MergeStep ==
  ASSUME ImportInv, ImportTypeOK', NEW d \in Machine, NEW keep \in Volume, NEW removed \in Volume,
         MergeBooks(d, keep, removed)
  PROVE  ImportInv'
<1> DEFINE moved == {i \in ImportNo : <<i, removed>> \in logged[d]}
<1>1. /\ UNCHANGED <<made, held, merged, walk, imports, discarded>>
      /\ keep # removed /\ OnShelf(d, keep) /\ OnShelf(d, removed) /\ SendDelete(d, removed)
      /\ covers' = [covers EXCEPT ![keep] = covers[keep] \cup covers[removed]]
      /\ recurring' = recurring \cup covers[removed]
      /\ book' = [book EXCEPT ![d] = [x \in Volume |-> IF x \in {removed} THEN "none" ELSE book[d][x]]]
      /\ ids' = [ids EXCEPT ![d] = [x \in Volume |-> IF x \in {removed} THEN {} ELSE ids[d][x]]]
      /\ heirs' = heirs \cup {<<i, keep>> : i \in moved}
      /\ logged' = [logged EXCEPT ![d] =
           {l \in logged[d] : l[2] # removed} \cup {<<i, keep>> : i \in moved}]
  BY DEF MergeBooks, RowsGone
<1>2. /\ crossed \subseteq crossed'
      /\ (\E e \in Machine \ {d} : keep \in Arrived(e) /\ ~OnShelf(e, keep)) =>
           covers[removed] \subseteq crossed'
  BY DEF MergeBooks
<1> HIDE DEF moved
<1>3. /\ covers \in [Volume -> SUBSET ExportRow] /\ book \in [Machine -> [Volume -> {"none", "live", "dead"}]]
      /\ ids \in [Machine -> [Volume -> SUBSET ExportRow]]
      /\ logged \in [Machine -> SUBSET (ImportNo \X Volume)]
  BY DEF ImportInv, ImportTypeOK
<1>4. /\ \A c \in Machine \ {d} : book'[c] = book[c] /\ ids'[c] = ids[c] /\ logged'[c] = logged[c]
      /\ \A x \in Volume \ {removed} : book'[d][x] = book[d][x] /\ ids'[d][x] = ids[d][x]
      /\ book'[d][removed] = "none"
      /\ \A l \in logged'[d] : l \in logged[d] \/ (l \in heirs' /\ l[2] = keep)
  BY <1>1, <1>3
<1>5. /\ covers'[keep] = covers[keep] \cup covers[removed]
      /\ \A x \in Volume \ {keep} : covers'[x] = covers[x]
  BY <1>1, <1>3
<1>6. /\ SentGrows /\ KnownIsSent' /\ CreatesAreUnique' /\ BooksAreCreated'
      /\ removed \in Arrived(d) /\ removed \in 1 .. Len(made)
      /\ \A c \in Machine \ {d} : \A type, x : Tells(Of(c), type, x)' <=> Tells(Of(c), type, x)
      /\ \A type, x : Tells(Of(d), type, x)' <=>
           Tells(Of(d), type, x) \/ (type = "delete" /\ x = removed)
      /\ \A f \in Machine : \A n \in Nat : NewOp(f, n) =>
           /\ f = d /\ n = Len(sent[d]) + 1
           /\ sent'[f][n].type = "delete" /\ sent'[f][n].book = removed /\ sent'[f][n].after = merged[d]
      /\ \A k \in Volume \ {removed} : NeverDeleted(k) => NeverDeleted(k)'
  <2>1. book'[d][removed] # "live"
    BY <1>4
  <2> QED
    BY <1>1, <1>4, <2>1, DeleteSent
<1>7. Excused \subseteq Excused' /\ recurring \subseteq recurring' /\ heirs \subseteq heirs'
  BY <1>1, <1>2 DEF Excused
<1>8. Tells(Of(d), "create", keep) /\ Tells(Of(d), "create", removed)
  BY <1>1 DEF ImportInv, RowsFollowOps, OnShelf
<1>9. keep \in 1 .. Len(made)
  BY <1>8, ArrivedIsTold DEF Arrived
<1>10. covers[removed] \subseteq Excused' \/ NeverDeleted(keep)'
  <2>1. CASE \E e \in Machine \ {d} : keep \in Arrived(e) /\ ~OnShelf(e, keep)
    BY <1>2, <2>1 DEF Excused
  <2>2. CASE \A e \in Machine \ {d} : keep \in Arrived(e) => OnShelf(e, keep)
    <3>1. NeverDeleted(keep)
      BY <1>1, <2>2 DEF NeverDeleted, ImportInv, CreatesAreUnique
    <3> QED
      BY <1>1, <1>6, <3>1
  <2> QED
    BY <2>1, <2>2
<1>11. CutsCover'
  <2>1. \A x \in Volume : covers[x] \subseteq covers'[x]
    BY <1>5
  <2>2. \A x \in Volume : \A r \in covers'[x] \ Excused' : r \in covers[x] \/ NeverDeleted(x)'
    BY <1>5, <1>10
  <2>3. ASSUME NEW f \in Machine, NEW n \in Nat, NewOp(f, n)
        PROVE  /\ sent'[f][n].type = "delete"
               /\ \A r \in covers[sent'[f][n].book] \ Excused' : TakenOver(f, n, r)
    <3>1. /\ f = d /\ n = Len(sent[d]) + 1
          /\ sent'[f][n].type = "delete" /\ sent'[f][n].book = removed /\ sent'[f][n].after = merged[d]
      BY <1>6, <2>3
    <3>2. ASSUME NEW r \in covers[removed] \ Excused'
          PROVE  TakenOver(f, n, r)
      <4>1. r \in covers'[keep] /\ NeverDeleted(keep)'
        BY <1>5, <1>10
      <4>2. PICK g \in Machine, m \in Nat :
              m \in 1 .. Of(d)[g] /\ sent[g][m].type = "create" /\ sent[g][m].book = keep
        <5>1. \A g \in Machine : Of(d)[g] \in Nat
          BY ImportTypes DEF ImportInv
        <5> QED
          BY <1>8, <5>1 DEF Tells
      <4>3. /\ m \in 1 .. Len(sent[g]) /\ Len(sent[d]) \in Nat
            /\ (g = d /\ m <= Len(sent[d])) \/ m <= merged[d][g]
        <5>1. Of(d)[g] <= Len(sent[g]) /\ Of(d)[g] \in Nat /\ Len(sent[g]) \in Nat /\ Len(sent[d]) \in Nat
          BY ImportTypes DEF ImportInv, KnownIsSent, Whole
        <5>2. Of(d)[g] = IF g = d THEN Len(sent[d]) ELSE merged[d][g]
          BY DEF Of
        <5> QED
          BY <4>2, <5>1, <5>2
      <4>4. m \in 1 .. Len(sent'[g]) /\ sent'[g][m] = sent[g][m]
        <5>1. Len(sent[g]) \in Nat
          BY ImportTypes DEF ImportInv
        <5> QED
          BY <1>6, <4>3, <5>1 DEF SentGrows
      <4>5. (g = f /\ m < n) \/ m <= sent'[f][n].after[g]
        BY <3>1, <4>3
      <4> QED
        BY <4>1, <4>2, <4>4, <4>5 DEF TakenOver
    <3> QED
      BY <3>1, <3>2
  <2> QED
    BY <1>6, <1>7, <2>1, <2>2, <2>3, CutsCoverLater
<1>12. RowsFollowOps'
  <2>1. ASSUME NEW c \in Machine, NEW x \in Volume
        PROVE  /\ ~Tells(Of(c), "create", x)' => book'[c][x] = "none"
               /\ Tells(Of(c), "create", x)' /\ ~Tells(Of(c), "delete", x)' =>
                    book'[c][x] = "live" \/ covers'[x] \subseteq Excused'
    <3>1. /\ ~Tells(Of(c), "create", x) => book[c][x] = "none"
          /\ Tells(Of(c), "create", x) /\ ~Tells(Of(c), "delete", x) =>
               book[c][x] = "live" \/ covers[x] \subseteq Excused
      BY DEF ImportInv, RowsFollowOps, OnShelf
    <3>2. CASE c # d /\ x # keep
      BY <1>4, <1>5, <1>6, <1>7, <3>1, <3>2
    <3>3. CASE c # d /\ x = keep
      <4>1. CASE keep \in Arrived(c) /\ book[c][keep] # "live"
        <5>1. covers[removed] \subseteq Excused'
          BY <1>2, <3>3, <4>1 DEF Excused, OnShelf
        <5> QED
          BY <1>4, <1>5, <1>6, <1>7, <3>1, <3>3, <4>1, <5>1
      <4>2. CASE ~(keep \in Arrived(c) /\ book[c][keep] # "live")
        <5>1. Tells(Of(c), "create", keep) <=> keep \in Arrived(c)
          BY ArrivedIsTold
        <5> QED
          BY <1>4, <1>6, <3>1, <3>3, <4>2, <5>1
      <4> QED
        BY <4>1, <4>2
    <3>4. CASE c = d /\ x = removed
      BY <1>4, <1>6, <3>4
    <3>5. CASE c = d /\ x = keep
      BY <1>1, <1>4, <1>6, <1>8, <3>5 DEF OnShelf
    <3>6. CASE c = d /\ x # removed /\ x # keep
      BY <1>4, <1>5, <1>6, <1>7, <3>1, <3>6
    <3> QED
      BY <3>2, <3>3, <3>4, <3>5, <3>6
  <2> QED
    BY <2>1 DEF RowsFollowOps, OnShelf
<1>13. LogIsOfImport'
  <2>1. ASSUME NEW c \in Machine, NEW l \in logged'[c]
        PROVE  l[2] \in 1 .. Len(made) /\ (made[l[2]].import = l[1] \/ l \in heirs')
    <3>1. CASE l \in logged[c]
      BY <1>7, <3>1 DEF ImportInv, LogIsOfImport
    <3>2. CASE l \notin logged[c]
      BY <1>4, <1>9, <3>2
    <3> QED
      BY <3>1, <3>2
  <2> QED
    BY <1>1, <2>1 DEF LogIsOfImport
<1>14. OneBookPerRow'
  <2>1. \A x \in 1 .. Len(made) : made[x].row \in covers'[x]
    BY <1>5, MadeInBounds DEF ImportInv, OneBookPerRow
  <2>2. \A x \in Volume : covers'[x] # {} => x \in 1 .. Len(made)
    BY <1>5, <1>9 DEF ImportInv, OneBookPerRow
  <2>3. ASSUME NEW x \in 1 .. Len(made), NEW r \in covers'[x] \ recurring'
        PROVE  made[x].row = r /\ r \in ids'[made[x].by][x]
    <3>1. x \in Volume /\ made[x].by \in Machine
      BY MadeInBounds, ImportTypes DEF ImportInv
    <3>2. r \in covers[x] \ recurring /\ x # removed
      BY <1>1, <1>5, <3>1
    <3>3. made[x].row = r /\ r \in ids[made[x].by][x]
      BY <3>2 DEF ImportInv, OneBookPerRow
    <3> QED
      BY <1>4, <3>1, <3>2, <3>3
  <2>4. \A x, y \in 1 .. Len(made) : made[x].row = made[y].row /\ made[x].row \notin recurring' => x = y
    BY <1>7 DEF ImportInv, OneBookPerRow
  <2> QED
    BY <1>1, <2>1, <2>2, <2>3, <2>4 DEF OneBookPerRow
<1>15. BooksInBounds'
  BY <1>1 DEF ImportInv, BooksInBounds
<1> QED
  BY <1>6, <1>11, <1>12, <1>13, <1>14, <1>15 DEF ImportInv

-----------------------------------------------------------------------------
(* Imports. *)

\* What MakeBooks makes.
MadeNow(d, i, rows, n, N, L, range) ==
  /\ Len(made') = n + N /\ \A x \in 1 .. n : made'[x] = made[x]
  /\ \A x \in range : /\ made'[x].by = d /\ made'[x].import = i /\ made'[x].row \in rows
                      /\ ids'[d][x] = {made'[x].row} /\ covers'[x] = {made'[x].row}
                      /\ book'[d][x] = "live"
  /\ \A x, y \in range : made'[x].row = made'[y].row => x = y
  /\ \A x \in Volume \ range : /\ ids'[d][x] = ids[d][x] /\ covers'[x] = covers[x]
                               /\ book'[d][x] = book[d][x]
  /\ \A c \in Machine \ {d} : ids'[c] = ids[c] /\ book'[c] = book[c] /\ sent'[c] = sent[c]
  /\ Len(sent'[d]) = L + N /\ \A m \in 1 .. L : sent'[d][m] = sent[d][m]
  /\ \A k \in 1 .. N : /\ sent'[d][L + k].type = "create" /\ sent'[d][L + k].book = n + k
                       /\ \A e \in Machine : sent'[d][L + k].after[e] = 0
  /\ recurring' = recurring \cup {r \in rows : \E b \in 1 .. n : r \in covers[b] /\ made[b].by # d}
  /\ made' \in Seq(Making) /\ sent' \in [Machine -> Seq(BookOp)]
  /\ ids' \in [Machine -> [Volume -> SUBSET ExportRow]] /\ covers' \in [Volume -> SUBSET ExportRow]
  /\ book' \in [Machine -> [Volume -> {"none", "live", "dead"}]]

\* MakeBooks appends to the books and to the log, and leaves the other devices.
LEMMA MakeBooksMakes ==
  ASSUME ImportInv, NEW d \in Machine, NEW i \in 0 .. MaxImports, NEW rows, IsFiniteSet(rows),
         rows \subseteq ExportRow, MakeBooks(d, i, rows)
  PROVE  \E n, N, L \in Nat :
           /\ n = Len(made) /\ N = Cardinality(rows) /\ L = Len(sent[d]) /\ n + N <= MaxBooks
           /\ MadeNow(d, i, rows, n, N, L, n + 1 .. n + N)
<1>1. PICK new : new = SetToSeq(rows)
  OBVIOUS
<1>2. PICK N : N = Cardinality(rows)
  OBVIOUS
<1>3. /\ N \in Nat /\ new \in [1 .. N -> rows] /\ new \in Seq(rows) /\ Len(new) = N
      /\ \A k \in 1 .. N : new[k] \in rows
      /\ \A k, j \in 1 .. N : new[k] = new[j] => k = j
  <2>1. N \in Nat /\ new \in [1 .. N -> rows] /\ IsInjective(new)
    BY <1>1, <1>2, RowsInOrder
  <2>2. \A k, j \in 1 .. N : new[k] = new[j] => k = j
    BY <2>1 DEF IsInjective
  <2>3. new \in Seq(rows) /\ Len(new) = N
    BY <2>1
  <2> QED
    BY <2>1, <2>2, <2>3
<1>4. PICK n \in Nat, L \in Nat : n = Len(made) /\ L = Len(sent[d])
  BY ImportTypes DEF ImportInv
<1> DEFINE range == n + 1 .. n + N
           books == [k \in 1 .. N |-> [by |-> d, row |-> new[k], import |-> i]]
           ops == [k \in 1 .. N |-> CreateOp(n + k)]
<1>5. /\ n + N <= MaxBooks /\ made' = made \o books
      /\ book' = [book EXCEPT ![d] = [x \in Volume |-> IF x \in range THEN "live" ELSE book[d][x]]]
      /\ ids' = [ids EXCEPT ![d] = [x \in Volume |-> IF x \in range THEN {new[x - n]} ELSE ids[d][x]]]
      /\ covers' = [x \in Volume |-> IF x \in range THEN {new[x - n]} ELSE covers[x]]
      /\ sent' = [sent EXCEPT ![d] = sent[d] \o ops]
      /\ recurring' = recurring \cup {r \in rows : \E b \in 1 .. n : r \in covers[b] /\ made[b].by # d}
  BY <1>1, <1>3, <1>4 DEF MakeBooks
<1>6. range \subseteq Volume /\ MaxBooks \in Nat
  BY <1>3, <1>4, <1>5, ImportAssumption DEF Volume
<1>7. /\ book \in [Machine -> [Volume -> {"none", "live", "dead"}]] /\ sent \in [Machine -> Seq(BookOp)]
      /\ ids \in [Machine -> [Volume -> SUBSET ExportRow]] /\ made \in Seq(Making)
      /\ covers \in [Volume -> SUBSET ExportRow]
  BY DEF ImportInv, ImportTypeOK, BookOp, Making
<1>8. /\ books \in Seq(Making) /\ Len(books) = N
      /\ \A k \in 1 .. N : books[k].by = d /\ books[k].row = new[k] /\ books[k].import = i
  <2>1. \A k \in 1 .. N : [by |-> d, row |-> new[k], import |-> i] \in Making
    BY <1>3 DEF Making
  <2> QED
    BY <1>3, <2>1
<1>9. /\ ops \in Seq(BookOp) /\ Len(ops) = N
      /\ \A k \in 1 .. N : /\ ops[k].type = "create" /\ ops[k].book = n + k
                           /\ \A e \in Machine : ops[k].after[e] = 0
  <2>1. ASSUME NEW k \in 1 .. N
        PROVE  /\ CreateOp(n + k) \in BookOp /\ CreateOp(n + k).type = "create"
               /\ CreateOp(n + k).book = n + k /\ \A e \in Machine : CreateOp(n + k).after[e] = 0
    <3>1. n + k \in Volume
      BY <1>3, <1>4, <1>6
    <3> QED
      BY <3>1 DEF CreateOp, BookOp
  <2>2. ops \in Seq(BookOp) /\ Len(ops) = N
    BY <1>3, <2>1
  <2> QED
    BY <2>1, <2>2
<1> HIDE DEF books, ops
<1>10. /\ made' \in Seq(Making) /\ Len(made') = n + N
       /\ \A x \in 1 .. n + N : made'[x] = IF x <= n THEN made[x] ELSE books[x - n]
  <2>1. made \in Seq(Making) /\ books \in Seq(Making) /\ Len(made) = n /\ Len(books) = N
    BY <1>4, <1>7, <1>8
  <2>2. /\ made \o books \in Seq(Making) /\ Len(made \o books) = Len(made) + Len(books)
        /\ \A x \in 1 .. Len(made) + Len(books) :
             (made \o books)[x] = IF x <= Len(made) THEN made[x] ELSE books[x - Len(made)]
    BY <2>1, ConcatProperties, Zenon
  <2> QED
    BY <1>5, <2>1, <2>2
<1>11. PICK t : t = sent[d] \o ops
  OBVIOUS
<1>12. /\ t \in Seq(BookOp) /\ Len(t) = L + N
       /\ \A m \in 1 .. L + N : t[m] = IF m <= L THEN sent[d][m] ELSE ops[m - L]
  <2>1. sent[d] \in Seq(BookOp) /\ ops \in Seq(BookOp) /\ Len(sent[d]) = L /\ Len(ops) = N
    BY <1>4, <1>7, <1>9
  <2>2. /\ sent[d] \o ops \in Seq(BookOp) /\ Len(sent[d] \o ops) = Len(sent[d]) + Len(ops)
        /\ \A m \in 1 .. Len(sent[d]) + Len(ops) :
             (sent[d] \o ops)[m] = IF m <= Len(sent[d]) THEN sent[d][m] ELSE ops[m - Len(sent[d])]
    BY <2>1, ConcatProperties, Zenon
  <2> QED
    BY <1>11, <2>1, <2>2
<1>13. /\ sent' \in [Machine -> Seq(BookOp)] /\ sent'[d] = t
       /\ \A c \in Machine \ {d} : sent'[c] = sent[c]
  BY <1>5, <1>7, <1>11, <1>12
<1>14. /\ \A m \in 1 .. L : sent'[d][m] = sent[d][m]
       /\ \A k \in 1 .. N : sent'[d][L + k] = ops[k]
  <2>1. \A m \in 1 .. L : m \in 1 .. L + N /\ m <= L
    BY <1>3, <1>4
  <2>2. \A k \in 1 .. N : L + k \in 1 .. L + N /\ ~(L + k <= L) /\ (L + k) - L = k
    BY <1>3, <1>4
  <2> QED
    BY <1>12, <1>13, <2>1, <2>2
<1>15. /\ \A x \in 1 .. n : made'[x] = made[x]
       /\ \A x \in range : x - n \in 1 .. N /\ made'[x] = books[x - n]
  <2>1. \A x \in 1 .. n : x \in 1 .. n + N /\ x <= n
    BY <1>3, <1>4
  <2>2. \A x \in range : x \in 1 .. n + N /\ ~(x <= n) /\ x - n \in 1 .. N
    BY <1>3, <1>4
  <2> QED
    BY <1>10, <2>1, <2>2
<1>16. \A x \in range : /\ made'[x].by = d /\ made'[x].import = i
                        /\ made'[x].row = new[x - n] /\ new[x - n] \in rows
  BY <1>3, <1>8, <1>15
<1>17. \A x, y \in range : made'[x].row = made'[y].row => x = y
  <2>1. ASSUME NEW x \in range, NEW y \in range, made'[x].row = made'[y].row
        PROVE  x = y
    <3>1. x - n = y - n
      BY <1>3, <1>15, <1>16, <2>1
    <3> QED
      BY <1>3, <1>4, <3>1
  <2> QED
    BY <2>1
<1>18. /\ \A x \in range : ids'[d][x] = {new[x - n]} /\ covers'[x] = {new[x - n]} /\ book'[d][x] = "live"
       /\ \A x \in Volume \ range : /\ ids'[d][x] = ids[d][x] /\ covers'[x] = covers[x]
                                    /\ book'[d][x] = book[d][x]
       /\ \A c \in Machine \ {d} : ids'[c] = ids[c] /\ book'[c] = book[c]
  BY <1>5, <1>6, <1>7
<1>19. /\ ids' \in [Machine -> [Volume -> SUBSET ExportRow]] /\ covers' \in [Volume -> SUBSET ExportRow]
       /\ book' \in [Machine -> [Volume -> {"none", "live", "dead"}]]
  <2>1. \A x \in range : {new[x - n]} \in SUBSET ExportRow
    BY <1>16
  <2>2. [x \in Volume |-> IF x \in range THEN {new[x - n]} ELSE ids[d][x]] \in [Volume -> SUBSET ExportRow]
    BY <1>7, <2>1
  <2>3. [x \in Volume |-> IF x \in range THEN "live" ELSE book[d][x]] \in [Volume -> {"none", "live", "dead"}]
    BY <1>7
  <2> QED
    BY <1>5, <1>7, <2>1, <2>2, <2>3
<1> HIDE DEF range
<1>20. MadeNow(d, i, rows, n, N, L, range)
  <2>1. \A x \in range : /\ made'[x].by = d /\ made'[x].import = i /\ made'[x].row \in rows
                         /\ ids'[d][x] = {made'[x].row} /\ covers'[x] = {made'[x].row}
                         /\ book'[d][x] = "live"
    BY <1>16, <1>18
  <2>2. \A k \in 1 .. N : /\ sent'[d][L + k].type = "create" /\ sent'[d][L + k].book = n + k
                          /\ \A e \in Machine : sent'[d][L + k].after[e] = 0
    BY <1>9, <1>14
  <2>3. Len(sent'[d]) = L + N
    BY <1>12, <1>13
  <2> QED
    BY <1>5, <1>10, <1>13, <1>14, <1>15, <1>17, <1>18, <1>19, <2>1, <2>2, <2>3 DEF MadeNow
<1> QED
  BY <1>2, <1>3, <1>4, <1>5, <1>20 DEF range

\* d makes books, of rows that it does not know.
LEMMA MakeStep ==
  ASSUME ImportInv, ImportTypeOK', BooksInBounds', NEW d \in Machine, NEW i \in 0 .. MaxImports,
         NEW rows, IsFiniteSet(rows), rows \subseteq ExportRow, rows \cap Here(d) = {},
         MakeBooks(d, i, rows), UNCHANGED <<merged, heirs, discarded, crossed>>,
         \A c \in Machine \ {d} : logged'[c] = logged[c],
         \A l \in logged'[d] \ logged[d] :
           l[1] = i /\ l[2] \in Len(made) + 1 .. Len(made) + Cardinality(rows)
  PROVE  ImportInv'
<1>1. PICK n \in Nat, N \in Nat, L \in Nat :
        /\ n = Len(made) /\ N = Cardinality(rows) /\ L = Len(sent[d]) /\ n + N <= MaxBooks
        /\ MadeNow(d, i, rows, n, N, L, n + 1 .. n + N)
  BY MakeBooksMakes
<1>2. PICK range : range = n + 1 .. n + N
  OBVIOUS
<1>3. /\ Len(made') = n + N /\ \A x \in 1 .. n : made'[x] = made[x]
      /\ \A x \in range : /\ made'[x].by = d /\ made'[x].import = i /\ made'[x].row \in rows
                          /\ ids'[d][x] = {made'[x].row} /\ covers'[x] = {made'[x].row}
                          /\ book'[d][x] = "live"
      /\ \A x, y \in range : made'[x].row = made'[y].row => x = y
      /\ \A x \in Volume \ range : /\ ids'[d][x] = ids[d][x] /\ covers'[x] = covers[x]
                                   /\ book'[d][x] = book[d][x]
      /\ \A c \in Machine \ {d} : ids'[c] = ids[c] /\ book'[c] = book[c] /\ sent'[c] = sent[c]
      /\ Len(sent'[d]) = L + N /\ \A m \in 1 .. L : sent'[d][m] = sent[d][m]
      /\ \A k \in 1 .. N : /\ sent'[d][L + k].type = "create" /\ sent'[d][L + k].book = n + k
                           /\ \A e \in Machine : sent'[d][L + k].after[e] = 0
      /\ recurring' = recurring \cup {r \in rows : \E b \in 1 .. n : r \in covers[b] /\ made[b].by # d}
  BY <1>1, <1>2 DEF MadeNow
<1>4. /\ range \subseteq Volume /\ 1 .. n \subseteq Volume /\ 1 .. n + N \subseteq Volume
      /\ \A x \in 1 .. n : x \notin range
      /\ \A x \in 1 .. n + N : x \in 1 .. n \/ x \in range
      /\ \A x \in range : x \in 1 .. n + N /\ x - n \in 1 .. N /\ n + (x - n) = x
      /\ 1 .. n \subseteq 1 .. n + N
      /\ \A k \in 1 .. N : n + k \in range /\ n + k \in 1 .. n + N /\ L + k \in 1 .. L + N /\ k \in Nat
  <2>1. n + N <= MaxBooks /\ MaxBooks \in Nat
    BY <1>1, ImportAssumption
  <2>2. range \subseteq Volume /\ 1 .. n \subseteq Volume /\ 1 .. n + N \subseteq Volume
    BY <1>2, <2>1 DEF Volume
  <2>3. /\ \A x \in 1 .. n : x \notin range
        /\ \A x \in 1 .. n + N : x \in 1 .. n \/ x \in range
        /\ 1 .. n \subseteq 1 .. n + N
    BY <1>2
  <2>4. \A x \in range : x \in 1 .. n + N /\ x - n \in 1 .. N /\ n + (x - n) = x
    BY <1>2
  <2>5. \A k \in 1 .. N : n + k \in range /\ n + k \in 1 .. n + N /\ L + k \in 1 .. L + N /\ k \in Nat
    BY <1>2
  <2> QED
    BY <2>2, <2>3, <2>4, <2>5
<1>5. /\ \A f \in Machine : Len(sent[f]) \in Nat /\ Len(sent'[f]) \in Nat /\ Len(sent[f]) <= Len(sent'[f])
      /\ \A c, f \in Machine : merged[c][f] \in Nat /\ merged[c][f] <= Len(sent[f])
      /\ Len(made) = n /\ Len(sent[d]) = L
  <2>1. /\ \A f \in Machine : Len(sent[f]) \in Nat
        /\ \A c, f \in Machine : merged[c][f] \in Nat /\ merged[c][f] <= Len(sent[f])
        /\ Len(made) = n /\ Len(sent[d]) = L
    BY <1>1, ImportTypes DEF ImportInv, KnownIsSent
  <2>2. Len(sent'[d]) = L + N /\ \A f \in Machine \ {d} : sent'[f] = sent[f]
    BY <1>3
  <2>3. ASSUME NEW f \in Machine
        PROVE  Len(sent'[f]) \in Nat /\ Len(sent[f]) <= Len(sent'[f])
    <3>1. CASE f = d
      BY <2>1, <2>2, <3>1
    <3>2. CASE f # d
      BY <2>1, <2>2, <3>2
    <3> QED
      BY <3>1, <3>2
  <2> QED
    BY <2>1, <2>3
<1>6. SentGrows
  BY <1>3, <1>5 DEF SentGrows
<1>7. \A f \in Machine : \A m \in 1 .. Len(sent'[f]) :
        \/ m \in 1 .. Len(sent[f]) /\ sent'[f][m] = sent[f][m]
        \/ f = d /\ \E k \in 1 .. N :
             /\ m = L + k /\ sent'[f][m].type = "create" /\ sent'[f][m].book = n + k
             /\ \A e \in Machine : sent'[f][m].after[e] = 0
  <2>1. ASSUME NEW f \in Machine, NEW m \in 1 .. Len(sent'[f]), ~(m \in 1 .. Len(sent[f]))
        PROVE  f = d /\ \E k \in 1 .. N :
                 /\ m = L + k /\ sent'[f][m].type = "create" /\ sent'[f][m].book = n + k
                 /\ \A e \in Machine : sent'[f][m].after[e] = 0
    <3>1. f = d
      <4>1. \A c \in Machine \ {d} : sent'[c] = sent[c]
        BY <1>3
      <4> QED
        BY <2>1, <4>1
    <3>2. Len(sent'[d]) = L + N /\ Len(sent[d]) = L
      BY <1>3, <1>5
    <3>3. m - L \in 1 .. N /\ m = L + (m - L)
      BY <2>1, <3>1, <3>2
    <3>4. PICK k \in 1 .. N : m = L + k
      BY <3>3
    <3>5. /\ sent'[d][L + k].type = "create" /\ sent'[d][L + k].book = n + k
          /\ \A e \in Machine : sent'[d][L + k].after[e] = 0
      BY <1>3
    <3> QED
      BY <3>1, <3>4, <3>5
  <2>2. \A f \in Machine : \A m \in 1 .. Len(sent[f]) : sent'[f][m] = sent[f][m]
    BY <1>6 DEF SentGrows
  <2> QED
    BY <2>1, <2>2
<1>8. \A f \in Machine : \A m \in 1 .. Len(sent[f]) :
        /\ sent[f][m].book \in 1 .. n /\ sent[f][m].book \notin range
        /\ sent[f][m].type = "create" =>
             /\ made[sent[f][m].book].by = f
             /\ \A k \in 1 .. Len(sent[f]) :
                  sent[f][k].type = "create" /\ sent[f][k].book = sent[f][m].book => k = m
        /\ sent[f][m].type = "delete" =>
             sent[f][m].book \in Arrived(f) /\ book[f][sent[f][m].book] # "live"
  BY <1>4, <1>5 DEF ImportInv, CreatesAreUnique, OnShelf
<1>9. \A x \in range : covers[x] = {}
  <2>1. \A x \in range : x \notin 1 .. n
    BY <1>4
  <2> QED
    BY <1>4, <1>5, <2>1 DEF ImportInv, OneBookPerRow
<1>10. \A x \in range : NeverDeleted(x)'
  <2>1. ASSUME NEW x \in range, NEW f \in Machine, NEW m \in 1 .. Len(sent'[f]), sent'[f][m].type = "delete"
        PROVE  sent'[f][m].book # x
    <3>1. m \in 1 .. Len(sent[f]) /\ sent'[f][m] = sent[f][m]
      BY <1>7, <2>1
    <3> QED
      BY <1>8, <3>1
  <2> QED
    BY <2>1 DEF NeverDeleted
<1>11. CutsCover'
  <2>1. Excused \subseteq Excused'
    BY DEF Excused
  <2>2. \A x \in Volume : covers[x] \subseteq covers'[x]
    BY <1>3, <1>9
  <2>3. \A x \in Volume : \A r \in covers'[x] \ Excused' : r \in covers[x] \/ NeverDeleted(x)'
    BY <1>3, <1>10
  <2>4. ASSUME NEW f \in Machine, NEW m \in Nat, NewOp(f, m)
        PROVE  /\ sent'[f][m].type = "create"
               /\ \A k \in Volume : sent'[f][m].book = k => NeverDeleted(k)'
    <3>1. m \in 1 .. Len(sent'[f]) /\ ~(m \in 1 .. Len(sent[f]))
      BY <1>5, <2>4 DEF NewOp
    <3>2. PICK k \in 1 .. N : sent'[f][m].type = "create" /\ sent'[f][m].book = n + k
      BY <1>7, <3>1
    <3>3. n + k \in range
      BY <1>4
    <3> QED
      BY <1>10, <3>2, <3>3
  <2> QED
    BY <1>6, <2>1, <2>2, <2>3, <2>4, CutsCoverLater
<1>12. /\ Of(d)'[d] = L + N /\ Of(d)[d] = L
       /\ \A f \in Machine \ {d} : Of(d)'[f] = merged[d][f] /\ Of(d)[f] = merged[d][f]
       /\ \A c \in Machine \ {d} : Of(c)' = Of(c)
       /\ \A c, f \in Machine : /\ Of(c)[f] \in Nat /\ Of(c)[f] <= Len(sent[f])
                                /\ \A m \in 1 .. Of(c)[f] : m \in 1 .. Len(sent[f]) /\ sent'[f][m] = sent[f][m]
       /\ \A f \in Machine : Of(d)'[f] \in Nat /\ Of(d)[f] <= Of(d)'[f] /\ Of(d)'[f] <= Len(sent'[f])
  <2>1. /\ Of(d)'[d] = L + N /\ Of(d)[d] = L
        /\ \A f \in Machine \ {d} : Of(d)'[f] = merged[d][f] /\ Of(d)[f] = merged[d][f]
    BY <1>3, <1>5 DEF Of
  <2>2. \A c \in Machine \ {d} : Of(c)' = Of(c)
    BY <1>3 DEF Of
  <2>3. \A c, f \in Machine : /\ Of(c)[f] \in Nat /\ Of(c)[f] <= Len(sent[f])
                              /\ \A m \in 1 .. Of(c)[f] : m \in 1 .. Len(sent[f]) /\ sent'[f][m] = sent[f][m]
    <3>1. \A c, f \in Machine : Of(c)[f] \in Nat /\ Of(c)[f] <= Len(sent[f])
      BY ImportTypes DEF ImportInv, KnownIsSent, Whole
    <3> QED
      BY <1>5, <1>6, <3>1 DEF SentGrows
  <2>4. ASSUME NEW f \in Machine
        PROVE  Of(d)'[f] \in Nat /\ Of(d)[f] <= Of(d)'[f] /\ Of(d)'[f] <= Len(sent'[f])
    <3>1. Len(sent'[d]) = L + N
      BY <1>3
    <3>2. /\ merged[d][f] \in Nat /\ merged[d][f] <= Len(sent[f])
          /\ Len(sent[f]) <= Len(sent'[f]) /\ Len(sent[f]) \in Nat
      BY <1>5
    <3>3. CASE f = d
      BY <2>1, <3>1, <3>3
    <3>4. CASE f # d
      BY <1>5, <2>1, <3>2, <3>4
    <3> QED
      BY <3>3, <3>4
  <2> QED
    BY <2>1, <2>2, <2>3, <2>4
<1>13. \A c \in Machine \ {d} : \A type, x : Tells(Of(c), type, x)' <=> Tells(Of(c), type, x)
  <2>1. ASSUME NEW c \in Machine \ {d}, NEW type, NEW x
        PROVE  Tells(Of(c), type, x)' <=> Tells(Of(c), type, x)
    <3>1. Of(c)' = Of(c) /\ \A f \in Machine : \A m \in 1 .. Of(c)[f] : sent'[f][m] = sent[f][m]
      BY <1>12
    <3> QED
      BY <3>1 DEF Tells
  <2> QED
    BY <2>1
<1>14. \A type, x : x \notin range => (Tells(Of(d), type, x)' <=> Tells(Of(d), type, x))
  <2>1. ASSUME NEW type, NEW x, x \notin range
        PROVE  Tells(Of(d), type, x)' <=> Tells(Of(d), type, x)
    <3>1. ASSUME Tells(Of(d), type, x)
          PROVE  Tells(Of(d), type, x)'
      <4>1. \A f \in Machine : 1 .. Of(d)[f] \subseteq 1 .. Of(d)'[f]
        BY <1>12
      <4>2. \E f \in Machine : \E m \in 1 .. Of(d)[f] : sent'[f][m].type = type /\ sent'[f][m].book = x
        <5>1. \A f \in Machine : \A m \in 1 .. Of(d)[f] : sent'[f][m] = sent[f][m]
          BY <1>12
        <5> QED
          BY <3>1, <5>1 DEF Tells
      <4> QED
        BY <4>1, <4>2 DEF Tells
    <3>2. ASSUME Tells(Of(d), type, x)'
          PROVE  Tells(Of(d), type, x)
      <4>1. PICK f \in Machine : \E m \in 1 .. Of(d)'[f] : sent'[f][m].type = type /\ sent'[f][m].book = x
        BY <3>2 DEF Tells
      <4>2. PICK m \in Nat : m \in 1 .. Of(d)'[f] /\ sent'[f][m].type = type /\ sent'[f][m].book = x
        BY <1>12, <4>1
      <4>3. m \in 1 .. Len(sent'[f])
        BY <1>5, <1>12, <4>2
      <4>4. m \in 1 .. Len(sent[f]) /\ sent'[f][m] = sent[f][m]
        <5>1. \A k \in 1 .. N : sent'[f][m].book # n + k
          BY <1>4, <2>1, <4>2
        <5> QED
          BY <1>7, <4>3, <5>1
      <4>5. m \in 1 .. Of(d)[f]
        BY <1>5, <1>12, <4>2, <4>4
      <4> QED
        BY <4>2, <4>4, <4>5 DEF Tells
    <3> QED
      BY <3>1, <3>2
  <2> QED
    BY <2>1
<1>15. \A x \in range : Tells(Of(d), "create", x)'
  <2>1. ASSUME NEW x \in range
        PROVE  Tells(Of(d), "create", x)'
    <3>1. /\ sent'[d][L + (x - n)].type = "create" /\ sent'[d][L + (x - n)].book = x
          /\ L + (x - n) \in 1 .. Of(d)'[d]
      <4>1. PICK k \in 1 .. N : k = x - n /\ n + k = x
        BY <1>4
      <4>2. L + k \in 1 .. Of(d)'[d]
        BY <1>4, <1>12
      <4> QED
        BY <1>3, <4>1, <4>2
    <3> QED
      BY <3>1 DEF Tells
  <2> QED
    BY <2>1
<1>16. \A x \in range : \A c \in Machine : ~Tells(Of(c), "create", x)
  <2>1. \A c, f \in Machine : \A m \in 1 .. Of(c)[f] : m \in 1 .. Len(sent[f])
    BY <1>12
  <2>2. \A f \in Machine : \A m \in 1 .. Len(sent[f]) : sent[f][m].book \notin range
    BY <1>8
  <2> QED
    BY <2>1, <2>2 DEF Tells
<1>17. RowsFollowOps'
  <2>1. ASSUME NEW c \in Machine, NEW x \in Volume
        PROVE  /\ ~Tells(Of(c), "create", x)' => book'[c][x] = "none"
               /\ Tells(Of(c), "create", x)' /\ ~Tells(Of(c), "delete", x)' =>
                    book'[c][x] = "live" \/ covers'[x] \subseteq Excused'
    <3>1. /\ ~Tells(Of(c), "create", x) => book[c][x] = "none"
          /\ Tells(Of(c), "create", x) /\ ~Tells(Of(c), "delete", x) =>
               book[c][x] = "live" \/ covers[x] \subseteq Excused
      BY DEF ImportInv, RowsFollowOps, OnShelf
    <3>2. Excused' = Excused
      BY DEF Excused
    <3>3. CASE x \in range /\ c = d
      BY <1>3, <1>15, <3>3
    <3>4. CASE x \in range /\ c # d
      BY <1>3, <1>13, <1>16, <3>1, <3>4
    <3>5. CASE x \notin range
      <4>1. \A type : Tells(Of(c), type, x)' <=> Tells(Of(c), type, x)
        BY <1>13, <1>14, <3>5
      <4>2. covers'[x] = covers[x] /\ book'[c][x] = book[c][x]
        BY <1>3, <3>5
      <4> QED
        BY <3>1, <3>2, <4>1, <4>2
    <3> QED
      BY <3>3, <3>4, <3>5
  <2> QED
    BY <2>1 DEF RowsFollowOps, OnShelf
<1>18. KnownIsSent'
  <2>1. \A c, f \in Machine : merged[c][f] <= Len(sent'[f])
    BY <1>5
  <2>2. ASSUME NEW f \in Machine, NEW m \in 1 .. Len(sent'[f]), NEW g \in Machine
        PROVE  sent'[f][m].after[g] <= Len(sent'[g])
    <3>1. CASE m \in 1 .. Len(sent[f]) /\ sent'[f][m] = sent[f][m]
      <4>1. sent[f][m].after[g] <= Len(sent[g]) /\ sent[f][m].after[g] \in Nat
        BY <3>1, ImportTypes DEF ImportInv, KnownIsSent
      <4> QED
        BY <1>5, <3>1, <4>1
    <3>2. CASE sent'[f][m].after[g] = 0
      BY <1>5, <3>2
    <3> QED
      BY <1>7, <3>1, <3>2
  <2>3. ASSUME NEW c \in Machine \ {d}
        PROVE  Whole(Of(c))'
    <3>1. Whole(Of(c))
      BY DEF ImportInv, KnownIsSent
    <3>2. Of(c)' = Of(c) /\ \A f \in Machine : Of(c)[f] <= Len(sent'[f])
      BY <1>5, <1>12
    <3>3. \A f \in Machine : \A m \in 1 .. Of(c)[f] : sent'[f][m] = sent[f][m]
      BY <1>12
    <3> QED
      BY <3>1, <3>2, <3>3 DEF Whole
  <2>4. Whole(Of(d))'
    <3>1. Whole(Of(d))
      BY DEF ImportInv, KnownIsSent
    <3>2. ASSUME NEW f \in Machine, NEW m \in 1 .. Of(d)'[f], NEW g \in Machine
          PROVE  sent'[f][m].after[g] <= Of(d)'[g]
      <4>1. m \in 1 .. Len(sent'[f])
        BY <1>5, <1>12
      <4>2. CASE m \in 1 .. Len(sent[f]) /\ sent'[f][m] = sent[f][m]
        <5>1. m \in 1 .. Of(d)[f]
          BY <1>5, <1>12, <4>2
        <5>2. sent[f][m].after[g] <= Of(d)[g] /\ sent[f][m].after[g] \in Nat
          BY <3>1, <4>2, <5>1, ImportTypes DEF ImportInv, Whole
        <5> QED
          BY <1>12, <4>2, <5>2
      <4>3. CASE sent'[f][m].after[g] = 0
        BY <1>12, <4>3
      <4> QED
        BY <1>7, <4>1, <4>2, <4>3
    <3> QED
      BY <1>12, <3>2 DEF Whole
  <2> QED
    BY <2>1, <2>2, <2>3, <2>4 DEF KnownIsSent
<1>19. CreatesAreUnique'
  <2>1. \A f \in Machine : Arrived(f) \subseteq Arrived(f)'
    <3>1. Len(made') \in Nat /\ Len(made) <= Len(made') /\ \A x \in 1 .. Len(made) : made'[x] = made[x]
      BY <1>1, <1>3
    <3> QED
      BY <1>6, <3>1, ArrivedStays
  <2>2. ASSUME NEW f \in Machine, NEW m \in 1 .. Len(sent'[f])
        PROVE  /\ sent'[f][m].book \in 1 .. Len(made')
               /\ sent'[f][m].type = "create" =>
                    /\ made'[sent'[f][m].book].by = f
                    /\ \A k \in 1 .. Len(sent'[f]) :
                         sent'[f][k].type = "create" /\ sent'[f][k].book = sent'[f][m].book => k = m
               /\ sent'[f][m].type = "delete" =>
                    sent'[f][m].book \in Arrived(f)' /\ book'[f][sent'[f][m].book] # "live"
    <3>1. CASE m \in 1 .. Len(sent[f]) /\ sent'[f][m] = sent[f][m]
      <4>1. PICK x \in 1 .. n : x = sent[f][m].book
        BY <1>8, <3>1
      <4>2. x \in 1 .. Len(made') /\ made'[x] = made[x] /\ x \in Volume /\ x \notin range
        BY <1>3, <1>4
      <4>3. ASSUME sent[f][m].type = "create"
            PROVE  /\ made'[x].by = f
                   /\ \A k \in 1 .. Len(sent'[f]) :
                        sent'[f][k].type = "create" /\ sent'[f][k].book = x => k = m
        <5>1. ASSUME NEW k \in 1 .. Len(sent'[f]), sent'[f][k].type = "create", sent'[f][k].book = x
              PROVE  k = m
          <6>1. k \in 1 .. Len(sent[f]) /\ sent'[f][k] = sent[f][k]
            <7>1. \A j \in 1 .. N : sent'[f][k].book # n + j
              BY <1>4, <4>2, <5>1
            <7> QED
              BY <1>7, <5>1, <7>1
          <6> QED
            BY <1>8, <3>1, <4>1, <4>3, <5>1, <6>1
        <5> QED
          BY <1>8, <3>1, <4>1, <4>2, <4>3, <5>1
      <4>4. sent[f][m].type = "delete" => x \in Arrived(f)' /\ book'[f][x] # "live"
        <5>1. book'[f][x] = book[f][x]
          BY <1>3, <4>2
        <5> QED
          BY <1>8, <2>1, <3>1, <4>1, <5>1
      <4> QED
        BY <3>1, <4>1, <4>2, <4>3, <4>4
    <3>2. CASE ~(m \in 1 .. Len(sent[f]) /\ sent'[f][m] = sent[f][m])
      <4>1. PICK j \in 1 .. N : f = d /\ m = L + j /\ sent'[f][m].type = "create" /\ sent'[f][m].book = n + j
        BY <1>7, <3>2
      <4>2. n + j \in range /\ n + j \in 1 .. Len(made')
        <5>1. Len(made') = n + N
          BY <1>3
        <5> QED
          BY <1>4, <5>1
      <4>3. ASSUME NEW k \in 1 .. Len(sent'[f]), sent'[f][k].type = "create", sent'[f][k].book = n + j
            PROVE  k = m
        <5>1. ~(k \in 1 .. Len(sent[f]) /\ sent'[f][k] = sent[f][k])
          BY <1>8, <4>2, <4>3
        <5>2. PICK h \in 1 .. N : k = L + h /\ sent'[f][k].book = n + h
          BY <1>7, <5>1
        <5> QED
          BY <4>1, <4>3, <5>2
      <4>4. made'[n + j].by = d
        BY <1>3, <4>2
      <4> QED
        BY <4>1, <4>2, <4>3, <4>4
    <3> QED
      BY <3>1, <3>2
  <2> QED
    BY <2>2 DEF CreatesAreUnique, OnShelf
<1>20. BooksAreCreated'
  <2>1. ASSUME NEW x \in 1 .. Len(made')
        PROVE  \E m \in 1 .. Len(sent'[made'[x].by]) :
                 sent'[made'[x].by][m].type = "create" /\ sent'[made'[x].by][m].book = x
    <3>1. CASE x \in 1 .. n
      <4>1. made[x].by \in Machine /\ made'[x] = made[x]
        BY <1>3, <1>5, <3>1, ImportTypes DEF ImportInv
      <4>2. PICK m \in 1 .. Len(sent[made[x].by]) :
              sent[made[x].by][m].type = "create" /\ sent[made[x].by][m].book = x
        BY <1>5, <3>1 DEF ImportInv, BooksAreCreated
      <4>3. m \in 1 .. Len(sent'[made[x].by]) /\ sent'[made[x].by][m] = sent[made[x].by][m]
        BY <1>5, <1>6, <4>1 DEF SentGrows
      <4> QED
        BY <4>1, <4>2, <4>3
    <3>2. CASE x \in range
      <4>1. /\ sent'[d][L + (x - n)].type = "create" /\ sent'[d][L + (x - n)].book = x
            /\ L + (x - n) \in 1 .. Len(sent'[d])
        <5>1. PICK k \in 1 .. N : k = x - n /\ n + k = x
          BY <1>4, <3>2
        <5>2. L + k \in 1 .. Len(sent'[d])
          <6>1. Len(sent'[d]) = L + N
            BY <1>3
          <6> QED
            BY <1>4, <6>1
        <5> QED
          BY <1>3, <5>1, <5>2
      <4>2. made'[x].by = d
        BY <1>3, <3>2
      <4> QED
        BY <4>1, <4>2
    <3> QED
      BY <1>3, <1>4, <3>1, <3>2
  <2> QED
    BY <2>1 DEF BooksAreCreated
<1>21. LogIsOfImport'
  <2>1. ASSUME NEW c \in Machine, NEW l \in logged'[c]
        PROVE  l[2] \in 1 .. Len(made') /\ (made'[l[2]].import = l[1] \/ l \in heirs)
    <3>1. CASE l \in logged[c]
      <4>1. l[2] \in 1 .. n /\ (made[l[2]].import = l[1] \/ l \in heirs)
        BY <1>5, <3>1 DEF ImportInv, LogIsOfImport
      <4> QED
        BY <1>3, <1>4, <4>1
    <3>2. CASE l \notin logged[c]
      <4>1. l[1] = i /\ l[2] \in range
        BY <1>1, <1>2, <3>2
      <4> QED
        BY <1>3, <1>4, <4>1
    <3> QED
      BY <3>1, <3>2
  <2> QED
    BY <2>1 DEF LogIsOfImport
<1>22. OneBookPerRow'
  <2>1. ASSUME NEW x \in 1 .. n
        PROVE  /\ made'[x] = made[x] /\ covers'[x] = covers[x] /\ \A c \in Machine : ids'[c][x] = ids[c][x]
               /\ made[x].by \in Machine /\ made[x].row \in covers[x]
               /\ \A r \in covers[x] \ recurring : made[x].row = r /\ r \in ids[made[x].by][x]
    <3>1. x \in Volume /\ x \notin range
      BY <1>4
    <3>2. x \in 1 .. Len(made)
      BY <1>5
    <3>3. made'[x] = made[x] /\ covers'[x] = covers[x] /\ \A c \in Machine : ids'[c][x] = ids[c][x]
      BY <1>3, <3>1
    <3>4. made[x].by \in Machine
      BY <3>2, ImportTypes DEF ImportInv
    <3>5. /\ made[x].row \in covers[x]
          /\ \A r \in covers[x] \ recurring : made[x].row = r /\ r \in ids[made[x].by][x]
      BY <3>2 DEF ImportInv, OneBookPerRow
    <3> QED
      BY <3>3, <3>4, <3>5
  <2>2. recurring \subseteq recurring'
    BY <1>3
  <2>3. \A x \in 1 .. Len(made') : made'[x].row \in covers'[x]
    <3>1. \A x \in range : made'[x].row \in covers'[x]
      BY <1>3
    <3>2. \A x \in 1 .. n : made'[x].row \in covers'[x]
      BY <2>1
    <3> QED
      BY <1>3, <1>4, <3>1, <3>2
  <2>4. \A x \in Volume : covers'[x] # {} => x \in 1 .. Len(made')
    <3>1. \A x \in Volume : covers[x] # {} => x \in 1 .. n
      BY <1>5 DEF ImportInv, OneBookPerRow
    <3> QED
      BY <1>3, <1>4, <3>1
  <2>5. \A x \in 1 .. Len(made') : \A r \in covers'[x] \ recurring' :
          made'[x].row = r /\ r \in ids'[made'[x].by][x]
    <3>1. ASSUME NEW x \in 1 .. n, NEW r \in covers'[x] \ recurring'
          PROVE  made'[x].row = r /\ r \in ids'[made'[x].by][x]
      BY <2>1, <2>2
    <3>2. ASSUME NEW x \in range, NEW r \in covers'[x] \ recurring'
          PROVE  made'[x].row = r /\ r \in ids'[made'[x].by][x]
      BY <1>3
    <3> QED
      BY <1>3, <1>4, <3>1, <3>2
  <2>6. ASSUME NEW x \in range, NEW y \in 1 .. n, made'[x].row = made'[y].row, made'[x].row \notin recurring'
        PROVE  FALSE
    <3>1. PICK r \in rows : r = made'[x].row /\ r = made[y].row /\ r \in covers[y] /\ r \notin recurring
      BY <1>3, <2>1, <2>2, <2>6
    <3>2. made[y].by = d
      BY <1>3, <2>6, <3>1
    <3>3. r \in ids[d][y] /\ y \in Volume
      BY <1>4, <2>1, <3>1, <3>2
    <3>4. r \in Here(d)
      BY <3>3 DEF Here
    <3> QED
      BY <3>1, <3>4
  <2>7. \A x, y \in 1 .. Len(made') : made'[x].row = made'[y].row /\ made'[x].row \notin recurring' => x = y
    <3>1. ASSUME NEW x \in 1 .. n, NEW y \in 1 .. n, made'[x].row = made'[y].row,
                 made'[x].row \notin recurring'
          PROVE  x = y
      BY <1>5, <2>1, <2>2, <3>1 DEF ImportInv, OneBookPerRow
    <3>2. Len(made') = n + N /\ \A x \in 1 .. n + N : x \in 1 .. n \/ x \in range
      BY <1>3, <1>4
    <3>3. \A x, y \in range : made'[x].row = made'[y].row => x = y
      BY <1>3
    <3> QED
      BY <2>6, <3>1, <3>2, <3>3
  <2> QED
    BY <2>3, <2>4, <2>5, <2>7 DEF OneBookPerRow
<1> QED
  BY <1>11, <1>17, <1>18, <1>19, <1>20, <1>21, <1>22 DEF ImportInv

\* Making books keeps the types.
LEMMA MakeTypes ==
  ASSUME ImportInv, NEW d \in Machine, NEW i \in 0 .. MaxImports, NEW rows, IsFiniteSet(rows),
         rows \subseteq ExportRow, MakeBooks(d, i, rows)
  PROVE  /\ made' \in Seq(Making) /\ sent' \in [Machine -> Seq(BookOp)]
         /\ ids' \in [Machine -> [Volume -> SUBSET ExportRow]] /\ covers' \in [Volume -> SUBSET ExportRow]
         /\ book' \in [Machine -> [Volume -> {"none", "live", "dead"}]] /\ recurring' \subseteq ExportRow
         /\ Cardinality(rows) \in Nat /\ Len(made') = Len(made) + Cardinality(rows)
         /\ Len(made') <= MaxBooks /\ Len(made) \in Nat
         /\ Len(made) + 1 .. Len(made) + Cardinality(rows) \subseteq Volume
<1>1. PICK n \in Nat, N \in Nat, L \in Nat :
        /\ n = Len(made) /\ N = Cardinality(rows) /\ L = Len(sent[d]) /\ n + N <= MaxBooks
        /\ MadeNow(d, i, rows, n, N, L, n + 1 .. n + N)
  BY MakeBooksMakes
<1>2. /\ made' \in Seq(Making) /\ sent' \in [Machine -> Seq(BookOp)]
      /\ ids' \in [Machine -> [Volume -> SUBSET ExportRow]] /\ covers' \in [Volume -> SUBSET ExportRow]
      /\ book' \in [Machine -> [Volume -> {"none", "live", "dead"}]]
      /\ Len(made') = n + N
      /\ recurring' = recurring \cup {r \in rows : \E b \in 1 .. n : r \in covers[b] /\ made[b].by # d}
  BY <1>1 DEF MadeNow
<1>3. recurring' \subseteq ExportRow
  BY <1>2 DEF ImportInv, ImportTypeOK
<1>4. n + 1 .. n + N \subseteq Volume
  BY <1>1, ImportAssumption DEF Volume
<1> QED
  BY <1>1, <1>2, <1>3, <1>4

\* A book of the user's own.
LEMMA CreateStep ==
  ASSUME ImportInv, NEW d \in Machine, NEW r \in StoryGraph, CreateBook(d, r)
  PROVE  ImportInv'
<1>1. /\ r \notin Here(d) /\ MakeBooks(d, 0, {r})
      /\ UNCHANGED <<changes, logged, held, merged, walk, imports, heirs, discarded, crossed>>
  BY DEF CreateBook
<1>2. IsFiniteSet({r}) /\ {r} \subseteq ExportRow /\ {r} \cap Here(d) = {} /\ 0 \in 0 .. MaxImports
  <2>1. IsFiniteSet({r})
    BY FS_Singleton
  <2>2. 0 \in 0 .. MaxImports
    BY ImportAssumption
  <2> QED
    BY <1>1, <2>1, <2>2 DEF ExportRow
<1>3. /\ made' \in Seq(Making) /\ sent' \in [Machine -> Seq(BookOp)]
      /\ ids' \in [Machine -> [Volume -> SUBSET ExportRow]] /\ covers' \in [Volume -> SUBSET ExportRow]
      /\ book' \in [Machine -> [Volume -> {"none", "live", "dead"}]] /\ recurring' \subseteq ExportRow
      /\ Len(made') <= MaxBooks
  BY <1>1, <1>2, MakeTypes
<1>4. ImportTypeOK'
  BY <1>1, <1>3 DEF ImportInv, ImportTypeOK, Making, BookOp
<1>5. BooksInBounds'
  BY <1>1, <1>3 DEF ImportInv, BooksInBounds
<1> QED
  BY <1>1, <1>2, <1>4, <1>5, MakeStep

\* Importing from Goodreads or StoryGraph: the new books, and their rows in import_books.
LEMMA CsvStep ==
  ASSUME ImportInv, NEW d \in Machine, NEW rows, IsFiniteSet(rows), rows \subseteq ExportRow,
         ImportCsv(d, rows)
  PROVE  ImportInv'
<1>1. /\ imports < MaxImports /\ imports' = imports + 1
      /\ MakeBooks(d, imports', rows \ Here(d))
      /\ logged' = [logged EXCEPT ![d] = logged[d] \cup Recorded(d, imports', rows, Len(made))]
      /\ UNCHANGED <<changes, held, merged, walk, heirs, discarded, crossed>>
  BY DEF ImportCsv, Unknown
<1>2. PICK i : i = imports'
  OBVIOUS
<1>3. i \in ImportNo /\ i \in 0 .. MaxImports
  <2>1. imports \in Nat /\ MaxImports \in Nat
    BY ImportAssumption DEF ImportInv, ImportTypeOK
  <2> QED
    BY <1>1, <1>2, <2>1 DEF ImportNo
<1>4. PICK new : new = rows \ Here(d)
  OBVIOUS
<1>5. IsFiniteSet(new) /\ new \subseteq ExportRow /\ new \cap Here(d) = {} /\ MakeBooks(d, i, new)
  <2>1. IsFiniteSet(new)
    BY <1>4, FS_Subset
  <2> QED
    BY <1>1, <1>2, <1>4, <2>1
<1>6. /\ made' \in Seq(Making) /\ sent' \in [Machine -> Seq(BookOp)]
      /\ ids' \in [Machine -> [Volume -> SUBSET ExportRow]] /\ covers' \in [Volume -> SUBSET ExportRow]
      /\ book' \in [Machine -> [Volume -> {"none", "live", "dead"}]] /\ recurring' \subseteq ExportRow
      /\ Len(made') <= MaxBooks /\ Len(made) + 1 .. Len(made) + Cardinality(new) \subseteq Volume
  BY <1>3, <1>5, MakeTypes
<1>7. PICK log : log = Recorded(d, i, rows, Len(made))
  OBVIOUS
<1>8. log = {<<i, b>> : b \in Len(made) + 1 .. Len(made) + Cardinality(new)}
  BY <1>4, <1>7 DEF Recorded
<1>9. logged \in [Machine -> SUBSET (ImportNo \X Volume)] /\ log \subseteq ImportNo \X Volume
  <2>1. logged \in [Machine -> SUBSET (ImportNo \X Volume)]
    BY DEF ImportInv, ImportTypeOK
  <2> QED
    BY <1>3, <1>6, <1>8, <2>1
<1>10. /\ logged' \in [Machine -> SUBSET (ImportNo \X Volume)] /\ logged'[d] = logged[d] \cup log
       /\ \A c \in Machine \ {d} : logged'[c] = logged[c]
  BY <1>1, <1>2, <1>7, <1>9
<1>11. \A l \in logged'[d] \ logged[d] :
         l[1] = i /\ l[2] \in Len(made) + 1 .. Len(made) + Cardinality(new)
  BY <1>8, <1>10
<1>12. ImportTypeOK'
  BY <1>1, <1>2, <1>3, <1>6, <1>10 DEF ImportInv, ImportTypeOK, Making, BookOp
<1>13. BooksInBounds'
  BY <1>1, <1>6 DEF ImportInv, BooksInBounds
<1> QED
  BY <1>1, <1>3, <1>5, <1>10, <1>11, <1>12, <1>13, MakeStep

\* The walk of an import from Calibre goes on.
LEMMA WalkTypes ==
  ASSUME ImportInv, NEW d \in Machine, NEW r, r \in walk[d].todo,
         walk' = [walk EXCEPT ![d].todo = walk[d].todo \ {r}]
  PROVE  /\ walk' \in [Machine -> [import : 0 .. MaxImports, todo : SUBSET Calibre, known : SUBSET ExportRow]]
         /\ \A c \in Machine : walk'[c].import = 0 => walk'[c].todo = {}
         /\ r \in Calibre /\ walk[d].import \in ImportNo
<1> DEFINE Walk == [import : 0 .. MaxImports, todo : SUBSET Calibre, known : SUBSET ExportRow]
<1>1. walk \in [Machine -> Walk] /\ \A c \in Machine : walk[c].import = 0 => walk[c].todo = {}
  BY DEF ImportInv, ImportTypeOK, BooksInBounds
<1>2. PICK w : w = [walk[d] EXCEPT !.todo = walk[d].todo \ {r}]
  OBVIOUS
<1>3. walk[d] \in Walk
  BY <1>1
<1>4. w \in Walk /\ w.import = walk[d].import /\ w.todo \subseteq walk[d].todo
  BY <1>2, <1>3
<1>5. walk' = [walk EXCEPT ![d] = w]
  BY <1>2
<1>6. walk' \in [Machine -> Walk] /\ walk'[d] = w /\ \A c \in Machine \ {d} : walk'[c] = walk[c]
  BY <1>1, <1>4, <1>5
<1>7. \A c \in Machine : walk'[c].import = 0 => walk'[c].todo = {}
  BY <1>1, <1>4, <1>6
<1>8. r \in Calibre /\ walk[d].import \in ImportNo
  BY <1>1, <1>3, ImportAssumption DEF ImportNo
<1> QED
  BY <1>6, <1>7, <1>8

\* One book of an import from Calibre, skipped or made.
LEMMA CalibreStep ==
  ASSUME ImportInv, NEW d \in Machine, NEW r \in Calibre, CalibreBook(d, r)
  PROVE  ImportInv'
<1>1. /\ r \in walk[d].todo /\ walk' = [walk EXCEPT ![d].todo = walk[d].todo \ {r}]
      /\ UNCHANGED <<changes, held, merged, imports, heirs, discarded, crossed>>
      /\ \/ UNCHANGED <<made, book, ids, logged, sent, covers, recurring>>
         \/ /\ r \notin walk[d].known \cup Here(d)
            /\ MakeBooks(d, walk[d].import, {r})
            /\ logged' = [logged EXCEPT ![d] = logged[d] \cup {<<walk[d].import, Len(made')>>}]
  BY DEF CalibreBook
<1>2. /\ walk' \in [Machine -> [import : 0 .. MaxImports, todo : SUBSET Calibre, known : SUBSET ExportRow]]
      /\ \A c \in Machine : walk'[c].import = 0 => walk'[c].todo = {}
      /\ walk[d].import \in ImportNo
  BY <1>1, WalkTypes
<1>3. CASE UNCHANGED <<made, book, ids, logged, sent, covers, recurring>>
  <2>1. ImportTypeOK' /\ BooksInBounds'
    BY <1>1, <1>2, <1>3 DEF ImportInv, ImportTypeOK, BooksInBounds
  <2> QED
    BY <1>1, <1>3, <2>1, QuietStep
<1>4. CASE /\ r \notin walk[d].known \cup Here(d)
           /\ MakeBooks(d, walk[d].import, {r})
           /\ logged' = [logged EXCEPT ![d] = logged[d] \cup {<<walk[d].import, Len(made')>>}]
  <2>1. PICK i \in ImportNo : i = walk[d].import
    BY <1>2
  <2>2. /\ IsFiniteSet({r}) /\ Cardinality({r}) = 1 /\ {r} \subseteq ExportRow /\ {r} \cap Here(d) = {}
        /\ i \in 0 .. MaxImports /\ MakeBooks(d, i, {r})
    <3>1. IsFiniteSet({r}) /\ Cardinality({r}) = 1
      BY FS_Singleton
    <3>2. i \in 0 .. MaxImports
      BY ImportAssumption DEF ImportNo
    <3> QED
      BY <1>4, <2>1, <3>1, <3>2 DEF ExportRow
  <2>3. /\ made' \in Seq(Making) /\ sent' \in [Machine -> Seq(BookOp)]
        /\ ids' \in [Machine -> [Volume -> SUBSET ExportRow]] /\ covers' \in [Volume -> SUBSET ExportRow]
        /\ book' \in [Machine -> [Volume -> {"none", "live", "dead"}]] /\ recurring' \subseteq ExportRow
        /\ Len(made') <= MaxBooks /\ Len(made') = Len(made) + Cardinality({r}) /\ Len(made) \in Nat
        /\ Len(made) + 1 .. Len(made) + Cardinality({r}) \subseteq Volume
    BY <2>2, MakeTypes
  <2>4. PICK x \in Volume : x = Len(made') /\ x \in Len(made) + 1 .. Len(made) + Cardinality({r})
    <3>1. Len(made') \in Len(made) + 1 .. Len(made) + Cardinality({r})
      <4>1. Len(made') = Len(made) + 1 /\ Len(made) + Cardinality({r}) = Len(made) + 1
        BY <2>2, <2>3
      <4> QED
        BY <2>3, <4>1
    <3> QED
      BY <2>3, <3>1
  <2>5. logged \in [Machine -> SUBSET (ImportNo \X Volume)]
    BY DEF ImportInv, ImportTypeOK
  <2>6. /\ logged' \in [Machine -> SUBSET (ImportNo \X Volume)] /\ logged'[d] = logged[d] \cup {<<i, x>>}
        /\ \A c \in Machine \ {d} : logged'[c] = logged[c]
    BY <1>4, <2>1, <2>4, <2>5
  <2>7. \A l \in logged'[d] \ logged[d] :
          l[1] = i /\ l[2] \in Len(made) + 1 .. Len(made) + Cardinality({r})
    BY <2>4, <2>6
  <2>8. ImportTypeOK'
    BY <1>1, <1>2, <2>3, <2>6 DEF ImportInv, ImportTypeOK, Making, BookOp
  <2>9. BooksInBounds'
    BY <1>2, <2>3 DEF BooksInBounds
  <2> QED
    BY <1>1, <2>2, <2>6, <2>7, <2>8, <2>9, MakeStep
<1> QED
  BY <1>1, <1>3, <1>4

-----------------------------------------------------------------------------
(* Types, the initial state, and the theorems. *)

\* Attaching keeps the types.
LEMMA AttachTypes ==
  ASSUME ImportInv, NEW d \in Machine, NEW b \in Volume, Attach(d, b)
  PROVE  ImportTypeOK'
<1>1. /\ changes < MaxChanges /\ changes' = changes + 1
      /\ held' = [held EXCEPT ![d] = held[d] \cup {b}]
      /\ UNCHANGED <<made, book, ids, logged, sent, merged, walk, imports, covers,
                     heirs, discarded, crossed, recurring>>
  BY DEF Attach, UserChange
<1>2. held' \in [Machine -> SUBSET Volume]
  BY <1>1 DEF ImportInv, ImportTypeOK
<1>3. changes' \in 0 .. MaxChanges
  BY <1>1, ImportAssumption DEF ImportInv, ImportTypeOK
<1> QED
  BY <1>1, <1>2, <1>3 DEF ImportInv, ImportTypeOK

\* Sending a delete keeps the types.
LEMMA SentTypes ==
  ASSUME ImportInv, NEW d \in Machine, NEW b \in Volume,
         sent' = [sent EXCEPT ![d] = Append(sent[d], DeleteOp(d, b))]
  PROVE  sent' \in [Machine -> Seq(BookOp)]
<1>1. sent \in [Machine -> Seq(BookOp)] /\ merged[d] \in [Machine -> Nat]
  BY DEF ImportInv, ImportTypeOK, BookOp
<1>2. DeleteOp(d, b) \in BookOp
  BY <1>1 DEF DeleteOp, BookOp
<1>3. sent[d] \in Seq(BookOp)
  BY <1>1
<1>4. Append(sent[d], DeleteOp(d, b)) \in Seq(BookOp)
  BY <1>2, <1>3, AppendProperties
<1> QED
  BY <1>1, <1>4

\* Deleting keeps the types.
LEMMA DeleteTypes ==
  ASSUME ImportInv, NEW d \in Machine, NEW b \in Volume, DeleteBook(d, b)
  PROVE  ImportTypeOK'
<1>1. /\ UNCHANGED <<made, ids, logged, held, merged, walk, imports, covers, heirs, crossed, recurring>>
      /\ changes < MaxChanges /\ changes' = changes + 1
      /\ sent' = [sent EXCEPT ![d] = Append(sent[d], DeleteOp(d, b))]
      /\ discarded' = discarded \cup covers[b] /\ book' = [book EXCEPT ![d][b] = "dead"]
  BY DEF DeleteBook, SendDelete, UserChange
<1>2. sent' \in [Machine -> Seq(BookOp)]
  BY <1>1, SentTypes
<1>3. book' \in [Machine -> [Volume -> {"none", "live", "dead"}]]
  BY <1>1 DEF ImportInv, ImportTypeOK
<1>4. discarded' \cup crossed' \cup recurring' \subseteq ExportRow
  BY <1>1 DEF ImportInv, ImportTypeOK
<1>5. changes' \in 0 .. MaxChanges
  BY <1>1, ImportAssumption DEF ImportInv, ImportTypeOK
<1> QED
  BY <1>1, <1>2, <1>3, <1>4, <1>5 DEF ImportInv, ImportTypeOK, BookOp

\* merge_books keeps the types.
LEMMA MergeTypes ==
  ASSUME ImportInv, NEW d \in Machine, NEW keep \in Volume, NEW removed \in Volume,
         MergeBooks(d, keep, removed)
  PROVE  ImportTypeOK'
<1> DEFINE added == {<<i, keep>> : i \in {i \in ImportNo : <<i, removed>> \in logged[d]}}
<1>1. /\ UNCHANGED <<made, held, merged, walk, imports, discarded>>
      /\ changes < MaxChanges /\ changes' = changes + 1
      /\ sent' = [sent EXCEPT ![d] = Append(sent[d], DeleteOp(d, removed))]
      /\ covers' = [covers EXCEPT ![keep] = covers[keep] \cup covers[removed]]
      /\ recurring' = recurring \cup covers[removed]
      /\ crossed' \subseteq crossed \cup covers[removed]
      /\ book' = [book EXCEPT ![d] = [x \in Volume |-> IF x \in {removed} THEN "none" ELSE book[d][x]]]
      /\ ids' = [ids EXCEPT ![d] = [x \in Volume |-> IF x \in {removed} THEN {} ELSE ids[d][x]]]
      /\ heirs' = heirs \cup added
      /\ logged' = [logged EXCEPT ![d] = {l \in logged[d] : l[2] # removed} \cup added]
  BY DEF MergeBooks, RowsGone, SendDelete, UserChange
<1>2. added \subseteq ImportNo \X Volume
  <2>1. ASSUME NEW i \in ImportNo
        PROVE  <<i, keep>> \in ImportNo \X Volume
    OBVIOUS
  <2> QED
    BY <2>1
<1> HIDE DEF added
<1>3. sent' \in [Machine -> Seq(BookOp)]
  BY <1>1, SentTypes
<1>4. /\ book' \in [Machine -> [Volume -> {"none", "live", "dead"}]]
      /\ ids' \in [Machine -> [Volume -> SUBSET ExportRow]]
  BY <1>1 DEF ImportInv, ImportTypeOK
<1>5. /\ covers' \in [Volume -> SUBSET ExportRow]
      /\ discarded' \cup crossed' \cup recurring' \subseteq ExportRow
  BY <1>1 DEF ImportInv, ImportTypeOK
<1>6. logged' \in [Machine -> SUBSET (ImportNo \X Volume)] /\ heirs' \subseteq ImportNo \X Volume
  BY <1>1, <1>2 DEF ImportInv, ImportTypeOK
<1>7. changes' \in 0 .. MaxChanges
  BY <1>1, ImportAssumption DEF ImportInv, ImportTypeOK
<1> QED
  BY <1>1, <1>3, <1>4, <1>5, <1>6, <1>7 DEF ImportInv, ImportTypeOK, BookOp

\* undo_import keeps the types.
LEMMA UndoTypes ==
  ASSUME ImportInv, NEW d \in Machine, NEW i \in ImportNo, UndoImport(d, i)
  PROVE  ImportTypeOK'
<1> DEFINE bs == {b \in Volume : <<i, b>> \in logged[d]}
<1>1. /\ UNCHANGED <<made, held, sent, merged, walk, imports, covers, heirs, crossed>>
      /\ changes < MaxChanges /\ changes' = changes + 1
      /\ logged' = [logged EXCEPT ![d] = {l \in logged[d] : l[2] \notin bs}]
      /\ discarded' = discarded \cup
           UNION {covers[b] : b \in {b \in bs : made[b].import = i \/ <<i, b>> \in heirs}}
      /\ recurring' = recurring \cup UNION {covers[b] : b \in bs}
      /\ book' = [book EXCEPT ![d] = [b \in Volume |-> IF b \in bs THEN "none" ELSE book[d][b]]]
      /\ ids' = [ids EXCEPT ![d] = [b \in Volume |-> IF b \in bs THEN {} ELSE ids[d][b]]]
  BY DEF UndoImport, RowsGone, UserChange
<1>2. bs \subseteq Volume
  OBVIOUS
<1> HIDE DEF bs
<1>3. /\ book' \in [Machine -> [Volume -> {"none", "live", "dead"}]]
      /\ ids' \in [Machine -> [Volume -> SUBSET ExportRow]]
  BY <1>1 DEF ImportInv, ImportTypeOK
<1>4. \A b \in bs : covers[b] \subseteq ExportRow
  BY <1>2 DEF ImportInv, ImportTypeOK
<1>5. discarded' \cup crossed' \cup recurring' \subseteq ExportRow
  <2>1. discarded \cup crossed \cup recurring \subseteq ExportRow
    BY DEF ImportInv, ImportTypeOK
  <2>2. UNION {covers[b] : b \in bs} \subseteq ExportRow
    BY <1>4
  <2>3. UNION {covers[b] : b \in {b \in bs : made[b].import = i \/ <<i, b>> \in heirs}} \subseteq ExportRow
    BY <1>4
  <2> QED
    BY <1>1, <2>1, <2>2, <2>3
<1>6. logged' \in [Machine -> SUBSET (ImportNo \X Volume)]
  BY <1>1 DEF ImportInv, ImportTypeOK
<1>7. changes' \in 0 .. MaxChanges
  BY <1>1, ImportAssumption DEF ImportInv, ImportTypeOK
<1> QED
  BY <1>1, <1>3, <1>5, <1>6, <1>7 DEF ImportInv, ImportTypeOK

\* A pull keeps the types.
LEMMA PullTypes ==
  ASSUME ImportInv, NEW d \in Machine, NEW e \in Machine, PullBook(d, e)
  PROVE  ImportTypeOK'
<1>1. PICK op : op = sent[e][merged'[d][e]]
  OBVIOUS
<1>2. /\ UNCHANGED <<changes, made, ids, logged, held, sent, walk, imports, covers, heirs,
                     discarded, crossed, recurring>>
      /\ merged' = [merged EXCEPT ![d][e] = merged[d][e] + 1]
      /\ book' = [book EXCEPT ![d][op.book] =
                    IF op.type = "create" /\ book[d][op.book] = "none" THEN "live"
                    ELSE IF op.type = "delete" /\ book[d][op.book] = "live" THEN "dead" ELSE book[d][op.book]]
  BY <1>1 DEF PullBook
<1>3. merged' \in [Machine -> [Machine -> Nat]]
  BY <1>2 DEF ImportInv, ImportTypeOK
<1>4. PICK x : x = IF op.type = "create" /\ book[d][op.book] = "none" THEN "live"
                   ELSE IF op.type = "delete" /\ book[d][op.book] = "live" THEN "dead" ELSE book[d][op.book]
  OBVIOUS
<1>5. book' = [book EXCEPT ![d][op.book] = x]
  BY <1>2, <1>4
<1>6. book' \in [Machine -> [Volume -> {"none", "live", "dead"}]]
  <2>1. book \in [Machine -> [Volume -> {"none", "live", "dead"}]]
    BY DEF ImportInv, ImportTypeOK
  <2>2. CASE op.book \in Volume
    <3>1. x \in {"none", "live", "dead"}
      BY <1>4, <2>1, <2>2
    <3> QED
      BY <1>5, <2>1, <3>1
  <2>3. CASE op.book \notin Volume
    <3>1. DOMAIN book[d] = Volume
      BY <2>1
    <3>2. [book[d] EXCEPT ![op.book] = x] = book[d]
      BY <2>1, <2>3, <3>1
    <3>3. book' = [book EXCEPT ![d] = [book[d] EXCEPT ![op.book] = x]]
      BY <1>5
    <3> QED
      BY <2>1, <3>2, <3>3
  <2> QED
    BY <2>2, <2>3
<1> QED
  BY <1>2, <1>3, <1>6 DEF ImportInv, ImportTypeOK, BookOp

\* The beginning of an import from Calibre keeps the types.
LEMMA BeginTypes ==
  ASSUME ImportInv, NEW d \in Machine, CalibreBegin(d)
  PROVE  ImportTypeOK' /\ BooksInBounds'
<1>1. PICK w : w = [import |-> imports', todo |-> Calibre, known |-> Here(d)]
  OBVIOUS
<1>2. /\ UNCHANGED <<changes, made, book, ids, logged, held, sent, merged, covers, heirs,
                     discarded, crossed, recurring>>
      /\ imports < MaxImports /\ imports' = imports + 1 /\ walk' = [walk EXCEPT ![d] = w]
  BY <1>1 DEF CalibreBegin
<1>3. imports' \in 0 .. MaxImports /\ imports' # 0
  BY <1>2, ImportAssumption DEF ImportInv, ImportTypeOK
<1>4. Here(d) \in SUBSET ExportRow
  BY DEF Here, ImportInv, ImportTypeOK
<1>5. w \in [import : 0 .. MaxImports, todo : SUBSET Calibre, known : SUBSET ExportRow] /\ w.import # 0
  BY <1>1, <1>3, <1>4
<1>6. walk \in [Machine -> [import : 0 .. MaxImports, todo : SUBSET Calibre, known : SUBSET ExportRow]]
  BY DEF ImportInv, ImportTypeOK
<1>7. /\ walk' \in [Machine -> [import : 0 .. MaxImports, todo : SUBSET Calibre, known : SUBSET ExportRow]]
      /\ walk'[d] = w /\ \A c \in Machine \ {d} : walk'[c] = walk[c]
  BY <1>2, <1>5, <1>6
<1>8. ImportTypeOK'
  BY <1>2, <1>3, <1>7 DEF ImportInv, ImportTypeOK
<1>9. BooksInBounds'
  BY <1>2, <1>5, <1>7 DEF ImportInv, BooksInBounds
<1> QED
  BY <1>8, <1>9

\* Before the first import there is nothing to lose.
LEMMA ImportInitInv == ImportInit => ImportInv
<1> SUFFICES ASSUME ImportInit
             PROVE  ImportInv
  OBVIOUS
<1>1. /\ made = <<>> /\ Len(made) = 0 /\ imports = 0 /\ changes = 0 /\ heirs = {}
      /\ discarded = {} /\ crossed = {} /\ recurring = {}
      /\ \A d \in Machine : sent[d] = <<>> /\ Len(sent[d]) = 0 /\ logged[d] = {} /\ walk[d] = Standing
      /\ \A d, e \in Machine : merged[d][e] = 0
      /\ \A d \in Machine : \A x \in Volume : book[d][x] = "none"
      /\ \A x \in Volume : covers[x] = {}
  BY DEF ImportInit
<1>2. ImportTypeOK
  <2>1. made \in Seq(Making) /\ sent \in [Machine -> Seq(BookOp)]
    BY EmptySeq DEF ImportInit
  <2>2. \A d \in Machine :
          walk[d] \in [import : 0 .. MaxImports, todo : SUBSET Calibre, known : SUBSET ExportRow]
    BY <1>1, ImportAssumption DEF Standing
  <2>3. 0 \in 0 .. MaxImports /\ 0 \in 0 .. MaxChanges
    BY ImportAssumption
  <2> QED
    BY <2>1, <2>2, <2>3 DEF ImportInit, ImportTypeOK, Making, BookOp
<1>3. BooksInBounds
  BY <1>1, ImportAssumption DEF BooksInBounds, Standing
<1>4. \A d, f \in Machine : Of(d)[f] = 0
  BY <1>1 DEF Of
<1>5. KnownIsSent
  <2>1. \A d \in Machine : Whole(Of(d))
    BY <1>1, <1>4 DEF Whole
  <2> QED
    BY <1>1, <2>1 DEF KnownIsSent
<1>6. CreatesAreUnique /\ BooksAreCreated
  BY <1>1 DEF CreatesAreUnique, BooksAreCreated
<1>7. RowsFollowOps
  BY <1>1, <1>4 DEF RowsFollowOps, Tells
<1>8. LogIsOfImport /\ OneBookPerRow
  BY <1>1 DEF LogIsOfImport, OneBookPerRow
<1>9. CutsCover
  <2>1. ASSUME NEW v \in [Machine -> Nat], Whole(v), NEW f \in Machine
        PROVE  v[f] = 0
    BY <1>1, <2>1 DEF Whole
  <2> QED
    BY <2>1 DEF CutsCover, CutCovers, Tells
<1> QED
  BY <1>2, <1>3, <1>5, <1>6, <1>7, <1>8, <1>9 DEF ImportInv

\* Every step of every device keeps the invariant.
LEMMA ImportStep ==
  ASSUME ImportInv, [ImportNext]_importVars
  PROVE  ImportInv'
<1>1. CASE UNCHANGED importVars
  <2>1. ImportTypeOK' /\ BooksInBounds'
    BY <1>1 DEF ImportInv, ImportTypeOK, BooksInBounds, importVars
  <2> QED
    BY <1>1, <2>1, QuietStep DEF importVars
<1>2. ASSUME NEW d \in Machine, NEW r \in StoryGraph, CreateBook(d, r)
      PROVE  ImportInv'
  BY <1>2, CreateStep
<1>3. ASSUME NEW d \in Machine, NEW b \in Volume, Attach(d, b)
      PROVE  ImportInv'
  <2>1. ImportTypeOK'
    BY <1>3, AttachTypes
  <2>2. BooksInBounds'
    BY <1>3 DEF ImportInv, BooksInBounds, Attach
  <2> QED
    BY <1>3, <2>1, <2>2, QuietStep DEF Attach
<1>4. ASSUME NEW d \in Machine, NEW b \in Volume, DeleteBook(d, b)
      PROVE  ImportInv'
  BY <1>4, DeleteStep, DeleteTypes
<1>5. ASSUME NEW d \in Machine, NEW keep \in Volume, NEW removed \in Volume, MergeBooks(d, keep, removed)
      PROVE  ImportInv'
  BY <1>5, MergeStep, MergeTypes
<1>6. ASSUME NEW d \in Machine, NEW rows, rows \subseteq Goodreads \/ rows \subseteq StoryGraph,
             ImportGoodreads(d, rows) \/ ImportStoryGraph(d, rows)
      PROVE  ImportInv'
  <2>1. rows \subseteq ExportRow /\ (rows \subseteq Goodreads \/ rows \subseteq StoryGraph)
    BY <1>6 DEF ExportRow
  <2>2. IsFiniteSet(rows)
    <3>1. IsFiniteSet(Goodreads) /\ IsFiniteSet(StoryGraph)
      BY ImportAssumption
    <3> QED
      BY <2>1, <3>1, FS_Subset
  <2> QED
    BY <1>6, <2>1, <2>2, CsvStep DEF ImportGoodreads, ImportStoryGraph
<1>7. ASSUME NEW d \in Machine, CalibreBegin(d)
      PROVE  ImportInv'
  BY <1>7, BeginTypes, QuietStep DEF CalibreBegin
<1>8. ASSUME NEW d \in Machine, CalibreEnds(d)
      PROVE  ImportInv'
  <2>1. ImportTypeOK' /\ BooksInBounds'
    <3>1. Standing \in [import : 0 .. MaxImports, todo : SUBSET Calibre, known : SUBSET ExportRow]
      BY ImportAssumption DEF Standing
    <3>2. walk' = [walk EXCEPT ![d] = Standing] /\ Standing.todo = {}
      BY <1>8 DEF CalibreEnds, Standing
    <3>3. UNCHANGED <<changes, made, book, ids, logged, held, sent, merged, imports, covers,
                      heirs, discarded, crossed, recurring>>
      BY <1>8 DEF CalibreEnds
    <3>4. walk \in [Machine -> [import : 0 .. MaxImports, todo : SUBSET Calibre, known : SUBSET ExportRow]]
      BY DEF ImportInv, ImportTypeOK
    <3>5. walk' \in [Machine -> [import : 0 .. MaxImports, todo : SUBSET Calibre, known : SUBSET ExportRow]]
      BY <3>1, <3>2, <3>4
    <3>6. \A c \in Machine : walk'[c] = walk[c] \/ walk'[c].todo = {}
      BY <3>2, <3>4
    <3>7. ImportTypeOK'
      BY <3>3, <3>5 DEF ImportInv, ImportTypeOK
    <3>8. BooksInBounds'
      BY <3>3, <3>6 DEF ImportInv, BooksInBounds
    <3> QED
      BY <3>7, <3>8
  <2> QED
    BY <1>8, <2>1, QuietStep DEF CalibreEnds
<1>9. ASSUME NEW d \in Machine, NEW r \in Calibre, CalibreBook(d, r)
      PROVE  ImportInv'
  BY <1>9, CalibreStep
<1>10. ASSUME NEW d \in Machine, NEW i \in ImportNo, UndoImport(d, i)
       PROVE  ImportInv'
  BY <1>10, UndoStep, UndoTypes
<1>11. ASSUME NEW d \in Machine, NEW e \in Machine, PullBook(d, e)
       PROVE  ImportInv'
  BY <1>11, PullStep, PullTypes
<1>12. CASE ImportNext
  <2>1. PICK d \in Machine :
          \/ \E r \in StoryGraph : CreateBook(d, r)
          \/ \E b \in Volume : Attach(d, b) \/ DeleteBook(d, b)
          \/ \E keep, removed \in Volume : MergeBooks(d, keep, removed)
          \/ \E rows \in SUBSET Goodreads : ImportGoodreads(d, rows)
          \/ \E rows \in SUBSET StoryGraph : ImportStoryGraph(d, rows)
          \/ CalibreBegin(d) \/ CalibreEnds(d) \/ \E r \in Calibre : CalibreBook(d, r)
          \/ \E i \in ImportNo : UndoImport(d, i)
          \/ \E e \in Machine : PullBook(d, e)
    BY <1>12 DEF ImportNext
  <2>2. CASE \E rows \in SUBSET Goodreads : ImportGoodreads(d, rows)
    BY <1>6, <2>2
  <2>3. CASE \E rows \in SUBSET StoryGraph : ImportStoryGraph(d, rows)
    BY <1>6, <2>3
  <2> QED
    BY <1>2, <1>3, <1>4, <1>5, <1>7, <1>8, <1>9, <1>10, <1>11, <2>1, <2>2, <2>3
<1> QED
  BY <1>1, <1>12

\* What devices know, what their rows of books are and what import_books names,
\* through every import, undo, merge of books and pull.
THEOREM ImportInvariant == ImportSpec => []ImportInv
<1> QED
  BY ImportInitInv, ImportStep, PTL DEF ImportSpec

\* Imports, merges, undos and pulls leave a row of an export as one book: none is
\* lost and none is there twice (merge_books, undo_import and the importers).
THEOREM ImportStaysConsistent == ImportSpec => []ImportIsConsistent
<1>1. ASSUME ImportInv
      PROVE  RowsAreCovered
  <2>1. ASSUME NEW d \in Machine, NEW b \in Arrived(d), made[b].row \notin discarded \cup crossed
        PROVE  \E k \in Volume : OnShelf(d, k) /\ made[b].row \in covers[k]
    <3>1. b \in 1 .. Len(made) /\ b \in Volume
      BY <1>1, MadeInBounds DEF Arrived
    <3>2. made[b].row \in covers[b] \ Excused
      BY <1>1, <2>1, <3>1 DEF Excused, ImportInv, OneBookPerRow
    <3>3. Tells(Of(d), "create", b) /\ Whole(Of(d)) /\ Of(d) \in [Machine -> Nat]
      BY <1>1, <3>1, ArrivedIsTold, ImportTypes DEF ImportInv, KnownIsSent
    <3>4. PICK k \in Volume : /\ Tells(Of(d), "create", k) /\ ~Tells(Of(d), "delete", k)
                              /\ made[b].row \in covers[k]
      BY <1>1, <3>1, <3>2, <3>3 DEF ImportInv, CutsCover, CutCovers
    <3>5. OnShelf(d, k)
      BY <1>1, <3>2, <3>4 DEF ImportInv, RowsFollowOps
    <3> QED
      BY <3>4, <3>5
  <2> QED
    BY <2>1 DEF RowsAreCovered
<1>2. ASSUME ImportInv
      PROVE  OneCopyPerRow
  <2>1. ASSUME NEW d \in Machine, NEW r \in ExportRow \ recurring
        PROVE  Cardinality({b \in Volume : OnShelf(d, b) /\ r \in covers[b]}) <= 1
    <3> DEFINE copies == {b \in Volume : OnShelf(d, b) /\ r \in covers[b]}
    <3>1. \A b \in copies : b \in 1 .. Len(made) /\ made[b].row = r
      BY <1>2 DEF ImportInv, OneBookPerRow
    <3>2. \A x, y \in copies : x = y
      BY <1>2, <3>1 DEF ImportInv, OneBookPerRow
    <3> HIDE DEF copies
    <3>3. CASE copies = {}
      <4>1. Cardinality(copies) = 0
        BY <3>3, FS_EmptySet
      <4> QED
        BY <4>1 DEF copies
    <3>4. CASE copies # {}
      <4>1. PICK x : x \in copies
        BY <3>4
      <4>2. copies = {x}
        BY <3>2, <4>1
      <4>3. Cardinality(copies) = 1
        BY <4>2, FS_Singleton
      <4> QED
        BY <4>3 DEF copies
    <3> QED
      BY <3>3, <3>4
  <2> QED
    BY <2>1 DEF OneCopyPerRow
<1>3. ImportInv => ImportIsConsistent
  BY <1>1, <1>2 DEF ImportIsConsistent
<1> QED
  BY <1>3, ImportInvariant, PTL

=============================================================================
