----------------------------- MODULE SmartFilter ------------------------------
(***************************************************************************)
(* The filter of a smart shelf: what the user typed is cut into tokens,    *)
(* parsed by recursive descent into a tree, shown back as text and turned  *)
(* into the WHERE clause that picks the books.  A token stands for the     *)
(* word it is; the operators of numeric and date fields and the check of   *)
(* their values are left out.                                              *)
(***************************************************************************)
EXTENDS Naturals, Sequences, FiniteSets, SequencesExt

CONSTANTS
  Plain,      \* values of one word
  MaxWords,   \* bound on the length of a filter
  MaxOdd      \* the same if it has a value that is not a plain word

ASSUME FilterAssumption == MaxWords \in Nat /\ MaxOdd \in Nat

VARIABLE typed   \* what the user has typed, word by word

Word(kind, value) == [kind |-> kind, value |-> value]
Open == Word("(", "")  Close == Word(")", "")
And == Word("and", "")  Or == Word("or", "")
Condition(v) == Word("condition", v)     \* author:v
Field == Word("field", "")               \* author: , a blank, its value
Text(v) == Word("text", v)               \* a word or a quoted string of its own
Glued == Word("glued", "v w")            \* author:"v w"

Odd == {Field, Text("v w"), Glued}
Typeable == {Open, Close, And, Or} \cup {Condition(v) : v \in Plain} \cup Odd

FilterInit == typed = <<>>

FilterNext ==
  \E w \in Typeable :
    /\ typed' = Append(typed, w)
    /\ Len(typed') <= IF ToSet(typed') \cap Odd = {} THEN MaxWords ELSE MaxOdd

-----------------------------------------------------------------------------
(* Reading a filter. *)

\* A word ends at a blank, even within quotes that do not begin it.
Tokens(words) ==
  FlattenSeq([i \in DOMAIN words |->
    IF words[i] = Glued THEN <<Condition("\"v"), Text("w\"")>> ELSE <<words[i]>>])

No == [ok |-> FALSE]
Yes(tree, at) == [ok |-> TRUE, tree |-> tree, at |-> at]
Node(of, value, parts) == [of |-> of, value |-> value, parts |-> parts]
\* One part stands for itself.
Joined(of, parts) == IF Len(parts) = 1 THEN parts[1] ELSE Node(of, "", parts)

Found(ts, at, w) == at <= Len(ts) /\ ts[at] = w

\* The token after a field, without its quotes; a condition is kept as its text.
ValueOf(w) == IF w.kind = "text" THEN w.value ELSE "author:" \o w.value

Valued == {"condition", "text", "field"}

ParseCondition(ts, at) ==
  CASE ts[at].kind = "condition" -> Yes(Node("is", ts[at].value, <<>>), at + 1)
    [] ts[at] = Field /\ at < Len(ts) /\ ts[at + 1].kind \in Valued ->
         Yes(Node("is", ValueOf(ts[at + 1]), <<>>), at + 2)
    [] OTHER -> No

RECURSIVE ParseOr(_, _), MoreOr(_, _, _), ParseAnd(_, _), MoreAnd(_, _, _)

ParseAtom(ts, at) ==
  IF at > Len(ts) THEN No
  ELSE IF ts[at] # Open THEN ParseCondition(ts, at)
  ELSE LET p == ParseOr(ts, at + 1) IN
       IF p.ok /\ Found(ts, p.at, Close) THEN Yes(p.tree, p.at + 1) ELSE No

\* The atoms from at on, after those in parts.
MoreAnd(ts, at, parts) ==
  LET p == ParseAtom(ts, at) IN
  IF ~p.ok THEN No
  ELSE IF Found(ts, p.at, And) THEN MoreAnd(ts, p.at + 1, Append(parts, p.tree))
  ELSE Yes(Joined("and", Append(parts, p.tree)), p.at)

ParseAnd(ts, at) == MoreAnd(ts, at, <<>>)

MoreOr(ts, at, parts) ==
  LET p == ParseAnd(ts, at) IN
  IF ~p.ok THEN No
  ELSE IF Found(ts, p.at, Or) THEN MoreOr(ts, p.at + 1, Append(parts, p.tree))
  ELSE Yes(Joined("or", Append(parts, p.tree)), p.at)

ParseOr(ts, at) == MoreOr(ts, at, <<>>)

\* SmartFilter::parse: the whole input, or an error.
Parse(words) ==
  LET ts == Tokens(words)  p == ParseOr(ts, 1) IN
  IF p.ok /\ p.at > Len(ts) THEN p ELSE No

-----------------------------------------------------------------------------
(* Showing a filter, and picking books. *)

Joint(of, texts) ==
  FlattenSeq([i \in DOMAIN texts |-> IF i = 1 THEN texts[i] ELSE <<of>> \o texts[i]])

\* A faulty Grouped, to validate FilterKeepsMeaning: the precedence is forgotten.
GroupedNever(parts, texts) == texts

\* The parts of a conjunction: a disjunction among them is put in parentheses.
Grouped(parts, texts) ==
  [i \in DOMAIN texts |->
     IF parts[i].of = "or" THEN <<Open>> \o texts[i] \o <<Close>> ELSE texts[i]]

\* words[v]: what a condition with the value v is written as.
RECURSIVE Written(_, _)
Written(tree, words) ==
  IF tree.of = "is" THEN words[tree.value]
  ELSE LET texts == [i \in DOMAIN tree.parts |-> Written(tree.parts[i], words)] IN
       IF tree.of = "and" THEN Joint(And, Grouped(tree.parts, texts)) ELSE Joint(Or, texts)

Values == Plain \cup {"v w", "author:"} \cup {"author:" \o v : v \in Plain}

\* The text of a filter, a value as it is.
Shown(tree) ==
  Written(tree, [v \in Values |->
    IF v = "v w" THEN <<Condition("v"), Text("w")>> ELSE <<Condition(v)>>])

\* The WHERE clause, a value as a parameter.
Where(tree) == Written(tree, [v \in Values |-> <<Condition(v)>>])

-----------------------------------------------------------------------------
(* What a filter means, by the grammar and the precedence alone. *)

\* A field and the value after it as one condition.
RECURSIVE Paired(_)
Paired(ts) ==
  IF ts = <<>> THEN <<>>
  ELSE IF Len(ts) > 1 /\ ts[1] = Field /\ ts[2].kind \in Valued
       THEN <<Condition(ValueOf(ts[2]))>> \o Paired(SubSeq(ts, 3, Len(ts)))
       ELSE <<ts[1]>> \o Paired(Tail(ts))

\* Where w stands outside all parentheses.
Tops(ts, w) ==
  {i \in DOMAIN ts :
     /\ ts[i] = w
     /\ Cardinality({j \in 1 .. i : ts[j] = Open}) = Cardinality({j \in 1 .. i : ts[j] = Close})}

Before(ts, i) == SubSeq(ts, 1, i - 1)
After(ts, i) == SubSeq(ts, i + 1, Len(ts))
Inner(ts) == SubSeq(ts, 2, Len(ts) - 1)

RECURSIVE Grammatical(_)
Grammatical(ts) ==
  \/ \E w \in {Or, And} : \E i \in Tops(ts, w) :
       /\ w = And => Tops(ts, Or) = {}
       /\ Grammatical(Before(ts, i)) /\ Grammatical(After(ts, i))
  \/ /\ Len(ts) > 2 /\ ts[1] = Open /\ ts[Len(ts)] = Close
     /\ Grammatical(Inner(ts))
  \/ Len(ts) = 1 /\ ts[1].kind = "condition"

\* The books that the clause ts is true of; a book is the set of its values.
RECURSIVE Picked(_)
Picked(ts) ==
  LET ors == Tops(ts, Or)  ands == Tops(ts, And) IN
  CASE ors # {} -> UNION {Picked(Before(ts, i)) \cup Picked(After(ts, i)) : i \in {Min(ors)}}
    [] ors = {} /\ ands # {} -> UNION {Picked(Before(ts, i)) \cap Picked(After(ts, i)) : i \in {Min(ands)}}
    [] OTHER -> IF ts[1] = Open THEN Picked(Inner(ts))
                ELSE {b \in SUBSET Values : ts[1].value \in b}

(***************************************************************************)
(* A filter is accepted if and only if the grammar has it, the smart shelf *)
(* then picks the books that the filter means, and the text that is shown  *)
(* for it is a filter of the same meaning: OR binds weaker than AND on the *)
(* way in, in the text and in the clause.  Except for a quoted value that  *)
(* follows its field without a blank, which is refused, and the text of a  *)
(* value that has a blank.  (A value that holds a parenthesis or begins    *)
(* with an operator is not among the words; its text, unquoted as well, is *)
(* another filter or none.)                                                *)
(***************************************************************************)
FilterKeepsMeaning ==
  LET read == Paired(typed)  p == Parse(typed) IN
  /\ Glued \notin ToSet(typed) => (p.ok <=> Grammatical(read))
  /\ p.ok =>
       /\ Picked(Where(p.tree)) = Picked(read)
       /\ Condition("v w") \notin ToSet(read) =>
            LET again == Parse(Shown(p.tree)) IN
            again.ok /\ Picked(Where(again.tree)) = Picked(read)

=============================================================================
