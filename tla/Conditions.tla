----------------------------- MODULE Conditions ------------------------------
(***************************************************************************)
(* The conditions of policy rules and routings: a line is cut into tokens, *)
(* parsed by recursive descent, and evaluated while it is parsed.  The     *)
(* same parser validates a condition when a policy is loaded.  Beside it,  *)
(* the grammar that the guide gives, as a definition over spans of tokens. *)
(*                                                                         *)
(* A raw word is a structural token or a text: a comparison with some      *)
(* number of "not " before it, or these alone.  A leaf compares the fact   *)
(* "key" with a value; a value is a set of words, or else a number.        *)
(***************************************************************************)
EXTENDS Integers, SequencesExt

Both(a, b) == a /\ b
Either(a, b) == a \/ b
Opposite(a) == ~a

Text(nots, leaf) == [kind |-> "leaf", nots |-> nots, leaf |-> leaf]
Structure(k) == [kind |-> k, nots |-> 0, leaf |-> [op |-> "none"]]
And == Structure("and")
Or == Structure("or")
Not == Structure("not")
Open == Structure("open")
Close == Structure("close")

Words(ws) == [words |-> ws, num |-> 0]
Number(n) == [words |-> {}, num |-> n]
NoLeaf == [op |-> "none"]
Constant(b) == [op |-> "constant", value |-> b]
Compare(op, key, val) == [op |-> op, key |-> key, val |-> val]

\* What a line consists of; "in list" names at least one list.
Values == [words : SUBSET STRING, num : Int]
Comparisons ==
    [op : {"eq", "ne", "has", "ge", "lt"}, key : STRING \X STRING, val : Values]
    \cup [op : {"list"}, key : STRING \X STRING, val : {v \in Values : v.words # {}}]
Leaf == {NoLeaf} \cup [op : {"constant"}, value : BOOLEAN] \cup Comparisons
RawWords == {And, Or, Open, Close} \cup [kind : {"leaf"}, nots : Nat, leaf : Leaf]

\* One "not" is cut off a text, no more: a second one becomes part of the key,
\* or of a constant, which is then no comparison at all.
TokensOf(w) ==
    IF w.kind # "leaf" \/ w.nots = 0 THEN <<w>>
    ELSE IF w.nots = 1 /\ w.leaf.op = "none" THEN <<Not>>
    ELSE <<Not, [w EXCEPT !.nots = @ - 1]>>
Tokens(raw) == FlattenSeq([i \in DOMAIN raw |-> TokensOf(raw[i])])

-----------------------------------------------------------------------------
(* Leaves: what they mean, and what validation says of them.               *)

Error == [ok |-> FALSE, value |-> FALSE]
Value(b) == [ok |-> TRUE, value |-> b]

\* ">=" and ">", "<=" and "<"; "has" is contains, starts_with, ends_with, matches.
Numeric == {"ge", "lt"}

\* validateLeafSyntax.
ValidLeaf(t) ==
    LET l == t.leaf IN
    IF \/ l.op = "none"
       \/ l.op = "constant" /\ t.nots > 0
       \/ l.op \in Numeric /\ l.val.words # {}     \* the right side is no number
    THEN Error ELSE Value(FALSE)

\* evalLeaf and evalClause, in the context of facts and lists.
EvalLeaf(t, facts, lists) ==
    LET l == t.leaf
        known == t.nots = 0 /\ l.key \in DOMAIN facts
        fact == facts[l.key]
    IN
    IF \/ l.op = "none"
       \/ l.op = "constant" /\ t.nots > 0
       \/ l.op \in Numeric /\ l.val.words # {}
       \/ l.op = "list" /\ l.val.words \cap DOMAIN lists = {}
    THEN Error
    ELSE Value(
        CASE l.op = "constant" -> l.value
          [] l.op = "ne" -> ~known \/ fact # l.val
          [] l.op = "eq" -> known /\ fact = l.val
          [] l.op = "has" -> known /\ l.val.words \subseteq fact.words
          [] l.op = "list" ->
                known /\ \E w \in l.val.words : fact.words \cap lists[w] # {}
          [] l.op = "ge" -> known /\ fact.words = {} /\ fact.num >= l.val.num
          [] l.op = "lt" -> known /\ fact.words = {} /\ fact.num < l.val.num)

-----------------------------------------------------------------------------
(* The parser.  Of the tokens from p on, parse[p] has what each rule makes, *)
(* with the position after it; "leaf" gives a leaf's value or Error.       *)

At(tokens, p, k) == p <= Len(tokens) /\ tokens[p].kind = k

Parsed(value, pos) == [ok |-> TRUE, value |-> value, pos |-> pos]
Fail(pos) == [ok |-> FALSE, value |-> FALSE, pos |-> pos]

\* parsePrimary.
Primary(tokens, leaf, parse, p) ==
    LET a == parse[p + 1].or IN
    IF At(tokens, p, "open")
    THEN IF a.ok /\ At(tokens, a.pos, "close") THEN Parsed(a.value, a.pos + 1) ELSE Fail(a.pos)
    ELSE IF At(tokens, p, "leaf") /\ leaf[tokens[p]].ok
    THEN Parsed(leaf[tokens[p]].value, p + 1)
    ELSE Fail(p)

\* parseUnary.
Unary(tokens, leaf, parse, p) ==
    LET a == parse[p + 1].unary IN
    IF ~At(tokens, p, "not") THEN Primary(tokens, leaf, parse, p)
    ELSE IF a.ok THEN Parsed(Opposite(a.value), a.pos) ELSE a

\* Mutant: the second operand of && is all that follows, || included.
AndFrom_Loose(tokens, parse, a) ==
    LET b == parse[a.pos + 1].or IN
    IF ~a.ok \/ ~At(tokens, a.pos, "and") THEN a
    ELSE IF b.ok THEN Parsed(Both(a.value, b.value), b.pos) ELSE b

\* parseAnd, after its first operand.
AndFrom(tokens, parse, a) ==
    LET b == parse[a.pos + 1].and IN
    IF ~a.ok \/ ~At(tokens, a.pos, "and") THEN a
    ELSE IF b.ok THEN Parsed(Both(a.value, b.value), b.pos) ELSE b

\* parseOr, after its first operand.
OrFrom(tokens, parse, a) ==
    LET b == parse[a.pos + 1].or IN
    IF ~a.ok \/ ~At(tokens, a.pos, "or") THEN a
    ELSE IF b.ok THEN Parsed(Either(a.value, b.value), b.pos) ELSE b

Parser(tokens, leaf) ==
    LET parse[p \in 1..(Len(tokens) + 1)] ==
            LET unary == Unary(tokens, leaf, parse, p)
                and == AndFrom(tokens, parse, unary)
            IN [or |-> OrFrom(tokens, parse, and), and |-> and, unary |-> unary]
    IN parse

Leaves(tokens) == {t \in Range(tokens) : t.kind = "leaf"}

Outcome(tokens, leaf) ==
    LET end == Parser(tokens, leaf)[1].or IN
    IF end.ok /\ end.pos = Len(tokens) + 1 THEN Value(end.value) ELSE Error

\* ValidateCondition: nothing is no condition.
Valid(raw) ==
    LET tokens == Tokens(raw)
        leaf == [t \in Leaves(tokens) |-> ValidLeaf(t)]
    IN raw # <<>> /\ Outcome(tokens, leaf).ok

\* evalCondition: nothing is false.
Eval(raw, facts, lists) ==
    LET tokens == Tokens(raw)
        leaf == [t \in Leaves(tokens) |-> EvalLeaf(t, facts, lists)]
    IN IF raw = <<>> THEN Value(FALSE) ELSE Outcome(tokens, leaf)

-----------------------------------------------------------------------------
(* The guide: not binds stronger than &&, && stronger than ||, and brackets*)
(* override.  The values a span of tokens can have, none if it is no       *)
(* condition.                                                              *)

\* A span from i to j that begins with "not", with a bracket, or is a leaf.
UnaryMeaning(tokens, leaf, mean, i, j) ==
    CASE tokens[i].kind = "not" ->
            IF i < j THEN {Opposite(a) : a \in mean[<<i + 1, j>>].unary} ELSE {}
      [] tokens[i].kind = "open" ->
            IF tokens[j].kind = "close" /\ i + 1 < j THEN mean[<<i + 1, j - 1>>].or ELSE {}
      [] tokens[i].kind = "leaf" ->
            IF i = j /\ leaf[tokens[i]].ok THEN {leaf[tokens[i]].value} ELSE {}
      [] OTHER -> {}

\* The operators between i and j that a span may be divided at.
Operators(tokens, k, i, j) == {m \in (i + 1)..(j - 1) : tokens[m].kind = k}

AndMeaning(tokens, mean, i, j) ==
    {v \in BOOLEAN : \E m \in Operators(tokens, "and", i, j) :
        \E a \in mean[<<i, m - 1>>].and : \E b \in mean[<<m + 1, j>>].unary : v = Both(a, b)}

OrMeaning(tokens, mean, i, j) ==
    {v \in BOOLEAN : \E m \in Operators(tokens, "or", i, j) :
        \E a \in mean[<<i, m - 1>>].or : \E b \in mean[<<m + 1, j>>].and : v = Either(a, b)}

Grammar(tokens, leaf) ==
    LET mean[s \in (1..Len(tokens)) \X (1..Len(tokens))] ==
            LET unary == UnaryMeaning(tokens, leaf, mean, s[1], s[2])
                and == unary \cup AndMeaning(tokens, mean, s[1], s[2])
            IN [or |-> and \cup OrMeaning(tokens, mean, s[1], s[2]), and |-> and, unary |-> unary]
    IN mean

Meaning(tokens, leaf) ==
    IF tokens = <<>> THEN {} ELSE Grammar(tokens, leaf)[<<1, Len(tokens)>>].or
=============================================================================
