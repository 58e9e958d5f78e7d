---------------------------- MODULE RoutingProofs ----------------------------
(***************************************************************************)
(* Proofs about what a gateway does with the configuration it has.         *)
(*                                                                         *)
(* Evaluation, for any routings, policies, workers, lists and mails: the   *)
(* parser of conditions reads the grammar of the guide, the route is the   *)
(* first that matches, the decision that of the first rule that matches,   *)
(* and no failing worker hides what another found.                         *)
(*                                                                         *)
(* RouteReload, for any routes, policies, versions, requests and faults:   *)
(* types, and that edits one after the other leave the files and the       *)
(* routes of a gateway in file mode the same.                              *)
(***************************************************************************)
EXTENDS RouteReload, Evaluation, FiniteSetTheorems, WellFoundedInduction, SequenceTheorems, TLAPS

(* Induction over numbers, and functions defined by recursion.             *)

LEMMA LeastNumber ==
    ASSUME NEW T, T \subseteq Nat, T # {}
    PROVE  \E n \in T : \A m \in T : n <= m
<1>1. PICK n \in T : \A m \in T : ~(<<m, n>> \in OpToRel(<, Nat))
  BY NatLessThanWellFounded, WFMin
<1>2. \A m \in T : ~(m < n)
  BY <1>1, n \in Nat DEF OpToRel
<1> QED BY <1>2

LEMMA CountingUp ==
    ASSUME NEW T, 0 \in T, \A n \in Nat : n \in T => n + 1 \in T
    PROVE  Nat \subseteq T
<1> SUFFICES ASSUME Nat \ T # {} PROVE FALSE
  OBVIOUS
<1>1. PICK n \in Nat \ T : \A m \in Nat \ T : n <= m
  BY LeastNumber
<1>2. n # 0 /\ n - 1 \in Nat
  BY <1>1
<1>3. n - 1 \in T
  BY <1>1, <1>2
<1>4. (n - 1) + 1 = n
  BY <1>1
<1> QED BY <1>1, <1>2, <1>3, <1>4

LEMMA CountingAll ==
    ASSUME NEW T, \A n \in Nat : (\A m \in Nat : m < n => m \in T) => n \in T
    PROVE  Nat \subseteq T
<1> SUFFICES ASSUME Nat \ T # {} PROVE FALSE
  OBVIOUS
<1>1. PICK n \in Nat \ T : \A m \in Nat \ T : n <= m
  BY LeastNumber
<1> QED BY <1>1

\* F makes of a function on S in H another one, which at x depends only on
\* arguments of lower rank.
Grounded(S, H, F, rank, bound) ==
    /\ H # {} /\ F \in [H -> H]
    /\ \A h \in H : h = [x \in S |-> h[x]]
    /\ bound \in Nat /\ rank \in [S -> Nat]
    /\ \A x \in S : rank[x] < bound
    /\ \A g, h \in H : \A x \in S :
            (\A y \in S : rank[y] < rank[x] => g[y] = h[y]) => F[g][x] = F[h][x]

LEMMA Recursion ==
    ASSUME NEW S, NEW H, NEW F, NEW rank, NEW bound, Grounded(S, H, F, rank, bound)
    PROVE  \E f \in H : f = F[f]
<1> USE DEF Grounded
<1> DEFINE T == {n \in Nat : \E g \in H : \A x \in S : rank[x] < n => F[g][x] = g[x]}
<1>1. 0 \in T
  OBVIOUS
<1>2. ASSUME NEW n \in Nat, n \in T PROVE n + 1 \in T
  <2>1. PICK g \in H : \A x \in S : rank[x] < n => F[g][x] = g[x]
    BY <1>2
  <2>2. F[g] \in H
    OBVIOUS
  <2>3. ASSUME NEW x \in S, rank[x] < n + 1 PROVE F[F[g]][x] = F[g][x]
    <3>1. \A y \in S : rank[y] < rank[x] => F[g][y] = g[y]
      BY <2>1, <2>3
    <3> QED BY <2>2, <3>1
  <2> QED BY <2>2, <2>3
<1>3. Nat \subseteq T
  <2> HIDE DEF T
  <2> QED BY <1>1, <1>2, CountingUp
<1>4. PICK g \in H : \A x \in S : rank[x] < bound => F[g][x] = g[x]
  BY <1>3
<1>5. F[g] = [x \in S |-> F[g][x]] /\ g = [x \in S |-> g[x]]
  OBVIOUS
<1>6. [x \in S |-> F[g][x]] = [x \in S |-> g[x]]
  BY <1>4
<1> QED BY <1>4, <1>5, <1>6

\* Where f and g agree on arguments of lower rank, they agree.
Agreeing(S, rank, f, g) ==
    /\ f = [x \in S |-> f[x]] /\ g = [x \in S |-> g[x]]
    /\ rank \in [S -> Nat]
    /\ \A x \in S : (\A y \in S : rank[y] < rank[x] => f[y] = g[y]) => f[x] = g[x]

LEMMA SameFunction ==
    ASSUME NEW S, NEW rank, NEW f, NEW g, Agreeing(S, rank, f, g)
    PROVE  f = g
<1> DEFINE T == {n \in Nat : \A x \in S : rank[x] = n => f[x] = g[x]}
<1>1. ASSUME NEW n \in Nat, \A m \in Nat : m < n => m \in T PROVE n \in T
  <2> SUFFICES ASSUME NEW x \in S, rank[x] = n PROVE f[x] = g[x]
    OBVIOUS
  <2>1. \A y \in S : rank[y] < rank[x] => f[y] = g[y]
    BY <1>1 DEF Agreeing
  <2> QED BY <2>1 DEF Agreeing
<1>2. Nat \subseteq T
  <2> HIDE DEF T
  <2> QED BY <1>1, CountingAll
<1>3. \A x \in S : f[x] = g[x]
  BY <1>2 DEF Agreeing
<1>4. f = [x \in S |-> f[x]] /\ g = [x \in S |-> g[x]]
  BY DEF Agreeing
<1> QED BY <1>3, <1>4
-----------------------------------------------------------------------------
(* The parser, as an equation.                                             *)

Positions(tokens) == 1..(Len(tokens) + 1)
Result(tokens, p) == [ok : BOOLEAN, value : BOOLEAN, pos : p..(Len(tokens) + 1)]
AllOf(tokens) ==
    LET R == [ok : BOOLEAN, value : BOOLEAN, pos : Positions(tokens)]
    IN [or : R, and : R, unary : R]
Parses(tokens) ==
    {g \in [Positions(tokens) -> AllOf(tokens)] :
        \A p \in Positions(tokens) :
            g[p].or.pos >= p /\ g[p].and.pos >= p /\ g[p].unary.pos >= p}

ParseStep(tokens, leaf, g) ==
    [p \in Positions(tokens) |->
        [or |-> OrFrom(tokens, g, AndFrom(tokens, g, Unary(tokens, leaf, g, p))),
         and |-> AndFrom(tokens, g, Unary(tokens, leaf, g, p)),
         unary |-> Unary(tokens, leaf, g, p)]]

\* What is known of tokens and of the values of their leaves.
Readable(tokens, leaf) ==
    /\ Len(tokens) \in Nat
    /\ \A i \in 1..Len(tokens) : tokens[i].kind = "leaf" =>
            leaf[tokens[i]].ok \in BOOLEAN /\ leaf[tokens[i]].value \in BOOLEAN

LEMMA Truths == \A a, b : Both(a, b) \in BOOLEAN /\ Either(a, b) \in BOOLEAN /\ Opposite(a) \in BOOLEAN
  BY DEF Both, Either, Opposite

LEMMA ParsesTyped ==
    ASSUME NEW tokens, Len(tokens) \in Nat, NEW g \in Parses(tokens), NEW p \in Positions(tokens)
    PROVE  /\ g[p].or \in Result(tokens, p)
           /\ g[p].and \in Result(tokens, p)
           /\ g[p].unary \in Result(tokens, p)
<1>1. /\ g[p].or \in [ok : BOOLEAN, value : BOOLEAN, pos : Positions(tokens)]
      /\ g[p].and \in [ok : BOOLEAN, value : BOOLEAN, pos : Positions(tokens)]
      /\ g[p].unary \in [ok : BOOLEAN, value : BOOLEAN, pos : Positions(tokens)]
      /\ g[p].or.pos >= p /\ g[p].and.pos >= p /\ g[p].unary.pos >= p
  BY DEF Parses, AllOf
<1>2. ASSUME NEW r \in [ok : BOOLEAN, value : BOOLEAN, pos : Positions(tokens)], r.pos >= p
      PROVE  r \in Result(tokens, p)
  BY <1>2 DEF Result, Positions
<1> QED BY <1>1, <1>2

LEMMA UnaryTyped ==
    ASSUME NEW tokens, NEW leaf, Readable(tokens, leaf), NEW g \in Parses(tokens),
           NEW p \in Positions(tokens)
    PROVE  Unary(tokens, leaf, g, p) \in Result(tokens, p)
<1>0. Len(tokens) \in Nat
  BY DEF Readable
<1>1. ASSUME p <= Len(tokens)
      PROVE  /\ g[p + 1].or \in Result(tokens, p + 1)
             /\ g[p + 1].unary \in Result(tokens, p + 1)
  BY <1>0, <1>1, ParsesTyped DEF Positions
<1>2. Primary(tokens, leaf, g, p) \in Result(tokens, p)
  <2>1. CASE At(tokens, p, "open")
    <3>1. p <= Len(tokens)
      BY <2>1 DEF At
    <3>2. PICK a : a = g[p + 1].or /\ a \in Result(tokens, p + 1)
      BY <3>1, <1>1
    <3>3. Primary(tokens, leaf, g, p) =
            IF a.ok /\ At(tokens, a.pos, "close") THEN Parsed(a.value, a.pos + 1) ELSE Fail(a.pos)
      BY <2>1, <3>2 DEF Primary
    <3> QED BY <3>1, <3>2, <3>3, <1>0 DEF Result, Parsed, Fail, At, Positions
  <2>2. CASE ~At(tokens, p, "open") /\ At(tokens, p, "leaf") /\ leaf[tokens[p]].ok
    <3>1. p <= Len(tokens) /\ leaf[tokens[p]].value \in BOOLEAN
      BY <2>2 DEF At, Readable, Positions
    <3>2. Primary(tokens, leaf, g, p) = Parsed(leaf[tokens[p]].value, p + 1)
      BY <2>2 DEF Primary
    <3> QED BY <3>1, <3>2, <1>0 DEF Result, Parsed, Positions
  <2>3. CASE ~At(tokens, p, "open") /\ ~(At(tokens, p, "leaf") /\ leaf[tokens[p]].ok)
    <3>1. Primary(tokens, leaf, g, p) = Fail(p)
      BY <2>3 DEF Primary
    <3> QED BY <3>1, <1>0 DEF Result, Fail, Positions
  <2> QED BY <2>1, <2>2, <2>3
<1>3. CASE At(tokens, p, "not")
  <2>1. p <= Len(tokens)
    BY <1>3 DEF At
  <2>2. PICK a : a = g[p + 1].unary /\ a \in Result(tokens, p + 1)
    BY <2>1, <1>1
  <2>3. Unary(tokens, leaf, g, p) = IF a.ok THEN Parsed(Opposite(a.value), a.pos) ELSE a
    BY <1>3, <2>2 DEF Unary
  <2> QED BY <2>1, <2>2, <2>3, <1>0, Truths DEF Result, Parsed, Positions
<1>4. CASE ~At(tokens, p, "not")
  BY <1>2, <1>4 DEF Unary
<1> QED BY <1>3, <1>4

LEMMA FromTyped ==
    ASSUME NEW tokens, Len(tokens) \in Nat, NEW g \in Parses(tokens),
           NEW p \in Positions(tokens), NEW a \in Result(tokens, p)
    PROVE  /\ AndFrom(tokens, g, a) \in Result(tokens, p)
           /\ OrFrom(tokens, g, a) \in Result(tokens, p)
<1>1. a.pos \in Int /\ a.pos >= p
  BY DEF Result, Positions
<1>2. ASSUME NEW k, At(tokens, a.pos, k)
      PROVE  a.pos + 1 \in Positions(tokens) /\ a.pos + 1 > p
  BY <1>1, <1>2 DEF Positions, At
<1>3. ASSUME NEW k, At(tokens, a.pos, k)
      PROVE  g[a.pos + 1].and \in Result(tokens, p) /\ g[a.pos + 1].or \in Result(tokens, p)
  <2>1. /\ g[a.pos + 1].and \in Result(tokens, a.pos + 1)
        /\ g[a.pos + 1].or \in Result(tokens, a.pos + 1)
    BY <1>2, <1>3, ParsesTyped
  <2>2. Result(tokens, a.pos + 1) \subseteq Result(tokens, p)
    BY <1>1, <1>2, <1>3 DEF Result, Positions
  <2> QED BY <2>1, <2>2
<1>4. ASSUME NEW b \in Result(tokens, p), NEW v \in BOOLEAN
      PROVE  (IF b.ok THEN Parsed(v, b.pos) ELSE b) \in Result(tokens, p)
  BY DEF Result, Parsed
<1>5. AndFrom(tokens, g, a) \in Result(tokens, p)
  BY <1>3, <1>4, Truths DEF AndFrom
<1>6. OrFrom(tokens, g, a) \in Result(tokens, p)
  BY <1>3, <1>4, Truths DEF OrFrom
<1> QED BY <1>5, <1>6

LEMMA StepTyped ==
    ASSUME NEW tokens, NEW leaf, Readable(tokens, leaf), NEW g \in Parses(tokens)
    PROVE  ParseStep(tokens, leaf, g) \in Parses(tokens)
<1> DEFINE h == ParseStep(tokens, leaf, g)
<1>0. Len(tokens) \in Nat
  BY DEF Readable
<1>1. ASSUME NEW p \in Positions(tokens)
      PROVE  /\ h[p] = [or |-> h[p].or, and |-> h[p].and, unary |-> h[p].unary]
             /\ h[p].or \in Result(tokens, p)
             /\ h[p].and \in Result(tokens, p)
             /\ h[p].unary \in Result(tokens, p)
  BY <1>0, UnaryTyped, FromTyped DEF ParseStep
<1>2. \A p \in Positions(tokens) : Result(tokens, p) \subseteq
        [ok : BOOLEAN, value : BOOLEAN, pos : Positions(tokens)]
  BY <1>0 DEF Result, Positions
<1>3. \A p \in Positions(tokens) : \A r \in Result(tokens, p) : r.pos >= p
  BY DEF Result, Positions
<1>4. h = [p \in Positions(tokens) |-> h[p]]
  BY DEF ParseStep
<1> HIDE DEF h
<1>5. ASSUME NEW p \in Positions(tokens) PROVE h[p] \in AllOf(tokens)
  <2> DEFINE R == [ok : BOOLEAN, value : BOOLEAN, pos : Positions(tokens)]
  <2>1. h[p].or \in R /\ h[p].and \in R /\ h[p].unary \in R
    BY <1>1, <1>2
  <2>2. AllOf(tokens) = [or : R, and : R, unary : R]
    BY DEF AllOf
  <2> HIDE DEF R
  <2>3. [or |-> h[p].or, and |-> h[p].and, unary |-> h[p].unary] \in AllOf(tokens)
    BY <2>1, <2>2
  <2> QED BY <1>1, <2>3
<1>6. h \in [Positions(tokens) -> AllOf(tokens)]
  BY <1>4, <1>5
<1>7. h \in Parses(tokens)
  BY <1>1, <1>3, <1>6 DEF Parses
<1> QED BY <1>7 DEF h

LEMMA StepLooksAhead ==
    ASSUME NEW tokens, NEW leaf, Readable(tokens, leaf), NEW g,
           NEW h \in Parses(tokens), NEW p \in Positions(tokens),
           \A q \in Positions(tokens) : q > p => g[q] = h[q]
    PROVE  ParseStep(tokens, leaf, g)[p] = ParseStep(tokens, leaf, h)[p]
<1>0. Len(tokens) \in Nat
  BY DEF Readable
<1>1. ASSUME p <= Len(tokens) PROVE g[p + 1] = h[p + 1]
  BY <1>0, <1>1 DEF Positions
<1>2. Unary(tokens, leaf, g, p) = Unary(tokens, leaf, h, p)
  BY <1>1 DEF Unary, Primary, At
<1>3. ASSUME NEW a \in Result(tokens, p)
      PROVE  /\ AndFrom(tokens, g, a) = AndFrom(tokens, h, a)
             /\ OrFrom(tokens, g, a) = OrFrom(tokens, h, a)
  <2>1. ASSUME a.pos <= Len(tokens) PROVE g[a.pos + 1] = h[a.pos + 1]
    BY <1>0, <2>1 DEF Positions, Result
  <2> QED BY <2>1 DEF AndFrom, OrFrom, At
<1>4. Unary(tokens, leaf, h, p) \in Result(tokens, p)
  BY UnaryTyped
<1>5. AndFrom(tokens, h, Unary(tokens, leaf, h, p)) \in Result(tokens, p)
  BY <1>0, <1>4, FromTyped
<1> QED BY <1>2, <1>3, <1>4, <1>5 DEF ParseStep

LEMMA ParserSteps ==
    ASSUME NEW tokens, NEW leaf, Readable(tokens, leaf)
    PROVE  /\ Parser(tokens, leaf) = ParseStep(tokens, leaf, Parser(tokens, leaf))
           /\ Parser(tokens, leaf) \in Parses(tokens)
<1>0. Len(tokens) \in Nat
  BY DEF Readable
<1> DEFINE H == Parses(tokens)
           F == [g \in H |-> ParseStep(tokens, leaf, g)]
           rank == [p \in Positions(tokens) |-> Len(tokens) + 1 - p]
           nothing == [p \in Positions(tokens) |-> [or |-> Fail(p), and |-> Fail(p), unary |-> Fail(p)]]
           f == CHOOSE g : g = ParseStep(tokens, leaf, g)
<1>1. F \in [H -> H]
  BY StepTyped
<1>2. nothing \in H
  <2>1. \A p \in Positions(tokens) : Fail(p) \in [ok : BOOLEAN, value : BOOLEAN, pos : Positions(tokens)]
    BY DEF Fail
  <2>2. nothing \in [Positions(tokens) -> AllOf(tokens)]
    BY <2>1 DEF AllOf
  <2>3. \A p \in Positions(tokens) :
            nothing[p].or.pos >= p /\ nothing[p].and.pos >= p /\ nothing[p].unary.pos >= p
    BY <1>0 DEF Fail, Positions
  <2> HIDE DEF nothing
  <2> QED BY <2>2, <2>3 DEF Parses
<1>3. rank \in [Positions(tokens) -> Nat] /\ \A p \in Positions(tokens) : rank[p] < Len(tokens) + 1
  BY <1>0 DEF Positions
<1>4. \A g \in H : g = [p \in Positions(tokens) |-> g[p]]
  BY DEF Parses
<1>5. ASSUME NEW g \in H, NEW h \in H, NEW p \in Positions(tokens),
             \A q \in Positions(tokens) : rank[q] < rank[p] => g[q] = h[q]
      PROVE  F[g][p] = F[h][p]
  <2>1. \A q \in Positions(tokens) : q > p => rank[q] < rank[p]
    BY <1>0 DEF Positions
  <2>2. ParseStep(tokens, leaf, g)[p] = ParseStep(tokens, leaf, h)[p]
    BY <1>5, <2>1, StepLooksAhead
  <2> QED BY <2>2
<1>6. \E g \in H : g = F[g]
  <2>1. H # {} /\ Len(tokens) + 1 \in Nat
    BY <1>0, <1>2
  <2>2. \A g, h \in H : \A p \in Positions(tokens) :
            (\A q \in Positions(tokens) : rank[q] < rank[p] => g[q] = h[q]) => F[g][p] = F[h][p]
    <3> HIDE DEF H, F, rank
    <3> QED BY <1>5
  <2> HIDE DEF H, F, rank
  <2>3. Grounded(Positions(tokens), H, F, rank, Len(tokens) + 1)
    BY <1>1, <2>1, <1>3, <1>4, <2>2 DEF Grounded
  <2> QED BY <2>3, Recursion
<1>7. PICK g \in H : g = ParseStep(tokens, leaf, g)
  BY <1>6
<1>8. f = ParseStep(tokens, leaf, f)
  BY <1>7
<1>9. f = g
  <2>1. ASSUME NEW p \in Positions(tokens),
               \A q \in Positions(tokens) : rank[q] < rank[p] => f[q] = g[q]
        PROVE  f[p] = g[p]
    <3>1. \A q \in Positions(tokens) : q > p => rank[q] < rank[p]
      BY <1>0 DEF Positions
    <3> HIDE DEF f, rank
    <3>2. ParseStep(tokens, leaf, f)[p] = ParseStep(tokens, leaf, g)[p]
      BY <2>1, <3>1, <1>7, StepLooksAhead
    <3> QED BY <1>7, <1>8, <3>2
  <2>2. f = [p \in Positions(tokens) |-> f[p]] /\ g = [p \in Positions(tokens) |-> g[p]]
    <3> HIDE DEF f
    <3> QED BY <1>7, <1>8 DEF ParseStep
  <2> HIDE DEF f, rank
  <2>3. Agreeing(Positions(tokens), rank, f, g)
    BY <2>1, <2>2, <1>3 DEF Agreeing
  <2> QED BY <2>3, SameFunction
<1>10. f = Parser(tokens, leaf)
  BY DEF Parser, ParseStep, Positions
<1> QED BY <1>7, <1>8, <1>9, <1>10
-----------------------------------------------------------------------------
(* The grammar, as an equation.                                            *)

Spans(tokens) == (1..Len(tokens)) \X (1..Len(tokens))
Meanings == [or : SUBSET BOOLEAN, and : SUBSET BOOLEAN, unary : SUBSET BOOLEAN]
Width(s) == IF s[1] <= s[2] THEN s[2] - s[1] ELSE 0

MeaningStep(tokens, leaf, g) ==
    [s \in Spans(tokens) |->
        [or |-> (UnaryMeaning(tokens, leaf, g, s[1], s[2]) \cup AndMeaning(tokens, g, s[1], s[2]))
                    \cup OrMeaning(tokens, g, s[1], s[2]),
         and |-> UnaryMeaning(tokens, leaf, g, s[1], s[2]) \cup AndMeaning(tokens, g, s[1], s[2]),
         unary |-> UnaryMeaning(tokens, leaf, g, s[1], s[2])]]

LEMMA MeaningTyped ==
    ASSUME NEW tokens, NEW leaf, Readable(tokens, leaf), NEW g \in [Spans(tokens) -> Meanings]
    PROVE  MeaningStep(tokens, leaf, g) \in [Spans(tokens) -> Meanings]
<1>0. Len(tokens) \in Nat
  BY DEF Readable
<1>1. ASSUME NEW s \in Spans(tokens)
      PROVE  g[s].or \subseteq BOOLEAN /\ g[s].and \subseteq BOOLEAN /\ g[s].unary \subseteq BOOLEAN
  BY DEF Meanings
<1>2. ASSUME NEW i \in 1..Len(tokens), NEW j \in 1..Len(tokens)
      PROVE  UnaryMeaning(tokens, leaf, g, i, j) \subseteq BOOLEAN
  <2>1. CASE tokens[i].kind = "not"
    BY <2>1, Truths DEF UnaryMeaning
  <2>2. CASE tokens[i].kind = "open"
    <3>1. ASSUME i + 1 < j PROVE <<i + 1, j - 1>> \in Spans(tokens)
      BY <1>0, <3>1 DEF Spans
    <3>2. ASSUME i + 1 < j PROVE g[<<i + 1, j - 1>>].or \subseteq BOOLEAN
      BY <3>1, <3>2, <1>1
    <3> QED BY <2>2, <3>2 DEF UnaryMeaning
  <2>3. CASE tokens[i].kind = "leaf"
    BY <2>3 DEF UnaryMeaning, Readable
  <2>4. CASE tokens[i].kind \notin {"not", "open", "leaf"}
    BY <2>4 DEF UnaryMeaning
  <2> QED BY <2>1, <2>2, <2>3, <2>4
<1>3. \A i, j : AndMeaning(tokens, g, i, j) \subseteq BOOLEAN /\ OrMeaning(tokens, g, i, j) \subseteq BOOLEAN
  BY DEF AndMeaning, OrMeaning
<1>4. ASSUME NEW s \in Spans(tokens)
      PROVE  MeaningStep(tokens, leaf, g)[s] \in Meanings
  <2>1. s[1] \in 1..Len(tokens) /\ s[2] \in 1..Len(tokens)
    BY DEF Spans
  <2>2. UnaryMeaning(tokens, leaf, g, s[1], s[2]) \subseteq BOOLEAN
    BY <1>2, <2>1
  <2> QED BY <1>3, <2>2 DEF MeaningStep, Meanings
<1> QED BY <1>4 DEF MeaningStep

LEMMA MeaningOfParts ==
    ASSUME NEW tokens, NEW leaf, Readable(tokens, leaf), NEW g, NEW h,
           NEW i \in 1..Len(tokens), NEW j \in 1..Len(tokens),
           \A s \in Spans(tokens) : Width(s) < Width(<<i, j>>) => g[s] = h[s]
    PROVE  MeaningStep(tokens, leaf, g)[<<i, j>>] = MeaningStep(tokens, leaf, h)[<<i, j>>]
<1>0. Len(tokens) \in Nat
  BY DEF Readable
<1>1. ASSUME NEW a \in 1..Len(tokens), NEW b \in 1..Len(tokens), a <= b, i <= j, b - a < j - i
      PROVE  g[<<a, b>>] = h[<<a, b>>]
  <2>1. <<a, b>> \in Spans(tokens) /\ Width(<<a, b>>) = b - a /\ Width(<<i, j>>) = j - i
    BY <1>1 DEF Spans, Width
  <2> QED BY <2>1, <1>1
<1>2. ASSUME i < j PROVE g[<<i + 1, j>>] = h[<<i + 1, j>>]
  <2>1. i + 1 \in 1..Len(tokens) /\ i + 1 <= j /\ i <= j /\ j - (i + 1) < j - i
    BY <1>0, <1>2
  <2> QED BY <1>1, <2>1
<1>3. ASSUME i + 1 < j PROVE g[<<i + 1, j - 1>>] = h[<<i + 1, j - 1>>]
  <2>1. /\ i + 1 \in 1..Len(tokens) /\ j - 1 \in 1..Len(tokens)
        /\ i + 1 <= j - 1 /\ i <= j /\ (j - 1) - (i + 1) < j - i
    BY <1>0, <1>3
  <2> QED BY <1>1, <2>1
<1>4. ASSUME NEW k, NEW m \in Operators(tokens, k, i, j)
      PROVE  g[<<i, m - 1>>] = h[<<i, m - 1>>] /\ g[<<m + 1, j>>] = h[<<m + 1, j>>]
  <2>1. m \in (i + 1)..(j - 1)
    BY DEF Operators
  <2>2. /\ m - 1 \in 1..Len(tokens) /\ m + 1 \in 1..Len(tokens) /\ i <= j
        /\ i <= m - 1 /\ m + 1 <= j /\ (m - 1) - i < j - i /\ j - (m + 1) < j - i
    BY <1>0, <2>1
  <2> QED BY <1>1, <2>2
<1>5. UnaryMeaning(tokens, leaf, g, i, j) = UnaryMeaning(tokens, leaf, h, i, j)
  BY <1>2, <1>3 DEF UnaryMeaning
<1>6. AndMeaning(tokens, g, i, j) = AndMeaning(tokens, h, i, j)
  BY <1>4 DEF AndMeaning
<1>7. OrMeaning(tokens, g, i, j) = OrMeaning(tokens, h, i, j)
  BY <1>4 DEF OrMeaning
<1>8. <<i, j>> \in Spans(tokens) /\ <<i, j>>[1] = i /\ <<i, j>>[2] = j
  BY DEF Spans
<1> QED BY <1>5, <1>6, <1>7, <1>8 DEF MeaningStep

LEMMA GrammarSteps ==
    ASSUME NEW tokens, NEW leaf, Readable(tokens, leaf)
    PROVE  /\ Grammar(tokens, leaf) = MeaningStep(tokens, leaf, Grammar(tokens, leaf))
           /\ Grammar(tokens, leaf) \in [Spans(tokens) -> Meanings]
<1>0. Len(tokens) \in Nat
  BY DEF Readable
<1> DEFINE S == Spans(tokens)
           H == [S -> Meanings]
           F == [g \in H |-> MeaningStep(tokens, leaf, g)]
           rank == [s \in S |-> Width(s)]
           f == CHOOSE g : g = MeaningStep(tokens, leaf, g)
<1>1. F \in [H -> H]
  BY MeaningTyped
<1>2. H # {}
  <2>1. [or |-> {}, and |-> {}, unary |-> {}] \in Meanings
    BY DEF Meanings
  <2>2. [s \in S |-> [or |-> {}, and |-> {}, unary |-> {}]] \in H
    BY <2>1
  <2> QED BY <2>2
<1>3. rank \in [S -> Nat] /\ \A s \in S : rank[s] < Len(tokens) + 1
  BY <1>0 DEF Spans, Width
<1>4. ASSUME NEW g, NEW h, NEW s \in S, \A t \in S : rank[t] < rank[s] => g[t] = h[t]
      PROVE  MeaningStep(tokens, leaf, g)[s] = MeaningStep(tokens, leaf, h)[s]
  <2>1. s = <<s[1], s[2]>> /\ s[1] \in 1..Len(tokens) /\ s[2] \in 1..Len(tokens)
    BY DEF Spans
  <2>2. \A t \in Spans(tokens) : Width(t) < Width(<<s[1], s[2]>>) => g[t] = h[t]
    BY <1>4, <2>1
  <2> QED BY <2>1, <2>2, MeaningOfParts
<1>5. \E g \in H : g = F[g]
  <2>1. \A g, h \in H : \A s \in S : (\A t \in S : rank[t] < rank[s] => g[t] = h[t]) => F[g][s] = F[h][s]
    <3> HIDE DEF S, rank
    <3> QED BY <1>4
  <2>2. \A h \in H : h = [s \in S |-> h[s]]
    OBVIOUS
  <2>3. Len(tokens) + 1 \in Nat
    BY <1>0
  <2> HIDE DEF S, H, F, rank
  <2>4. Grounded(S, H, F, rank, Len(tokens) + 1)
    BY <1>1, <1>2, <1>3, <2>1, <2>2, <2>3 DEF Grounded
  <2> QED BY <2>4, Recursion
<1>6. PICK g \in H : g = MeaningStep(tokens, leaf, g)
  BY <1>5
<1>7. f = MeaningStep(tokens, leaf, f)
  BY <1>6
<1>8. f = g
  <2> HIDE DEF f, rank
  <2>1. \A s \in S : (\A t \in S : rank[t] < rank[s] => f[t] = g[t]) => f[s] = g[s]
    BY <1>4, <1>6, <1>7
  <2>2. f = [s \in S |-> f[s]] /\ g = [s \in S |-> g[s]]
    BY <1>6, <1>7 DEF MeaningStep
  <2> HIDE DEF S
  <2>3. Agreeing(S, rank, f, g)
    BY <1>3, <2>1, <2>2 DEF Agreeing
  <2> QED BY <2>3, SameFunction
<1>9. f = Grammar(tokens, leaf)
  BY DEF Grammar, MeaningStep, Spans
<1> QED BY <1>6, <1>7, <1>8, <1>9
-----------------------------------------------------------------------------
(* Chains of operands: taken apart from the right, or from the left.       *)

\* Over a span, Y is what chains of operands from U make, divided at places in
\* K: a chain, and then one more operand.
Chains(n, K, U, Y, op) ==
    /\ n \in Nat /\ K \subseteq 1..n
    /\ U \in [(1..n) \X (1..n) -> SUBSET BOOLEAN]
    /\ Y \in [(1..n) \X (1..n) -> SUBSET BOOLEAN]
    /\ op \in [BOOLEAN \X BOOLEAN -> BOOLEAN]
    /\ \A a, b, c \in BOOLEAN : op[<<a, op[<<b, c>>]>>] = op[<<op[<<a, b>>], c>>]
    /\ \A i, j \in 1..n : j < i => U[<<i, j>>] = {}
    /\ \A i, j \in 1..n : U[<<i, j>>] \subseteq Y[<<i, j>>]
    /\ \A i, j \in 1..n : \A m \in K : i < m /\ m < j =>
            \A a \in Y[<<i, m - 1>>] : \A b \in U[<<m + 1, j>>] : op[<<a, b>>] \in Y[<<i, j>>]
    /\ \A i \in 1..n : \A j \in 1..n : \A v \in Y[<<i, j>>] : v \notin U[<<i, j>>] =>
            \E m \in K : i < m /\ m < j /\
                \E a \in Y[<<i, m - 1>>] : \E b \in U[<<m + 1, j>>] : v = op[<<a, b>>]

LEMMA ChainTyped ==
    ASSUME NEW n, NEW K, NEW U, NEW Y, NEW op, Chains(n, K, U, Y, op),
           NEW i \in 1..n, NEW j \in 1..n
    PROVE  /\ Y[<<i, j>>] \subseteq BOOLEAN
           /\ U[<<i, j>>] \subseteq Y[<<i, j>>]
           /\ j < i => Y[<<i, j>>] = {}
<1>1. <<i, j>> \in (1..n) \X (1..n)
  OBVIOUS
<1>2. Y[<<i, j>>] \subseteq BOOLEAN /\ U[<<i, j>>] \subseteq Y[<<i, j>>]
  BY <1>1 DEF Chains
<1>3. ASSUME j < i, NEW v \in Y[<<i, j>>] PROVE FALSE
  <2>1. v \notin U[<<i, j>>]
    BY <1>3 DEF Chains
  <2>2. PICK m \in K : i < m /\ m < j
    BY <1>3, <2>1, Zenon DEF Chains
  <2>3. m \in Int
    BY DEF Chains
  <2> QED BY <1>3, <2>2, <2>3
<1> QED BY <1>2, <1>3

LEMMA ChainExtended ==
    ASSUME NEW n, NEW K, NEW U, NEW Y, NEW op, Chains(n, K, U, Y, op),
           NEW i \in 1..n, NEW j \in 1..n, NEW m \in K, i < m, m < j,
           NEW a \in Y[<<i, m - 1>>], NEW b \in U[<<m + 1, j>>]
    PROVE  op[<<a, b>>] \in Y[<<i, j>>]
  BY DEF Chains

LEMMA ChainsJoined ==
    ASSUME NEW n, NEW K, NEW U, NEW Y, NEW op, Chains(n, K, U, Y, op)
    PROVE  \A i, j \in 1..n : \A m \in K : i < m /\ m < j =>
                \A a \in Y[<<i, m - 1>>] : \A b \in Y[<<m + 1, j>>] : op[<<a, b>>] \in Y[<<i, j>>]
<1> DEFINE T == {w \in Nat : \A i, j \in 1..n : \A m \in K : i < m /\ m < j /\ j - m = w =>
                \A a \in Y[<<i, m - 1>>] : \A b \in Y[<<m + 1, j>>] : op[<<a, b>>] \in Y[<<i, j>>]}
<1>0. n \in Nat /\ K \subseteq 1..n
  BY DEF Chains
<1>9. \A k \in 1..n : \A l \in 1..n : \A u \in Y[<<k, l>>] : u \notin U[<<k, l>>] =>
            \E m \in K : k < m /\ m < l /\
                \E a \in Y[<<k, m - 1>>] : \E b \in U[<<m + 1, l>>] : u = op[<<a, b>>]
  BY Zenon DEF Chains
<1>1. ASSUME NEW w \in Nat, \A x \in Nat : x < w => x \in T PROVE w \in T
  <2> SUFFICES ASSUME NEW i \in 1..n, NEW j \in 1..n, NEW m \in K, i < m, m < j, j - m = w,
                      NEW a \in Y[<<i, m - 1>>], NEW b \in Y[<<m + 1, j>>]
               PROVE  op[<<a, b>>] \in Y[<<i, j>>]
    OBVIOUS
  <2>0. m \in 1..n /\ m - 1 \in 1..n /\ m + 1 \in 1..n
    BY <1>0
  <2>1. CASE b \in U[<<m + 1, j>>]
    BY <2>1, ChainExtended
  <2>2. ASSUME b \notin U[<<m + 1, j>>] PROVE op[<<a, b>>] \in Y[<<i, j>>]
    <3>1. PICK k \in K : m + 1 < k /\ k < j /\
            \E c \in Y[<<m + 1, k - 1>>] : \E d \in U[<<k + 1, j>>] : b = op[<<c, d>>]
      BY <1>9, <2>0, <2>2, Zenon
    <3>2. PICK c \in Y[<<m + 1, k - 1>>], d \in U[<<k + 1, j>>] : b = op[<<c, d>>]
      BY <3>1
    <3>3. k \in 1..n /\ k - 1 \in 1..n /\ k + 1 \in 1..n
      BY <1>0, <2>0, <3>1
    <3>4. (k - 1) - m \in Nat /\ (k - 1) - m < w /\ m < k - 1
      BY <2>0, <3>1, <3>3
    <3>5. op[<<a, c>>] \in Y[<<i, k - 1>>]
      BY <1>1, <3>3, <3>4
    <3>6. op[<<op[<<a, c>>], d>>] \in Y[<<i, j>>]
      <4>1. i < k
        BY <2>0, <3>1, <3>3
      <4> QED BY <3>1, <3>3, <3>5, <4>1, ChainExtended
    <3>7. a \in BOOLEAN /\ c \in BOOLEAN /\ d \in BOOLEAN
      BY <2>0, <3>3, ChainTyped
    <3> QED BY <3>2, <3>6, <3>7 DEF Chains
  <2> QED BY <2>1, <2>2
<1>2. Nat \subseteq T
  <2> HIDE DEF T
  <2> QED BY <1>1, CountingAll
<1>3. \A j \in 1..n : \A m \in K : m < j => j - m \in Nat
  BY <1>0
<1> QED BY <1>2, <1>3

\* v is made of one operand and the chain that follows it.
Begins(K, U, Y, op, i, j, v) ==
    \/ v \in U[<<i, j>>]
    \/ \E m \in K : i < m /\ m < j /\
        \E a \in U[<<i, m - 1>>] : \E b \in Y[<<m + 1, j>>] : v = op[<<a, b>>]

LEMMA ChainsBegin ==
    ASSUME NEW n, NEW K, NEW U, NEW Y, NEW op, Chains(n, K, U, Y, op)
    PROVE  \A i, j \in 1..n : \A v \in Y[<<i, j>>] : Begins(K, U, Y, op, i, j, v)
<1> DEFINE T == {w \in Nat : \A i, j \in 1..n : i <= j /\ j - i = w =>
                    \A v \in Y[<<i, j>>] : Begins(K, U, Y, op, i, j, v)}
<1>0. n \in Nat /\ K \subseteq 1..n
  BY DEF Chains
<1>9. \A k \in 1..n : \A l \in 1..n : \A u \in Y[<<k, l>>] : u \notin U[<<k, l>>] =>
            \E m \in K : k < m /\ m < l /\
                \E a \in Y[<<k, m - 1>>] : \E b \in U[<<m + 1, l>>] : u = op[<<a, b>>]
  BY Zenon DEF Chains
<1>1. ASSUME NEW w \in Nat, \A x \in Nat : x < w => x \in T PROVE w \in T
  <2> SUFFICES ASSUME NEW i \in 1..n, NEW j \in 1..n, i <= j, j - i = w, NEW v \in Y[<<i, j>>],
                      v \notin U[<<i, j>>]
               PROVE  \E m \in K : i < m /\ m < j /\
                        \E a \in U[<<i, m - 1>>] : \E b \in Y[<<m + 1, j>>] : v = op[<<a, b>>]
    BY Zenon DEF Begins
  <2>1. PICK m \in K : i < m /\ m < j /\
            \E a \in Y[<<i, m - 1>>] : \E b \in U[<<m + 1, j>>] : v = op[<<a, b>>]
    BY <1>9, Zenon
  <2>2. PICK a \in Y[<<i, m - 1>>], b \in U[<<m + 1, j>>] : v = op[<<a, b>>]
    BY <2>1
  <2>3. m \in 1..n /\ m - 1 \in 1..n /\ m + 1 \in 1..n
    BY <1>0, <2>1
  <2>4. (m - 1) - i \in Nat /\ (m - 1) - i < w /\ i <= m - 1
    BY <2>1, <2>3
  <2>5. Begins(K, U, Y, op, i, m - 1, a)
    <3>1. (m - 1) - i \in T
      BY <1>1, <2>4
    <3> QED BY <2>3, <2>4, <3>1
  <2>6. CASE a \in U[<<i, m - 1>>]
    <3>1. b \in Y[<<m + 1, j>>]
      BY <2>3, ChainTyped
    <3> QED BY <2>1, <2>2, <2>6, <3>1
  <2>7. ASSUME a \notin U[<<i, m - 1>>]
        PROVE  \E k \in K : i < k /\ k < j /\
                \E c \in U[<<i, k - 1>>] : \E d \in Y[<<k + 1, j>>] : v = op[<<c, d>>]
    <3>1. PICK k \in K : i < k /\ k < m - 1 /\
            \E c \in U[<<i, k - 1>>] : \E d \in Y[<<k + 1, m - 1>>] : a = op[<<c, d>>]
      BY <2>5, <2>7, Zenon DEF Begins
    <3>2. PICK c \in U[<<i, k - 1>>], d \in Y[<<k + 1, m - 1>>] : a = op[<<c, d>>]
      BY <3>1
    <3>3. k \in 1..n /\ k - 1 \in 1..n /\ k + 1 \in 1..n
      BY <1>0, <2>3, <3>1
    <3>4. k + 1 <= m - 1
      BY <2>3, <3>1, <3>3
    <3>5. op[<<d, b>>] \in Y[<<k + 1, j>>]
      BY <2>1, <2>3, <3>3, <3>4, ChainExtended
    <3>6. b \in BOOLEAN /\ d \in BOOLEAN /\ c \in BOOLEAN
      BY <2>3, <3>3, ChainTyped
    <3>7. v = op[<<c, op[<<d, b>>]>>]
      BY <2>2, <3>2, <3>6 DEF Chains
    <3>8. k < j
      BY <2>1, <2>3, <3>1, <3>3
    <3> QED BY <3>1, <3>2, <3>5, <3>7, <3>8
  <2> QED BY <2>6, <2>7
<1>2. Nat \subseteq T
  <2> HIDE DEF T
  <2> QED BY <1>1, CountingAll
<1>3. ASSUME NEW i \in 1..n, NEW j \in 1..n, NEW v \in Y[<<i, j>>] PROVE Begins(K, U, Y, op, i, j, v)
  <2>1. i <= j /\ j - i \in Nat
    BY <1>0, ChainTyped
  <2> QED BY <1>2, <2>1
<1> QED BY <1>3
-----------------------------------------------------------------------------
(* The parser reads what the grammar says, and nothing else.               *)

\* P is the parser of these tokens, M their grammar.
Reading(tokens, leaf, P, M) ==
    /\ Readable(tokens, leaf)
    /\ P \in Parses(tokens) /\ P = ParseStep(tokens, leaf, P)
    /\ M \in [Spans(tokens) -> Meanings] /\ M = MeaningStep(tokens, leaf, M)

Places(tokens, k) == {m \in 1..Len(tokens) : tokens[m].kind = k}

LEMMA ParserAt ==
    ASSUME NEW tokens, NEW leaf, NEW P, NEW M, Reading(tokens, leaf, P, M),
           NEW p \in Positions(tokens)
    PROVE  /\ P[p].unary = Unary(tokens, leaf, P, p)
           /\ P[p].and = AndFrom(tokens, P, P[p].unary)
           /\ P[p].or = OrFrom(tokens, P, P[p].and)
<1>1. P = ParseStep(tokens, leaf, P)
  BY DEF Reading
<1>2. P[p] = [or |-> OrFrom(tokens, P, AndFrom(tokens, P, Unary(tokens, leaf, P, p))),
              and |-> AndFrom(tokens, P, Unary(tokens, leaf, P, p)),
              unary |-> Unary(tokens, leaf, P, p)]
  BY <1>1 DEF ParseStep
<1> QED BY <1>2

LEMMA GrammarAt ==
    ASSUME NEW tokens, NEW leaf, NEW P, NEW M, Reading(tokens, leaf, P, M),
           NEW i \in 1..Len(tokens), NEW j \in 1..Len(tokens)
    PROVE  /\ M[<<i, j>>].unary = UnaryMeaning(tokens, leaf, M, i, j)
           /\ M[<<i, j>>].and = M[<<i, j>>].unary \cup AndMeaning(tokens, M, i, j)
           /\ M[<<i, j>>].or = M[<<i, j>>].and \cup OrMeaning(tokens, M, i, j)
<1>1. M = MeaningStep(tokens, leaf, M)
  BY DEF Reading
<1>2. <<i, j>> \in Spans(tokens) /\ <<i, j>>[1] = i /\ <<i, j>>[2] = j
  BY DEF Spans
<1>3. M[<<i, j>>] =
        [or |-> (UnaryMeaning(tokens, leaf, M, i, j) \cup AndMeaning(tokens, M, i, j))
                    \cup OrMeaning(tokens, M, i, j),
         and |-> UnaryMeaning(tokens, leaf, M, i, j) \cup AndMeaning(tokens, M, i, j),
         unary |-> UnaryMeaning(tokens, leaf, M, i, j)]
  BY <1>1, <1>2 DEF MeaningStep
<1> QED BY <1>3

LEMMA Associative ==
    /\ \A a, b, c \in BOOLEAN : Both(a, Both(b, c)) = Both(Both(a, b), c)
    /\ \A a, b, c \in BOOLEAN : Either(a, Either(b, c)) = Either(Either(a, b), c)
  BY DEF Both, Either

LEMMA Conjunctions ==
    ASSUME NEW tokens, NEW leaf, NEW P, NEW M, Reading(tokens, leaf, P, M)
    PROVE  Chains(Len(tokens), Places(tokens, "and"), [s \in Spans(tokens) |-> M[s].unary],
                  [s \in Spans(tokens) |-> M[s].and],
                  [x \in BOOLEAN \X BOOLEAN |-> Both(x[1], x[2])])
<1> DEFINE n == Len(tokens)
           K == Places(tokens, "and")
           U == [s \in Spans(tokens) |-> M[s].unary]
           Y == [s \in Spans(tokens) |-> M[s].and]
           op == [x \in BOOLEAN \X BOOLEAN |-> Both(x[1], x[2])]
<1>0. n \in Nat /\ K \subseteq 1..n
  BY DEF Reading, Readable, Places
<1>1. U \in [(1..n) \X (1..n) -> SUBSET BOOLEAN] /\ Y \in [(1..n) \X (1..n) -> SUBSET BOOLEAN]
  BY DEF Reading, Spans, Meanings
<1>2. op \in [BOOLEAN \X BOOLEAN -> BOOLEAN] /\ \A a, b \in BOOLEAN : op[<<a, b>>] = Both(a, b)
  BY Truths
<1>3. \A a, b, c \in BOOLEAN : op[<<a, op[<<b, c>>]>>] = op[<<op[<<a, b>>], c>>]
  <2> HIDE DEF op
  <2> QED BY <1>2, Associative, Truths
<1>4. ASSUME NEW i \in 1..n, NEW j \in 1..n
      PROVE  /\ U[<<i, j>>] = M[<<i, j>>].unary /\ Y[<<i, j>>] = M[<<i, j>>].and
             /\ M[<<i, j>>].unary = UnaryMeaning(tokens, leaf, M, i, j)
             /\ Y[<<i, j>>] = U[<<i, j>>] \cup AndMeaning(tokens, M, i, j)
  BY GrammarAt DEF Spans
<1>5. ASSUME NEW i \in 1..n, NEW j \in 1..n, j < i PROVE U[<<i, j>>] = {}
  <2>1. UnaryMeaning(tokens, leaf, M, i, j) = {}
    BY <1>0, <1>5 DEF UnaryMeaning
  <2> QED BY <1>4, <2>1
<1>6. ASSUME NEW i \in 1..n, NEW j \in 1..n, NEW m \in K, i < m, m < j
      PROVE  /\ m \in Operators(tokens, "and", i, j)
             /\ Y[<<i, m - 1>>] = M[<<i, m - 1>>].and
             /\ U[<<m + 1, j>>] = M[<<m + 1, j>>].unary
  <2>1. m \in Operators(tokens, "and", i, j) /\ m - 1 \in 1..n /\ m + 1 \in 1..n
    BY <1>0, <1>6 DEF Operators, Places
  <2> QED BY <1>4, <2>1
<1>7. ASSUME NEW i \in 1..n, NEW j \in 1..n, NEW m \in Operators(tokens, "and", i, j)
      PROVE  m \in K /\ i < m /\ m < j
  BY <1>0 DEF Operators, Places
<1> HIDE DEF n, K, U, Y, op
<1>8. ASSUME NEW i \in 1..n, NEW j \in 1..n, NEW m \in K, i < m, m < j,
             NEW a \in Y[<<i, m - 1>>], NEW b \in U[<<m + 1, j>>]
      PROVE  op[<<a, b>>] \in Y[<<i, j>>]
  <2>1. m - 1 \in 1..n /\ m + 1 \in 1..n
    BY <1>0, <1>8
  <2>2. a \in BOOLEAN /\ b \in BOOLEAN
    BY <1>1, <2>1
  <2>3. Both(a, b) \in AndMeaning(tokens, M, i, j)
    BY <1>6, <1>8, Truths DEF AndMeaning
  <2> QED BY <1>2, <1>4, <2>2, <2>3
<1>9. ASSUME NEW i \in 1..n, NEW j \in 1..n, NEW v \in Y[<<i, j>>], v \notin U[<<i, j>>]
      PROVE  \E m \in K : i < m /\ m < j /\
                \E a \in Y[<<i, m - 1>>] : \E b \in U[<<m + 1, j>>] : v = op[<<a, b>>]
  <2>1. v \in AndMeaning(tokens, M, i, j)
    BY <1>4, <1>9
  <2>2. PICK m \in Operators(tokens, "and", i, j) :
            \E a \in M[<<i, m - 1>>].and : \E b \in M[<<m + 1, j>>].unary : v = Both(a, b)
    BY <2>1 DEF AndMeaning
  <2>3. PICK a \in M[<<i, m - 1>>].and, b \in M[<<m + 1, j>>].unary : v = Both(a, b)
    BY <2>2
  <2>4. m \in K /\ i < m /\ m < j
    BY <1>7
  <2>5. a \in Y[<<i, m - 1>>] /\ b \in U[<<m + 1, j>>]
    BY <1>6, <2>4
  <2>6. m - 1 \in 1..n /\ m + 1 \in 1..n
    BY <1>0, <2>4
  <2>7. a \in BOOLEAN /\ b \in BOOLEAN
    BY <1>1, <2>5, <2>6
  <2>8. v = op[<<a, b>>]
    BY <1>2, <2>3, <2>7
  <2> QED BY <2>4, <2>5, <2>8
<1>10. \A i, j \in 1..n : U[<<i, j>>] \subseteq Y[<<i, j>>]
  BY <1>4
<1>11. Chains(n, K, U, Y, op)
  BY <1>0, <1>1, <1>2, <1>3, <1>5, <1>8, <1>9, <1>10 DEF Chains
<1> QED BY <1>11 DEF n, K, U, Y, op

LEMMA Disjunctions ==
    ASSUME NEW tokens, NEW leaf, NEW P, NEW M, Reading(tokens, leaf, P, M)
    PROVE  Chains(Len(tokens), Places(tokens, "or"), [s \in Spans(tokens) |-> M[s].and],
                  [s \in Spans(tokens) |-> M[s].or],
                  [x \in BOOLEAN \X BOOLEAN |-> Either(x[1], x[2])])
<1> DEFINE n == Len(tokens)
           K == Places(tokens, "or")
           U == [s \in Spans(tokens) |-> M[s].and]
           Y == [s \in Spans(tokens) |-> M[s].or]
           op == [x \in BOOLEAN \X BOOLEAN |-> Either(x[1], x[2])]
<1>0. n \in Nat /\ K \subseteq 1..n
  BY DEF Reading, Readable, Places
<1>1. U \in [(1..n) \X (1..n) -> SUBSET BOOLEAN] /\ Y \in [(1..n) \X (1..n) -> SUBSET BOOLEAN]
  BY DEF Reading, Spans, Meanings
<1>2. op \in [BOOLEAN \X BOOLEAN -> BOOLEAN] /\ \A a, b \in BOOLEAN : op[<<a, b>>] = Either(a, b)
  BY Truths
<1>3. \A a, b, c \in BOOLEAN : op[<<a, op[<<b, c>>]>>] = op[<<op[<<a, b>>], c>>]
  <2> HIDE DEF op
  <2> QED BY <1>2, Associative, Truths
<1>4. ASSUME NEW i \in 1..n, NEW j \in 1..n
      PROVE  /\ U[<<i, j>>] = M[<<i, j>>].and /\ Y[<<i, j>>] = M[<<i, j>>].or
             /\ Y[<<i, j>>] = U[<<i, j>>] \cup OrMeaning(tokens, M, i, j)
  BY GrammarAt DEF Spans
<1>5. ASSUME NEW i \in 1..n, NEW j \in 1..n, j < i PROVE U[<<i, j>>] = {}
  <2> DEFINE V == [s \in Spans(tokens) |-> M[s].unary]
             both == [x \in BOOLEAN \X BOOLEAN |-> Both(x[1], x[2])]
  <2>1. Chains(n, Places(tokens, "and"), V, U, both)
    BY Conjunctions
  <2> HIDE DEF n, U, V, both
  <2> QED BY <1>5, <2>1, ChainTyped
<1>6. ASSUME NEW i \in 1..n, NEW j \in 1..n, NEW m \in K, i < m, m < j
      PROVE  /\ m \in Operators(tokens, "or", i, j)
             /\ Y[<<i, m - 1>>] = M[<<i, m - 1>>].or
             /\ U[<<m + 1, j>>] = M[<<m + 1, j>>].and
  <2>1. m \in Operators(tokens, "or", i, j) /\ m - 1 \in 1..n /\ m + 1 \in 1..n
    BY <1>0, <1>6 DEF Operators, Places
  <2> QED BY <1>4, <2>1
<1>7. ASSUME NEW i \in 1..n, NEW j \in 1..n, NEW m \in Operators(tokens, "or", i, j)
      PROVE  m \in K /\ i < m /\ m < j
  BY <1>0 DEF Operators, Places
<1> HIDE DEF n, K, U, Y, op
<1>8. ASSUME NEW i \in 1..n, NEW j \in 1..n, NEW m \in K, i < m, m < j,
             NEW a \in Y[<<i, m - 1>>], NEW b \in U[<<m + 1, j>>]
      PROVE  op[<<a, b>>] \in Y[<<i, j>>]
  <2>1. m - 1 \in 1..n /\ m + 1 \in 1..n
    BY <1>0, <1>8
  <2>2. a \in BOOLEAN /\ b \in BOOLEAN
    BY <1>1, <2>1
  <2>3. Either(a, b) \in OrMeaning(tokens, M, i, j)
    BY <1>6, <1>8, Truths DEF OrMeaning
  <2> QED BY <1>2, <1>4, <2>2, <2>3
<1>9. ASSUME NEW i \in 1..n, NEW j \in 1..n, NEW v \in Y[<<i, j>>], v \notin U[<<i, j>>]
      PROVE  \E m \in K : i < m /\ m < j /\
                \E a \in Y[<<i, m - 1>>] : \E b \in U[<<m + 1, j>>] : v = op[<<a, b>>]
  <2>1. v \in OrMeaning(tokens, M, i, j)
    BY <1>4, <1>9
  <2>2. PICK m \in Operators(tokens, "or", i, j) :
            \E a \in M[<<i, m - 1>>].or : \E b \in M[<<m + 1, j>>].and : v = Either(a, b)
    BY <2>1 DEF OrMeaning
  <2>3. PICK a \in M[<<i, m - 1>>].or, b \in M[<<m + 1, j>>].and : v = Either(a, b)
    BY <2>2
  <2>4. m \in K /\ i < m /\ m < j
    BY <1>7
  <2>5. a \in Y[<<i, m - 1>>] /\ b \in U[<<m + 1, j>>]
    BY <1>6, <2>4
  <2>6. m - 1 \in 1..n /\ m + 1 \in 1..n
    BY <1>0, <2>4
  <2>7. a \in BOOLEAN /\ b \in BOOLEAN
    BY <1>1, <2>5, <2>6
  <2>8. v = op[<<a, b>>]
    BY <1>2, <2>3, <2>7
  <2> QED BY <2>4, <2>5, <2>8
<1>10. \A i, j \in 1..n : U[<<i, j>>] \subseteq Y[<<i, j>>]
  BY <1>4
<1>11. Chains(n, K, U, Y, op)
  BY <1>0, <1>1, <1>2, <1>3, <1>5, <1>8, <1>9, <1>10 DEF Chains
<1> QED BY <1>11 DEF n, K, U, Y, op

LEMMA AndBegins ==
    ASSUME NEW tokens, NEW leaf, NEW P, NEW M, Reading(tokens, leaf, P, M),
           NEW i \in 1..Len(tokens), NEW j \in 1..Len(tokens), NEW v \in M[<<i, j>>].and,
           v \notin M[<<i, j>>].unary
    PROVE  \E m \in Places(tokens, "and") : i < m /\ m < j /\
                \E a \in M[<<i, m - 1>>].unary : \E b \in M[<<m + 1, j>>].and : v = Both(a, b)
<1> DEFINE n == Len(tokens)
           K == Places(tokens, "and")
           U == [s \in Spans(tokens) |-> M[s].unary]
           Y == [s \in Spans(tokens) |-> M[s].and]
           op == [x \in BOOLEAN \X BOOLEAN |-> Both(x[1], x[2])]
<1>0. n \in Nat /\ K \subseteq 1..n
  BY DEF Reading, Readable, Places
<1>1. ASSUME NEW k \in 1..n, NEW l \in 1..n
      PROVE  U[<<k, l>>] = M[<<k, l>>].unary /\ Y[<<k, l>>] = M[<<k, l>>].and
  BY DEF Spans
<1>2. \A a, b \in BOOLEAN : op[<<a, b>>] = Both(a, b)
  OBVIOUS
<1>3. Chains(n, K, U, Y, op)
  BY Conjunctions
<1> HIDE DEF n, K, U, Y, op
<1>4. v \in Y[<<i, j>>] /\ v \notin U[<<i, j>>]
  BY <1>1 DEF n
<1>5. PICK m \in K : i < m /\ m < j /\
            \E a \in U[<<i, m - 1>>] : \E b \in Y[<<m + 1, j>>] : v = op[<<a, b>>]
  <2>1. Begins(K, U, Y, op, i, j, v)
    BY <1>3, <1>4, ChainsBegin DEF n
  <2> QED BY <1>4, <2>1, Zenon DEF Begins
<1>6. PICK a \in U[<<i, m - 1>>], b \in Y[<<m + 1, j>>] : v = op[<<a, b>>]
  BY <1>5
<1>7. m - 1 \in 1..n /\ m + 1 \in 1..n /\ i \in 1..n /\ j \in 1..n
  BY <1>0, <1>5 DEF n
<1>8. a \in BOOLEAN /\ b \in BOOLEAN
  BY <1>3, <1>7, ChainTyped
<1>9. a \in M[<<i, m - 1>>].unary /\ b \in M[<<m + 1, j>>].and /\ v = Both(a, b)
  BY <1>1, <1>2, <1>6, <1>7, <1>8
<1>10. m \in Places(tokens, "and")
  BY DEF K
<1> QED BY <1>5, <1>9, <1>10

LEMMA AndJoined ==
    ASSUME NEW tokens, NEW leaf, NEW P, NEW M, Reading(tokens, leaf, P, M),
           NEW i \in 1..Len(tokens), NEW j \in 1..Len(tokens),
           NEW m \in Places(tokens, "and"), i < m, m < j,
           NEW a \in M[<<i, m - 1>>].unary, NEW b \in M[<<m + 1, j>>].and
    PROVE  Both(a, b) \in M[<<i, j>>].and
<1> DEFINE n == Len(tokens)
           K == Places(tokens, "and")
           U == [s \in Spans(tokens) |-> M[s].unary]
           Y == [s \in Spans(tokens) |-> M[s].and]
           op == [x \in BOOLEAN \X BOOLEAN |-> Both(x[1], x[2])]
<1>0. n \in Nat /\ K \subseteq 1..n
  BY DEF Reading, Readable, Places
<1>1. ASSUME NEW k \in 1..n, NEW l \in 1..n
      PROVE  U[<<k, l>>] = M[<<k, l>>].unary /\ Y[<<k, l>>] = M[<<k, l>>].and
  BY DEF Spans
<1>2. \A x, y \in BOOLEAN : op[<<x, y>>] = Both(x, y)
  OBVIOUS
<1>3. Chains(n, K, U, Y, op)
  BY Conjunctions
<1> HIDE DEF n, K, U, Y, op
<1>4. m - 1 \in 1..n /\ m + 1 \in 1..n /\ i \in 1..n /\ j \in 1..n /\ m \in K
  BY <1>0 DEF n, K
<1>5. a \in Y[<<i, m - 1>>] /\ b \in Y[<<m + 1, j>>]
  <2>1. a \in U[<<i, m - 1>>] /\ b \in Y[<<m + 1, j>>]
    BY <1>1, <1>4
  <2> QED BY <1>3, <1>4, <2>1, ChainTyped
<1>6. op[<<a, b>>] \in Y[<<i, j>>]
  BY <1>3, <1>4, <1>5, ChainsJoined
<1>7. a \in BOOLEAN /\ b \in BOOLEAN
  BY <1>3, <1>4, <1>5, ChainTyped
<1> QED BY <1>1, <1>2, <1>4, <1>6, <1>7

LEMMA OrBegins ==
    ASSUME NEW tokens, NEW leaf, NEW P, NEW M, Reading(tokens, leaf, P, M),
           NEW i \in 1..Len(tokens), NEW j \in 1..Len(tokens), NEW v \in M[<<i, j>>].or,
           v \notin M[<<i, j>>].and
    PROVE  \E m \in Places(tokens, "or") : i < m /\ m < j /\
                \E a \in M[<<i, m - 1>>].and : \E b \in M[<<m + 1, j>>].or : v = Either(a, b)
<1> DEFINE n == Len(tokens)
           K == Places(tokens, "or")
           U == [s \in Spans(tokens) |-> M[s].and]
           Y == [s \in Spans(tokens) |-> M[s].or]
           op == [x \in BOOLEAN \X BOOLEAN |-> Either(x[1], x[2])]
<1>0. n \in Nat /\ K \subseteq 1..n
  BY DEF Reading, Readable, Places
<1>1. ASSUME NEW k \in 1..n, NEW l \in 1..n
      PROVE  U[<<k, l>>] = M[<<k, l>>].and /\ Y[<<k, l>>] = M[<<k, l>>].or
  BY DEF Spans
<1>2. \A a, b \in BOOLEAN : op[<<a, b>>] = Either(a, b)
  OBVIOUS
<1>3. Chains(n, K, U, Y, op)
  BY Disjunctions
<1> HIDE DEF n, K, U, Y, op
<1>4. v \in Y[<<i, j>>] /\ v \notin U[<<i, j>>]
  BY <1>1 DEF n
<1>5. PICK m \in K : i < m /\ m < j /\
            \E a \in U[<<i, m - 1>>] : \E b \in Y[<<m + 1, j>>] : v = op[<<a, b>>]
  <2>1. Begins(K, U, Y, op, i, j, v)
    BY <1>3, <1>4, ChainsBegin DEF n
  <2> QED BY <1>4, <2>1, Zenon DEF Begins
<1>6. PICK a \in U[<<i, m - 1>>], b \in Y[<<m + 1, j>>] : v = op[<<a, b>>]
  BY <1>5
<1>7. m - 1 \in 1..n /\ m + 1 \in 1..n /\ i \in 1..n /\ j \in 1..n
  BY <1>0, <1>5 DEF n
<1>8. a \in BOOLEAN /\ b \in BOOLEAN
  BY <1>3, <1>7, ChainTyped
<1>9. a \in M[<<i, m - 1>>].and /\ b \in M[<<m + 1, j>>].or /\ v = Either(a, b)
  BY <1>1, <1>2, <1>6, <1>7, <1>8
<1>10. m \in Places(tokens, "or")
  BY DEF K
<1> QED BY <1>5, <1>9, <1>10

LEMMA OrJoined ==
    ASSUME NEW tokens, NEW leaf, NEW P, NEW M, Reading(tokens, leaf, P, M),
           NEW i \in 1..Len(tokens), NEW j \in 1..Len(tokens),
           NEW m \in Places(tokens, "or"), i < m, m < j,
           NEW a \in M[<<i, m - 1>>].and, NEW b \in M[<<m + 1, j>>].or
    PROVE  Either(a, b) \in M[<<i, j>>].or
<1> DEFINE n == Len(tokens)
           K == Places(tokens, "or")
           U == [s \in Spans(tokens) |-> M[s].and]
           Y == [s \in Spans(tokens) |-> M[s].or]
           op == [x \in BOOLEAN \X BOOLEAN |-> Either(x[1], x[2])]
<1>0. n \in Nat /\ K \subseteq 1..n
  BY DEF Reading, Readable, Places
<1>1. ASSUME NEW k \in 1..n, NEW l \in 1..n
      PROVE  U[<<k, l>>] = M[<<k, l>>].and /\ Y[<<k, l>>] = M[<<k, l>>].or
  BY DEF Spans
<1>2. \A x, y \in BOOLEAN : op[<<x, y>>] = Either(x, y)
  OBVIOUS
<1>3. Chains(n, K, U, Y, op)
  BY Disjunctions
<1> HIDE DEF n, K, U, Y, op
<1>4. m - 1 \in 1..n /\ m + 1 \in 1..n /\ i \in 1..n /\ j \in 1..n /\ m \in K
  BY <1>0 DEF n, K
<1>5. a \in Y[<<i, m - 1>>] /\ b \in Y[<<m + 1, j>>]
  <2>1. a \in U[<<i, m - 1>>] /\ b \in Y[<<m + 1, j>>]
    BY <1>1, <1>4
  <2> QED BY <1>3, <1>4, <2>1, ChainTyped
<1>6. op[<<a, b>>] \in Y[<<i, j>>]
  BY <1>3, <1>4, <1>5, ChainsJoined
<1>7. a \in BOOLEAN /\ b \in BOOLEAN
  BY <1>3, <1>4, <1>5, ChainTyped
<1> QED BY <1>1, <1>2, <1>4, <1>6, <1>7

\* What a span means, the parser finds, unless the span goes on after it.
Reads(tokens, P, M, i, j) ==
    /\ \A v \in M[<<i, j>>].unary : P[i].unary = Parsed(v, j + 1)
    /\ ~At(tokens, j + 1, "and") =>
            \A v \in M[<<i, j>>].and : P[i].and = Parsed(v, j + 1)
    /\ ~At(tokens, j + 1, "and") /\ ~At(tokens, j + 1, "or") =>
            \A v \in M[<<i, j>>].or : P[i].or = Parsed(v, j + 1)

LEMMA ParsedParts ==
    \A v, q : Parsed(v, q).ok /\ Parsed(v, q).value = v /\ Parsed(v, q).pos = q
  BY DEF Parsed

LEMMA FromParsed ==
    ASSUME NEW tokens, NEW P, NEW v, NEW q
    PROVE  /\ ~At(tokens, q, "and") => AndFrom(tokens, P, Parsed(v, q)) = Parsed(v, q)
           /\ ~At(tokens, q, "or") => OrFrom(tokens, P, Parsed(v, q)) = Parsed(v, q)
           /\ \A w, r : At(tokens, q, "and") /\ P[q + 1].and = Parsed(w, r) =>
                    AndFrom(tokens, P, Parsed(v, q)) = Parsed(Both(v, w), r)
           /\ \A w, r : At(tokens, q, "or") /\ P[q + 1].or = Parsed(w, r) =>
                    OrFrom(tokens, P, Parsed(v, q)) = Parsed(Either(v, w), r)
<1>1. Parsed(v, q).ok /\ Parsed(v, q).value = v /\ Parsed(v, q).pos = q
  BY ParsedParts
<1>2. AndFrom(tokens, P, Parsed(v, q)) =
        IF ~At(tokens, q, "and") THEN Parsed(v, q)
        ELSE IF P[q + 1].and.ok THEN Parsed(Both(v, P[q + 1].and.value), P[q + 1].and.pos)
        ELSE P[q + 1].and
  BY <1>1 DEF AndFrom
<1>3. OrFrom(tokens, P, Parsed(v, q)) =
        IF ~At(tokens, q, "or") THEN Parsed(v, q)
        ELSE IF P[q + 1].or.ok THEN Parsed(Either(v, P[q + 1].or.value), P[q + 1].or.pos)
        ELSE P[q + 1].or
  BY <1>1 DEF OrFrom
<1> QED BY <1>2, <1>3, ParsedParts

LEMMA MeaningIsRead ==
    ASSUME NEW tokens, NEW leaf, NEW P, NEW M, Reading(tokens, leaf, P, M),
           NEW i \in 1..Len(tokens), NEW j \in 1..Len(tokens), i <= j,
           \A k, l \in 1..Len(tokens) : k <= l /\ l - k < j - i => Reads(tokens, P, M, k, l)
    PROVE  Reads(tokens, P, M, i, j)
<1> DEFINE n == Len(tokens)
<1>0. n \in Nat
  BY DEF Reading, Readable
<1>1. i \in Positions(tokens) /\ i \in 1..n /\ j \in 1..n
  BY <1>0 DEF Positions
<1>2. /\ P[i].unary = Unary(tokens, leaf, P, i)
      /\ P[i].and = AndFrom(tokens, P, P[i].unary)
      /\ P[i].or = OrFrom(tokens, P, P[i].and)
  BY <1>1, ParserAt
<1>3. /\ M[<<i, j>>].unary = UnaryMeaning(tokens, leaf, M, i, j)
      /\ M[<<i, j>>].and = M[<<i, j>>].unary \cup AndMeaning(tokens, M, i, j)
      /\ M[<<i, j>>].or = M[<<i, j>>].and \cup OrMeaning(tokens, M, i, j)
  BY GrammarAt
<1>4. \A k, l \in 1..n : k <= l /\ l - k < j - i => Reads(tokens, P, M, k, l)
  OBVIOUS
<1>5. \A k : At(tokens, i, k) <=> tokens[i].kind = k
  BY <1>0 DEF At
<1> HIDE DEF n
<1>6. ASSUME NEW v \in M[<<i, j>>].unary PROVE P[i].unary = Parsed(v, j + 1)
  <2>0. v \in UnaryMeaning(tokens, leaf, M, i, j)
    BY <1>3
  <2>1. CASE tokens[i].kind = "not"
    <3>1. i < j /\ \E a \in M[<<i + 1, j>>].unary : v = Opposite(a)
      BY <2>0, <2>1 DEF UnaryMeaning
    <3>2. PICK a \in M[<<i + 1, j>>].unary : v = Opposite(a)
      BY <3>1
    <3>3. i + 1 \in 1..n /\ i + 1 <= j /\ j - (i + 1) < j - i
      BY <1>0, <1>1, <3>1
    <3>4. Reads(tokens, P, M, i + 1, j)
      BY <1>1, <1>4, <3>3
    <3>5. P[i + 1].unary = Parsed(a, j + 1)
      BY <3>4 DEF Reads
    <3>6. Unary(tokens, leaf, P, i) = Parsed(Opposite(a), j + 1)
      BY <1>5, <2>1, <3>5 DEF Unary, Parsed
    <3> QED BY <1>2, <3>2, <3>6
  <2>2. CASE tokens[i].kind = "open"
    <3>1. tokens[j].kind = "close" /\ i + 1 < j /\ v \in M[<<i + 1, j - 1>>].or
      BY <2>0, <2>2 DEF UnaryMeaning
    <3>2. i + 1 \in 1..n /\ j - 1 \in 1..n /\ i + 1 <= j - 1 /\ (j - 1) - (i + 1) < j - i
      BY <1>0, <1>1, <3>1
    <3>3. Reads(tokens, P, M, i + 1, j - 1)
      BY <1>4, <3>2
    <3>4. (j - 1) + 1 = j /\ At(tokens, j, "close") /\ ~At(tokens, j, "and") /\ ~At(tokens, j, "or")
      BY <1>1, <3>1 DEF At, n
    <3>5. P[i + 1].or = Parsed(v, j)
      BY <3>1, <3>3, <3>4 DEF Reads
    <3>6. Primary(tokens, leaf, P, i) = Parsed(v, j + 1)
      BY <1>5, <2>2, <3>4, <3>5 DEF Primary, Parsed
    <3>7. Unary(tokens, leaf, P, i) = Primary(tokens, leaf, P, i)
      BY <1>5, <2>2 DEF Unary
    <3> QED BY <1>2, <3>6, <3>7
  <2>3. CASE tokens[i].kind = "leaf"
    <3>1. i = j /\ leaf[tokens[i]].ok /\ v = leaf[tokens[i]].value
      BY <2>0, <2>3 DEF UnaryMeaning
    <3>2. Primary(tokens, leaf, P, i) = Parsed(v, i + 1)
      BY <1>5, <2>3, <3>1 DEF Primary
    <3>3. Unary(tokens, leaf, P, i) = Primary(tokens, leaf, P, i)
      BY <1>5, <2>3 DEF Unary
    <3> QED BY <1>2, <3>1, <3>2, <3>3
  <2>4. CASE tokens[i].kind \notin {"not", "open", "leaf"}
    BY <2>0, <2>4 DEF UnaryMeaning
  <2> QED BY <2>1, <2>2, <2>3, <2>4
<1>7. ASSUME NEW v \in M[<<i, j>>].and, ~At(tokens, j + 1, "and")
      PROVE  P[i].and = Parsed(v, j + 1)
  <2>1. CASE v \in M[<<i, j>>].unary
    BY <1>2, <1>6, <1>7, <2>1, FromParsed
  <2>2. ASSUME v \notin M[<<i, j>>].unary PROVE P[i].and = Parsed(v, j + 1)
    <3>1. PICK m \in Places(tokens, "and") : i < m /\ m < j /\
            \E a \in M[<<i, m - 1>>].unary : \E b \in M[<<m + 1, j>>].and : v = Both(a, b)
      BY <1>7, <2>2, AndBegins
    <3>2. PICK a \in M[<<i, m - 1>>].unary, b \in M[<<m + 1, j>>].and : v = Both(a, b)
      BY <3>1
    <3>3. m \in 1..n /\ tokens[m].kind = "and"
      BY DEF Places, n
    <3>4. /\ m - 1 \in 1..n /\ m + 1 \in 1..n /\ i <= m - 1 /\ m + 1 <= j
          /\ (m - 1) - i < j - i /\ j - (m + 1) < j - i /\ (m - 1) + 1 = m
      BY <1>0, <1>1, <3>1, <3>3
    <3>5. P[i].unary = Parsed(a, m)
      BY <1>1, <1>4, <3>4 DEF Reads
    <3>6. P[m + 1].and = Parsed(b, j + 1)
      BY <1>1, <1>4, <1>7, <3>4 DEF Reads
    <3>7. At(tokens, m, "and")
      BY <1>0, <3>3 DEF At, n
    <3>8. AndFrom(tokens, P, Parsed(a, m)) = Parsed(Both(a, b), j + 1)
      BY <3>6, <3>7, FromParsed
    <3> QED BY <1>2, <3>2, <3>5, <3>8
  <2> QED BY <2>1, <2>2
<1>8. ASSUME NEW v \in M[<<i, j>>].or, ~At(tokens, j + 1, "and"), ~At(tokens, j + 1, "or")
      PROVE  P[i].or = Parsed(v, j + 1)
  <2>1. CASE v \in M[<<i, j>>].and
    BY <1>2, <1>7, <1>8, <2>1, FromParsed
  <2>2. ASSUME v \notin M[<<i, j>>].and PROVE P[i].or = Parsed(v, j + 1)
    <3>1. PICK m \in Places(tokens, "or") : i < m /\ m < j /\
            \E a \in M[<<i, m - 1>>].and : \E b \in M[<<m + 1, j>>].or : v = Either(a, b)
      BY <1>8, <2>2, OrBegins
    <3>2. PICK a \in M[<<i, m - 1>>].and, b \in M[<<m + 1, j>>].or : v = Either(a, b)
      BY <3>1
    <3>3. m \in 1..n /\ tokens[m].kind = "or"
      BY DEF Places, n
    <3>4. /\ m - 1 \in 1..n /\ m + 1 \in 1..n /\ i <= m - 1 /\ m + 1 <= j
          /\ (m - 1) - i < j - i /\ j - (m + 1) < j - i /\ (m - 1) + 1 = m
      BY <1>0, <1>1, <3>1, <3>3
    <3>5. At(tokens, m, "or") /\ ~At(tokens, m, "and")
      BY <1>0, <3>3 DEF At, n
    <3>6. P[i].and = Parsed(a, m)
      BY <1>1, <1>4, <3>4, <3>5 DEF Reads
    <3>7. P[m + 1].or = Parsed(b, j + 1)
      BY <1>1, <1>4, <1>8, <3>4 DEF Reads
    <3>8. OrFrom(tokens, P, Parsed(a, m)) = Parsed(Either(a, b), j + 1)
      BY <3>5, <3>7, FromParsed
    <3> QED BY <1>2, <3>2, <3>6, <3>8
  <2> QED BY <2>1, <2>2
<1> QED BY <1>6, <1>7, <1>8 DEF Reads

LEMMA AllMeaningsAreRead ==
    ASSUME NEW tokens, NEW leaf, NEW P, NEW M, Reading(tokens, leaf, P, M)
    PROVE  \A i, j \in 1..Len(tokens) : i <= j => Reads(tokens, P, M, i, j)
<1> DEFINE T == {w \in Nat : \A i, j \in 1..Len(tokens) : i <= j /\ j - i = w => Reads(tokens, P, M, i, j)}
<1>1. ASSUME NEW w \in Nat, \A x \in Nat : x < w => x \in T PROVE w \in T
  <2> SUFFICES ASSUME NEW i \in 1..Len(tokens), NEW j \in 1..Len(tokens), i <= j, j - i = w
               PROVE  Reads(tokens, P, M, i, j)
    OBVIOUS
  <2>1. ASSUME NEW k \in 1..Len(tokens), NEW l \in 1..Len(tokens), k <= l, l - k < j - i
        PROVE  Reads(tokens, P, M, k, l)
    <3>1. l - k \in Nat /\ l - k < w
      BY <2>1
    <3> QED BY <1>1, <2>1, <3>1
  <2> QED BY <2>1, MeaningIsRead
<1>2. Nat \subseteq T
  <2> HIDE DEF T
  <2> QED BY <1>1, CountingAll
<1>3. \A i, j \in 1..Len(tokens) : i <= j => j - i \in Nat
  BY DEF Reading, Readable
<1> QED BY <1>2, <1>3

\* What the parser finds at p is what the span it has read means.
Found(P, M, p) ==
    /\ P[p].unary.ok => P[p].unary.pos > p /\ P[p].unary.value \in M[<<p, P[p].unary.pos - 1>>].unary
    /\ P[p].and.ok => P[p].and.pos > p /\ P[p].and.value \in M[<<p, P[p].and.pos - 1>>].and
    /\ P[p].or.ok => P[p].or.pos > p /\ P[p].or.value \in M[<<p, P[p].or.pos - 1>>].or

LEMMA FindingIsMeant ==
    ASSUME NEW tokens, NEW leaf, NEW P, NEW M, Reading(tokens, leaf, P, M),
           NEW p \in Positions(tokens), \A q \in Positions(tokens) : q > p => Found(P, M, q)
    PROVE  Found(P, M, p)
<1> DEFINE n == Len(tokens)
<1>0. n \in Nat
  BY DEF Reading, Readable
<1>1. /\ P[p].unary = Unary(tokens, leaf, P, p)
      /\ P[p].and = AndFrom(tokens, P, P[p].unary)
      /\ P[p].or = OrFrom(tokens, P, P[p].and)
  BY ParserAt
<1>2. ASSUME NEW q \in Positions(tokens)
      PROVE  /\ P[q].or \in Result(tokens, q) /\ P[q].and \in Result(tokens, q)
             /\ P[q].unary \in Result(tokens, q)
  BY ParsesTyped DEF Reading, Readable
<1>3. ASSUME NEW i \in 1..n, NEW j \in 1..n
      PROVE  /\ M[<<i, j>>].unary = UnaryMeaning(tokens, leaf, M, i, j)
             /\ M[<<i, j>>].unary \subseteq M[<<i, j>>].and
             /\ M[<<i, j>>].and \subseteq M[<<i, j>>].or
  BY GrammarAt
<1>4. Positions(tokens) = 1..(n + 1) /\ p \in 1..(n + 1)
  BY DEF Positions
<1>5. \A q \in 1..(n + 1) : \A r \in Result(tokens, q) :
        r.pos \in q..(n + 1) /\ r.value \in BOOLEAN
  BY DEF Result
<1>10. \A q \in 1..(n + 1) : q > p => Found(P, M, q)
  BY <1>4
<1>6. \A q, k : At(tokens, q, k) => q <= n /\ tokens[q].kind = k
  BY DEF At
<1> HIDE DEF n
<1>7. ASSUME P[p].unary.ok
      PROVE  /\ P[p].unary.pos > p
             /\ P[p].unary.value \in M[<<p, P[p].unary.pos - 1>>].unary
  <2>1. CASE At(tokens, p, "not")
    <3>1. p \in 1..n /\ p + 1 \in 1..(n + 1) /\ tokens[p].kind = "not"
      BY <1>0, <1>4, <1>6, <2>1
    <3>2. PICK a : a = P[p + 1].unary
      OBVIOUS
    <3>3. a.ok /\ P[p].unary = Parsed(Opposite(a.value), a.pos)
      BY <1>1, <1>7, <2>1, <3>2 DEF Unary, Parsed
    <3>4. a.pos > p + 1 /\ a.value \in M[<<p + 1, a.pos - 1>>].unary
      <4>1. Found(P, M, p + 1)
        BY <1>0, <1>10, <3>1
      <4> QED BY <3>2, <3>3, <4>1 DEF Found
    <3>5. a.pos \in (p + 1)..(n + 1)
      BY <1>2, <1>4, <1>5, <3>1, <3>2
    <3>6. a.pos - 1 \in 1..n /\ p < a.pos - 1
      BY <1>0, <3>1, <3>4, <3>5
    <3>7. Opposite(a.value) \in UnaryMeaning(tokens, leaf, M, p, a.pos - 1)
      BY <3>1, <3>4, <3>6 DEF UnaryMeaning
    <3> QED BY <1>0, <1>3, <3>1, <3>3, <3>4, <3>5, <3>6, <3>7 DEF Parsed
  <2>2. CASE At(tokens, p, "open") /\ ~At(tokens, p, "not")
    <3>1. p \in 1..n /\ p + 1 \in 1..(n + 1) /\ tokens[p].kind = "open"
      BY <1>0, <1>4, <1>6, <2>2
    <3>2. PICK a : a = P[p + 1].or
      OBVIOUS
    <3>3. a.ok /\ At(tokens, a.pos, "close") /\ P[p].unary = Parsed(a.value, a.pos + 1)
      BY <1>1, <1>7, <2>2, <3>2 DEF Unary, Primary, Parsed, Fail
    <3>4. a.pos > p + 1 /\ a.value \in M[<<p + 1, a.pos - 1>>].or
      <4>1. Found(P, M, p + 1)
        BY <1>0, <1>10, <3>1
      <4> QED BY <3>2, <3>3, <4>1 DEF Found
    <3>5. a.pos \in (p + 1)..(n + 1) /\ a.pos <= n /\ tokens[a.pos].kind = "close"
      BY <1>2, <1>4, <1>5, <1>6, <3>1, <3>2, <3>3
    <3>6. a.pos \in 1..n /\ p + 1 < a.pos /\ (a.pos + 1) - 1 = a.pos
      BY <1>0, <3>1, <3>4, <3>5
    <3>7. a.value \in UnaryMeaning(tokens, leaf, M, p, a.pos)
      BY <3>1, <3>4, <3>5, <3>6 DEF UnaryMeaning
    <3> QED BY <1>0, <1>3, <3>1, <3>3, <3>4, <3>5, <3>6, <3>7 DEF Parsed
  <2>3. CASE ~At(tokens, p, "open") /\ ~At(tokens, p, "not")
    <3>1. At(tokens, p, "leaf") /\ leaf[tokens[p]].ok
          /\ P[p].unary = Parsed(leaf[tokens[p]].value, p + 1)
      BY <1>1, <1>7, <2>3 DEF Unary, Primary, Fail
    <3>2. p \in 1..n /\ tokens[p].kind = "leaf" /\ (p + 1) - 1 = p
      BY <1>0, <1>4, <1>6, <3>1
    <3>3. leaf[tokens[p]].value \in UnaryMeaning(tokens, leaf, M, p, p)
      BY <3>1, <3>2 DEF UnaryMeaning
    <3> QED BY <1>3, <3>1, <3>2, <3>3 DEF Parsed
  <2> QED BY <2>1, <2>2, <2>3
<1>8. ASSUME P[p].and.ok
      PROVE  P[p].and.pos > p /\ P[p].and.value \in M[<<p, P[p].and.pos - 1>>].and
  <2>1. PICK a : a = P[p].unary
    OBVIOUS
  <2>2. P[p].and = AndFrom(tokens, P, a)
    BY <1>1, <2>1
  <2>3. a.ok
    BY <1>8, <2>2 DEF AndFrom
  <2>4. a.pos > p /\ a.value \in M[<<p, a.pos - 1>>].unary /\ a.pos \in p..(n + 1)
    BY <1>2, <1>4, <1>5, <1>7, <2>1, <2>3
  <2>5. p \in 1..n /\ a.pos - 1 \in 1..n
    BY <1>0, <1>4, <2>4
  <2>6. CASE ~At(tokens, a.pos, "and")
    <3>1. P[p].and = a
      BY <2>2, <2>6 DEF AndFrom
    <3> QED BY <1>3, <2>4, <2>5, <3>1
  <2>7. CASE At(tokens, a.pos, "and")
    <3>1. a.pos \in 1..n /\ a.pos \in Places(tokens, "and") /\ a.pos + 1 \in 1..(n + 1)
      BY <1>0, <1>4, <1>6, <2>4, <2>7 DEF Places, n
    <3>2. PICK b : b = P[a.pos + 1].and
      OBVIOUS
    <3>3. b.ok /\ P[p].and = Parsed(Both(a.value, b.value), b.pos)
      BY <1>8, <2>2, <2>3, <2>7, <3>2 DEF AndFrom, Parsed
    <3>4. b.pos > a.pos + 1 /\ b.value \in M[<<a.pos + 1, b.pos - 1>>].and
      <4>1. a.pos + 1 > p
        BY <1>0, <1>4, <2>4
      <4>2. Found(P, M, a.pos + 1)
        BY <1>10, <3>1, <4>1
      <4> QED BY <3>2, <3>3, <4>2 DEF Found
    <3>5. b.pos \in (a.pos + 1)..(n + 1)
      <4>1. b \in Result(tokens, a.pos + 1)
        BY <1>2, <1>4, <3>1, <3>2
      <4> QED BY <1>5, <3>1, <4>1
    <3>6. b.pos - 1 \in 1..n /\ p < a.pos /\ a.pos < b.pos - 1 /\ b.pos > p
      <4>1. /\ p \in Int /\ a.pos \in 1..n /\ a.pos > p
            /\ b.pos > a.pos + 1 /\ b.pos \in (a.pos + 1)..(n + 1)
        BY <2>4, <2>5, <3>1, <3>4, <3>5
      <4> QED BY <1>0, <4>1
    <3>7. Both(a.value, b.value) \in M[<<p, b.pos - 1>>].and
      BY <2>4, <2>5, <3>1, <3>4, <3>6, AndJoined DEF n
    <3> QED BY <3>3, <3>6, <3>7 DEF Parsed
  <2> QED BY <2>6, <2>7
<1>9. ASSUME P[p].or.ok
      PROVE  P[p].or.pos > p /\ P[p].or.value \in M[<<p, P[p].or.pos - 1>>].or
  <2>1. PICK a : a = P[p].and
    OBVIOUS
  <2>2. P[p].or = OrFrom(tokens, P, a)
    BY <1>1, <2>1
  <2>3. a.ok
    BY <1>9, <2>2 DEF OrFrom
  <2>4. a.pos > p /\ a.value \in M[<<p, a.pos - 1>>].and /\ a.pos \in p..(n + 1)
    BY <1>2, <1>4, <1>5, <1>8, <2>1, <2>3
  <2>5. p \in 1..n /\ a.pos - 1 \in 1..n
    BY <1>0, <1>4, <2>4
  <2>6. CASE ~At(tokens, a.pos, "or")
    <3>1. P[p].or = a
      BY <2>2, <2>6 DEF OrFrom
    <3> QED BY <1>3, <2>4, <2>5, <3>1
  <2>7. CASE At(tokens, a.pos, "or")
    <3>1. a.pos \in 1..n /\ a.pos \in Places(tokens, "or") /\ a.pos + 1 \in 1..(n + 1)
      BY <1>0, <1>4, <1>6, <2>4, <2>7 DEF Places, n
    <3>2. PICK b : b = P[a.pos + 1].or
      OBVIOUS
    <3>3. b.ok /\ P[p].or = Parsed(Either(a.value, b.value), b.pos)
      BY <1>9, <2>2, <2>3, <2>7, <3>2 DEF OrFrom, Parsed
    <3>4. b.pos > a.pos + 1 /\ b.value \in M[<<a.pos + 1, b.pos - 1>>].or
      <4>1. a.pos + 1 > p
        BY <1>0, <1>4, <2>4
      <4>2. Found(P, M, a.pos + 1)
        BY <1>10, <3>1, <4>1
      <4> QED BY <3>2, <3>3, <4>2 DEF Found
    <3>5. b.pos \in (a.pos + 1)..(n + 1)
      <4>1. b \in Result(tokens, a.pos + 1)
        BY <1>2, <1>4, <3>1, <3>2
      <4> QED BY <1>5, <3>1, <4>1
    <3>6. b.pos - 1 \in 1..n /\ p < a.pos /\ a.pos < b.pos - 1 /\ b.pos > p
      <4>1. /\ p \in Int /\ a.pos \in 1..n /\ a.pos > p
            /\ b.pos > a.pos + 1 /\ b.pos \in (a.pos + 1)..(n + 1)
        BY <2>4, <2>5, <3>1, <3>4, <3>5
      <4> QED BY <1>0, <4>1
    <3>7. Either(a.value, b.value) \in M[<<p, b.pos - 1>>].or
      BY <2>4, <2>5, <3>1, <3>4, <3>6, OrJoined DEF n
    <3> QED BY <3>3, <3>6, <3>7 DEF Parsed
  <2> QED BY <2>6, <2>7
<1> QED BY <1>7, <1>8, <1>9 DEF Found

LEMMA AllFindingsAreMeant ==
    ASSUME NEW tokens, NEW leaf, NEW P, NEW M, Reading(tokens, leaf, P, M)
    PROVE  \A p \in Positions(tokens) : Found(P, M, p)
<1> DEFINE T == {w \in Nat : \A p \in Positions(tokens) : Len(tokens) + 1 - p = w => Found(P, M, p)}
<1>0. Len(tokens) \in Nat /\ Positions(tokens) = 1..(Len(tokens) + 1)
  BY DEF Reading, Readable, Positions
<1>1. ASSUME NEW w \in Nat, \A x \in Nat : x < w => x \in T PROVE w \in T
  <2> SUFFICES ASSUME NEW p \in Positions(tokens), Len(tokens) + 1 - p = w PROVE Found(P, M, p)
    OBVIOUS
  <2>1. ASSUME NEW q \in Positions(tokens), q > p PROVE Found(P, M, q)
    <3>1. Len(tokens) + 1 - q \in Nat /\ Len(tokens) + 1 - q < w
      BY <1>0, <2>1
    <3> QED BY <1>1, <3>1
  <2> QED BY <2>1, FindingIsMeant
<1>2. Nat \subseteq T
  <2> HIDE DEF T
  <2> QED BY <1>1, CountingAll
<1>3. \A p \in Positions(tokens) : Len(tokens) + 1 - p \in Nat
  BY <1>0
<1> QED BY <1>2, <1>3

LEMMA ParserReadsTheGrammar ==
    ASSUME NEW tokens, NEW leaf, Readable(tokens, leaf), tokens = <<>> <=> Len(tokens) = 0
    PROVE  /\ Outcome(tokens, leaf).ok <=> Meaning(tokens, leaf) # {}
           /\ Outcome(tokens, leaf).ok => Meaning(tokens, leaf) = {Outcome(tokens, leaf).value}
           /\ Outcome(tokens, leaf) \in [ok : BOOLEAN, value : BOOLEAN]
<1> DEFINE P == Parser(tokens, leaf)
           M == Grammar(tokens, leaf)
           n == Len(tokens)
<1>0. n \in Nat /\ 1 \in Positions(tokens)
  BY DEF Readable, Positions
<1>1. Reading(tokens, leaf, P, M)
  BY ParserSteps, GrammarSteps DEF Reading
<1> DEFINE end == P[1].or
<1>2. Outcome(tokens, leaf) = IF end.ok /\ end.pos = n + 1 THEN Value(end.value) ELSE Error
  BY DEF Outcome
<1>3. Meaning(tokens, leaf) = IF n = 0 THEN {} ELSE M[<<1, n>>].or
  BY DEF Meaning
<1>4. end \in Result(tokens, 1)
  BY <1>0, <1>1, ParsesTyped DEF Reading
<1>5. Found(P, M, 1)
  BY <1>0, <1>1, AllFindingsAreMeant
<1>6. ASSUME n # 0 PROVE Reads(tokens, P, M, 1, n)
  BY <1>0, <1>1, <1>6, AllMeaningsAreRead
<1>7. ~At(tokens, n + 1, "and") /\ ~At(tokens, n + 1, "or")
  BY <1>0 DEF At
<1> HIDE DEF P, M, n
<1>8. ASSUME end.ok, end.pos = n + 1
      PROVE  n # 0 /\ end.value \in M[<<1, n>>].or
  BY <1>0, <1>5, <1>8 DEF Found
<1>9. ASSUME NEW v \in Meaning(tokens, leaf)
      PROVE  end = Parsed(v, n + 1)
  BY <1>3, <1>6, <1>7, <1>9 DEF Reads
<1>10. ASSUME NEW v \in Meaning(tokens, leaf)
       PROVE  end.ok /\ end.pos = n + 1 /\ end.value = v
  BY <1>9, ParsedParts
<1>11. Outcome(tokens, leaf).ok <=> end.ok /\ end.pos = n + 1
  BY <1>2, <1>4 DEF Value, Error, Result
<1>12. Outcome(tokens, leaf).ok => Outcome(tokens, leaf).value = end.value
  BY <1>2, <1>11 DEF Value
<1>13. Outcome(tokens, leaf) \in [ok : BOOLEAN, value : BOOLEAN]
  BY <1>2, <1>4 DEF Value, Error, Result
<1>14. Outcome(tokens, leaf).ok => Outcome(tokens, leaf).value \in Meaning(tokens, leaf)
  BY <1>3, <1>8, <1>11, <1>12
<1>15. \A v \in Meaning(tokens, leaf) : Outcome(tokens, leaf).ok /\ v = Outcome(tokens, leaf).value
  BY <1>10, <1>11, <1>12
<1> HIDE DEF end
<1> QED BY <1>13, <1>14, <1>15

\* What one reading of the leaves accepts, another accepts.
Accepts(P, Q, p) ==
    /\ P[p].unary.ok => Q[p].unary.ok /\ Q[p].unary.pos = P[p].unary.pos
    /\ P[p].and.ok => Q[p].and.ok /\ Q[p].and.pos = P[p].and.pos
    /\ P[p].or.ok => Q[p].or.ok /\ Q[p].or.pos = P[p].or.pos

LEMMA AcceptedByBoth ==
    ASSUME NEW tokens, NEW one, NEW other, NEW P, NEW Q, NEW M, NEW N,
           Reading(tokens, one, P, M), Reading(tokens, other, Q, N),
           \A i \in 1..Len(tokens) :
                tokens[i].kind = "leaf" /\ one[tokens[i]].ok => other[tokens[i]].ok,
           NEW p \in Positions(tokens), \A q \in Positions(tokens) : q > p => Accepts(P, Q, q)
    PROVE  Accepts(P, Q, p)
<1> DEFINE n == Len(tokens)
<1>0. n \in Nat /\ Positions(tokens) = 1..(n + 1) /\ p \in 1..(n + 1)
  BY DEF Reading, Readable, Positions
<1>1. /\ P[p].unary = Unary(tokens, one, P, p)
      /\ P[p].and = AndFrom(tokens, P, P[p].unary)
      /\ P[p].or = OrFrom(tokens, P, P[p].and)
  BY ParserAt
<1>2. /\ Q[p].unary = Unary(tokens, other, Q, p)
      /\ Q[p].and = AndFrom(tokens, Q, Q[p].unary)
      /\ Q[p].or = OrFrom(tokens, Q, Q[p].and)
  BY ParserAt
<1>3. P[p].or \in Result(tokens, p) /\ P[p].and \in Result(tokens, p) /\ P[p].unary \in Result(tokens, p)
  BY ParsesTyped DEF Reading, Readable
<1>4. \A q \in 1..(n + 1) : q > p => Accepts(P, Q, q)
  BY <1>0
<1>5. \A q, k : At(tokens, q, k) => q <= n /\ tokens[q].kind = k
  BY DEF At
<1>6. \A r \in Result(tokens, p) : r.pos \in p..(n + 1)
  BY DEF Result
<1>7. \A i \in 1..n : tokens[i].kind = "leaf" /\ one[tokens[i]].ok => other[tokens[i]].ok
  OBVIOUS
<1> HIDE DEF n
<1>8. ASSUME NEW k, At(tokens, p, k) PROVE p \in 1..n /\ Accepts(P, Q, p + 1)
  <2>1. p <= n
    BY <1>5, <1>8
  <2> QED BY <1>0, <1>4, <2>1
<1>9. ASSUME P[p].unary.ok PROVE Q[p].unary.ok /\ Q[p].unary.pos = P[p].unary.pos
  <2>1. CASE At(tokens, p, "not")
    <3>1. PICK a : a = P[p + 1].unary
      OBVIOUS
    <3>2. PICK b : b = Q[p + 1].unary
      OBVIOUS
    <3>3. a.ok /\ P[p].unary = Parsed(Opposite(a.value), a.pos)
      BY <1>1, <1>9, <2>1, <3>1 DEF Unary
    <3>4. b.ok /\ b.pos = a.pos
      BY <1>8, <2>1, <3>1, <3>2, <3>3 DEF Accepts
    <3>5. Q[p].unary = Parsed(Opposite(b.value), b.pos)
      BY <1>2, <2>1, <3>2, <3>4 DEF Unary
    <3> QED BY <3>3, <3>4, <3>5, ParsedParts
  <2>2. CASE At(tokens, p, "open") /\ ~At(tokens, p, "not")
    <3>1. PICK a : a = P[p + 1].or
      OBVIOUS
    <3>2. PICK b : b = Q[p + 1].or
      OBVIOUS
    <3>3. a.ok /\ At(tokens, a.pos, "close") /\ P[p].unary = Parsed(a.value, a.pos + 1)
      BY <1>1, <1>9, <2>2, <3>1 DEF Unary, Primary, Fail
    <3>4. b.ok /\ b.pos = a.pos
      BY <1>8, <2>2, <3>1, <3>2, <3>3 DEF Accepts
    <3>5. Q[p].unary = Parsed(b.value, b.pos + 1)
      BY <1>2, <2>2, <3>2, <3>3, <3>4 DEF Unary, Primary
    <3> QED BY <3>3, <3>4, <3>5, ParsedParts
  <2>3. CASE ~At(tokens, p, "open") /\ ~At(tokens, p, "not")
    <3>1. At(tokens, p, "leaf") /\ one[tokens[p]].ok
          /\ P[p].unary = Parsed(one[tokens[p]].value, p + 1)
      BY <1>1, <1>9, <2>3 DEF Unary, Primary, Fail
    <3>2. other[tokens[p]].ok
      BY <1>5, <1>7, <1>8, <3>1
    <3>3. Q[p].unary = Parsed(other[tokens[p]].value, p + 1)
      BY <1>2, <2>3, <3>1, <3>2 DEF Unary, Primary
    <3> QED BY <3>1, <3>3, ParsedParts
  <2> QED BY <2>1, <2>2, <2>3
<1>10. ASSUME P[p].and.ok PROVE Q[p].and.ok /\ Q[p].and.pos = P[p].and.pos
  <2>1. PICK a : a = P[p].unary
    OBVIOUS
  <2>2. PICK b : b = Q[p].unary
    OBVIOUS
  <2>3. a.ok /\ P[p].and = AndFrom(tokens, P, a) /\ Q[p].and = AndFrom(tokens, Q, b)
    BY <1>1, <1>2, <1>10, <2>1, <2>2 DEF AndFrom
  <2>4. b.ok /\ b.pos = a.pos /\ a.pos \in p..(n + 1)
    BY <1>3, <1>6, <1>9, <2>1, <2>2, <2>3
  <2>5. CASE ~At(tokens, a.pos, "and")
    BY <2>3, <2>4, <2>5 DEF AndFrom
  <2>6. CASE At(tokens, a.pos, "and")
    <3>1. a.pos + 1 \in 1..(n + 1) /\ a.pos + 1 > p
      BY <1>0, <1>5, <2>4, <2>6
    <3>2. Accepts(P, Q, a.pos + 1)
      BY <1>4, <3>1
    <3>3. PICK c : c = P[a.pos + 1].and
      OBVIOUS
    <3>4. PICK d : d = Q[a.pos + 1].and
      OBVIOUS
    <3>5. c.ok /\ P[p].and = Parsed(Both(a.value, c.value), c.pos)
      BY <1>10, <2>3, <2>6, <3>3 DEF AndFrom
    <3>6. d.ok /\ d.pos = c.pos
      BY <3>2, <3>3, <3>4, <3>5 DEF Accepts
    <3>7. Q[p].and = Parsed(Both(b.value, d.value), d.pos)
      BY <2>3, <2>4, <2>6, <3>4, <3>6 DEF AndFrom
    <3> QED BY <3>5, <3>6, <3>7, ParsedParts
  <2> QED BY <2>5, <2>6
<1>11. ASSUME P[p].or.ok PROVE Q[p].or.ok /\ Q[p].or.pos = P[p].or.pos
  <2>1. PICK a : a = P[p].and
    OBVIOUS
  <2>2. PICK b : b = Q[p].and
    OBVIOUS
  <2>3. a.ok /\ P[p].or = OrFrom(tokens, P, a) /\ Q[p].or = OrFrom(tokens, Q, b)
    BY <1>1, <1>2, <1>11, <2>1, <2>2 DEF OrFrom
  <2>4. b.ok /\ b.pos = a.pos /\ a.pos \in p..(n + 1)
    BY <1>3, <1>6, <1>10, <2>1, <2>2, <2>3
  <2>5. CASE ~At(tokens, a.pos, "or")
    BY <2>3, <2>4, <2>5 DEF OrFrom
  <2>6. CASE At(tokens, a.pos, "or")
    <3>1. a.pos + 1 \in 1..(n + 1) /\ a.pos + 1 > p
      BY <1>0, <1>5, <2>4, <2>6
    <3>2. Accepts(P, Q, a.pos + 1)
      BY <1>4, <3>1
    <3>3. PICK c : c = P[a.pos + 1].or
      OBVIOUS
    <3>4. PICK d : d = Q[a.pos + 1].or
      OBVIOUS
    <3>5. c.ok /\ P[p].or = Parsed(Either(a.value, c.value), c.pos)
      BY <1>11, <2>3, <2>6, <3>3 DEF OrFrom
    <3>6. d.ok /\ d.pos = c.pos
      BY <3>2, <3>3, <3>4, <3>5 DEF Accepts
    <3>7. Q[p].or = Parsed(Either(b.value, d.value), d.pos)
      BY <2>3, <2>4, <2>6, <3>4, <3>6 DEF OrFrom
    <3> QED BY <3>5, <3>6, <3>7, ParsedParts
  <2> QED BY <2>5, <2>6
<1> QED BY <1>9, <1>10, <1>11 DEF Accepts

LEMMA AcceptedAgain ==
    ASSUME NEW tokens, NEW one, NEW other, Readable(tokens, one), Readable(tokens, other),
           \A i \in 1..Len(tokens) :
                tokens[i].kind = "leaf" /\ one[tokens[i]].ok => other[tokens[i]].ok,
           Outcome(tokens, one).ok
    PROVE  Outcome(tokens, other).ok
<1> DEFINE P == Parser(tokens, one)
           Q == Parser(tokens, other)
           M == Grammar(tokens, one)
           N == Grammar(tokens, other)
           T == {w \in Nat : \A p \in Positions(tokens) : Len(tokens) + 1 - p = w => Accepts(P, Q, p)}
<1>0. Len(tokens) \in Nat /\ Positions(tokens) = 1..(Len(tokens) + 1)
  BY DEF Readable, Positions
<1>1. Reading(tokens, one, P, M) /\ Reading(tokens, other, Q, N)
  BY ParserSteps, GrammarSteps DEF Reading
<1> HIDE DEF P, Q, M, N
<1>2. ASSUME NEW w \in Nat, \A x \in Nat : x < w => x \in T PROVE w \in T
  <2> SUFFICES ASSUME NEW p \in Positions(tokens), Len(tokens) + 1 - p = w PROVE Accepts(P, Q, p)
    OBVIOUS
  <2>1. ASSUME NEW q \in Positions(tokens), q > p PROVE Accepts(P, Q, q)
    <3>1. Len(tokens) + 1 - q \in Nat /\ Len(tokens) + 1 - q < w
      BY <1>0, <2>1
    <3> QED BY <1>2, <3>1
  <2> QED BY <1>1, <2>1, AcceptedByBoth
<1>3. Nat \subseteq T
  <2> HIDE DEF T
  <2> QED BY <1>2, CountingAll
<1>4. Accepts(P, Q, 1)
  BY <1>0, <1>3
<1>5. Q[1].or \in Result(tokens, 1) /\ P[1].or \in Result(tokens, 1)
  BY <1>0, <1>1, ParsesTyped DEF Reading
<1>6. P[1].or.ok /\ P[1].or.pos = Len(tokens) + 1
  BY <1>5 DEF Outcome, Error, Value, Result, P
<1>7. Q[1].or.ok /\ Q[1].or.pos = Len(tokens) + 1
  BY <1>4, <1>6 DEF Accepts
<1> QED BY <1>7 DEF Outcome, Value, Q
-----------------------------------------------------------------------------
(* Tokens.                                                                 *)

FlattenStep(seqs, g) ==
    [i \in 1..Len(seqs) |-> IF i = 1 THEN seqs[i] ELSE g[i - 1] \o seqs[i]]

LEMMA Flattened ==
    ASSUME NEW T, NEW seqs \in Seq(Seq(T))
    PROVE  FlattenSeq(seqs) \in Seq(T)
<1> DEFINE n == Len(seqs)
           S == 1..n
           H == [S -> Seq(T)]
           F == [g \in H |-> FlattenStep(seqs, g)]
           rank == [i \in S |-> i]
           f == CHOOSE g : g = FlattenStep(seqs, g)
<1>0. n \in Nat /\ \A i \in S : seqs[i] \in Seq(T)
  OBVIOUS
<1>1. CASE n = 0
  <2>1. seqs = <<>> /\ <<>> \in Seq(T)
    BY <1>1
  <2> QED BY <1>1, <2>1 DEF FlattenSeq
<1>2. CASE n # 0
  <2>1. ASSUME NEW g \in H PROVE FlattenStep(seqs, g) \in H
    <3>1. ASSUME NEW i \in S PROVE FlattenStep(seqs, g)[i] \in Seq(T)
      <4>1. CASE i = 1
        BY <4>1, <1>0 DEF FlattenStep
      <4>2. CASE i # 1
        <5>1. i - 1 \in S
          BY <1>0, <4>2
        <5>2. g[i - 1] \in Seq(T) /\ seqs[i] \in Seq(T)
          BY <1>0, <5>1
        <5>3. FlattenStep(seqs, g)[i] = g[i - 1] \o seqs[i]
          BY <4>2 DEF FlattenStep
        <5> QED BY <5>2, <5>3
      <4> QED BY <4>1, <4>2
    <3> QED BY <3>1 DEF FlattenStep
  <2>2. \A g, h : \A i \in S : (\A k \in S : rank[k] < rank[i] => g[k] = h[k])
            => FlattenStep(seqs, g)[i] = FlattenStep(seqs, h)[i]
    <3> SUFFICES ASSUME NEW g, NEW h, NEW i \in S, \A k \in S : rank[k] < rank[i] => g[k] = h[k]
                 PROVE  FlattenStep(seqs, g)[i] = FlattenStep(seqs, h)[i]
      BY Zenon
    <3>1. i # 1 => i - 1 \in S /\ rank[i - 1] < rank[i]
      BY <1>0
    <3>2. i # 1 => g[i - 1] = h[i - 1]
      BY <3>1
    <3> QED BY <3>2 DEF FlattenStep
  <2>3. rank \in [S -> Nat] /\ \A i \in S : rank[i] < n + 1
    BY <1>0
  <2>4. \E g \in H : g = F[g]
    <3>1. H # {}
      <4>1. <<>> \in Seq(T)
        OBVIOUS
      <4>2. [i \in S |-> <<>>] \in H
        BY <4>1
      <4> QED BY <4>2
    <3>2. F \in [H -> H]
      BY <2>1
    <3>3. \A g, h \in H : \A i \in S : (\A k \in S : rank[k] < rank[i] => g[k] = h[k]) => F[g][i] = F[h][i]
      <4> SUFFICES ASSUME NEW g \in H, NEW h \in H, NEW i \in S,
                          \A k \in S : rank[k] < rank[i] => g[k] = h[k]
                   PROVE  F[g][i] = F[h][i]
        OBVIOUS
      <4>1. F[g] = FlattenStep(seqs, g) /\ F[h] = FlattenStep(seqs, h)
        OBVIOUS
      <4>2. FlattenStep(seqs, g)[i] = FlattenStep(seqs, h)[i]
        BY <2>2
      <4> QED BY <4>1, <4>2
    <3>4. \A h \in H : h = [i \in S |-> h[i]]
      OBVIOUS
    <3> HIDE DEF S, H, F, rank
    <3>5. Grounded(S, H, F, rank, n + 1)
      BY <1>0, <2>3, <3>1, <3>2, <3>3, <3>4 DEF Grounded
    <3> QED BY <3>5, Recursion
  <2>5. PICK g \in H : g = FlattenStep(seqs, g)
    BY <2>4
  <2>6. f = FlattenStep(seqs, f)
    BY <2>5
  <2>7. f = g
    <3> HIDE DEF f, rank
    <3>1. f = [i \in S |-> f[i]] /\ g = [i \in S |-> g[i]]
      BY <2>5, <2>6 DEF FlattenStep
    <3>2. \A i \in S : (\A k \in S : rank[k] < rank[i] => f[k] = g[k]) => f[i] = g[i]
      <4> SUFFICES ASSUME NEW i \in S, \A k \in S : rank[k] < rank[i] => f[k] = g[k]
                   PROVE  f[i] = g[i]
        OBVIOUS
      <4>1. FlattenStep(seqs, f)[i] = FlattenStep(seqs, g)[i]
        BY <2>2
      <4> QED BY <2>5, <2>6, <4>1
    <3> HIDE DEF S
    <3>3. Agreeing(S, rank, f, g)
      BY <2>3, <3>1, <3>2 DEF Agreeing
    <3> QED BY <3>3, SameFunction
  <2>8. FlattenSeq(seqs) = f[n]
    BY <1>2 DEF FlattenSeq, FlattenStep
  <2>9. n \in S
    BY <1>0, <1>2
  <2> HIDE DEF f
  <2> QED BY <2>5, <2>7, <2>8, <2>9
<1> QED BY <1>1, <1>2

TokenSet == {And, Or, Not, Open, Close} \cup [kind : {"leaf"}, nots : Nat, leaf : Leaf]

LEMMA TokensTyped ==
    ASSUME NEW raw \in Seq(RawWords)
    PROVE  Tokens(raw) \in Seq(TokenSet)
<1>1. ASSUME NEW w \in RawWords PROVE TokensOf(w) \in Seq(TokenSet)
  <2>1. w \in TokenSet
    BY DEF RawWords, TokenSet
  <2>2. CASE w.kind # "leaf" \/ w.nots = 0
    <3>1. TokensOf(w) = <<w>>
      BY <2>2 DEF TokensOf
    <3> QED BY <2>1, <3>1
  <2>3. CASE ~(w.kind # "leaf" \/ w.nots = 0)
    <3>1. w \in [kind : {"leaf"}, nots : Nat, leaf : Leaf]
      BY <2>3 DEF RawWords, And, Or, Open, Close, Structure
    <3>2. [w EXCEPT !.nots = @ - 1] \in [kind : {"leaf"}, nots : Nat, leaf : Leaf]
      BY <2>3, <3>1
    <3>3. Not \in TokenSet /\ [w EXCEPT !.nots = @ - 1] \in TokenSet
      BY <3>2 DEF TokenSet
    <3>4. TokensOf(w) \in {<<Not>>, <<Not, [w EXCEPT !.nots = @ - 1]>>}
      BY <2>3 DEF TokensOf
    <3>5. <<Not>> \in Seq(TokenSet) /\ <<Not, [w EXCEPT !.nots = @ - 1]>> \in Seq(TokenSet)
      BY <3>3
    <3> QED BY <3>4, <3>5
  <2> QED BY <2>2, <2>3
<1> DEFINE parts == [i \in DOMAIN raw |-> TokensOf(raw[i])]
<1>2. parts \in Seq(Seq(TokenSet))
  <2>1. DOMAIN raw = 1..Len(raw) /\ Len(raw) \in Nat /\ \A i \in 1..Len(raw) : raw[i] \in RawWords
    OBVIOUS
  <2>2. parts \in [1..Len(raw) -> Seq(TokenSet)]
    BY <1>1, <2>1
  <2> QED BY <2>1, <2>2
<1> HIDE DEF parts
<1>3. FlattenSeq(parts) \in Seq(TokenSet)
  BY <1>2, Flattened
<1> QED BY <1>3 DEF Tokens, parts

Outcomes == [ok : BOOLEAN, value : BOOLEAN]

LEMMA LeavesAreRead ==
    ASSUME NEW t, t.leaf \in Leaf, NEW fs, NEW lists
    PROVE  /\ EvalLeaf(t, fs, lists) \in Outcomes
           /\ ValidLeaf(t) \in Outcomes
           /\ ValidLeaf(t).ok /\ (t.leaf.op = "list" => t.leaf.val.words \subseteq DOMAIN lists)
                => EvalLeaf(t, fs, lists).ok
<1>1. PICK l \in Leaf : l = t.leaf
  OBVIOUS
<1>2. \/ l.op = "none"
      \/ l.op = "constant" /\ l.value \in BOOLEAN
      \/ l.op \in {"eq", "ne", "has", "ge", "lt"}
      \/ l.op = "list" /\ l.val.words # {}
  BY DEF Leaf, NoLeaf, Comparisons
<1> DEFINE known == t.nots = 0 /\ l.key \in DOMAIN fs
           fact == fs[l.key]
           value == CASE l.op = "constant" -> l.value
          [] l.op = "ne" -> ~known \/ fact # l.val
          [] l.op = "eq" -> known /\ fact = l.val
          [] l.op = "has" -> known /\ l.val.words \subseteq fact.words
          [] l.op = "list" ->
                known /\ \E w \in l.val.words : fact.words \cap lists[w] # {}
          [] l.op = "ge" -> known /\ fact.words = {} /\ fact.num >= l.val.num
          [] l.op = "lt" -> known /\ fact.words = {} /\ fact.num < l.val.num
           fails == \/ l.op = "none"
                    \/ l.op = "constant" /\ t.nots > 0
                    \/ l.op \in Numeric /\ l.val.words # {}
<1>3. l.op # "none" => value \in BOOLEAN
  BY <1>2
<1>4. EvalLeaf(t, fs, lists) =
        IF fails \/ (l.op = "list" /\ l.val.words \cap DOMAIN lists = {}) THEN Error ELSE Value(value)
  BY <1>1 DEF EvalLeaf
<1>5. ValidLeaf(t) = IF fails THEN Error ELSE Value(FALSE)
  BY <1>1 DEF ValidLeaf
<1>6. l.op = "list" /\ l.val.words \subseteq DOMAIN lists => l.val.words \cap DOMAIN lists # {}
  BY <1>2
<1> HIDE DEF value
<1> QED BY <1>1, <1>3, <1>4, <1>5, <1>6 DEF Error, Value, Outcomes

LEMMA TokensAreReadable ==
    ASSUME NEW raw \in Seq(RawWords), NEW fs, NEW lists
    PROVE  LET tokens == Tokens(raw)
               one == [t \in Leaves(tokens) |-> ValidLeaf(t)]
               other == [t \in Leaves(tokens) |-> EvalLeaf(t, fs, lists)]
           IN /\ Readable(tokens, one) /\ Readable(tokens, other)
              /\ tokens = <<>> <=> Len(tokens) = 0
              /\ (\A t \in Leaves(tokens) :
                    t.leaf.op = "list" => t.leaf.val.words \subseteq DOMAIN lists)
                 => \A i \in 1..Len(tokens) :
                        tokens[i].kind = "leaf" /\ one[tokens[i]].ok => other[tokens[i]].ok
<1>1. PICK tokens \in Seq(TokenSet) : tokens = Tokens(raw)
  BY TokensTyped
<1> DEFINE one == [t \in Leaves(tokens) |-> ValidLeaf(t)]
           other == [t \in Leaves(tokens) |-> EvalLeaf(t, fs, lists)]
<1>2. /\ Len(tokens) \in Nat /\ DOMAIN tokens = 1..Len(tokens)
      /\ \A i \in 1..Len(tokens) : tokens[i] \in TokenSet
      /\ tokens = <<>> <=> Len(tokens) = 0
  OBVIOUS
<1>3. \A t \in TokenSet : t.kind = "leaf" => t.leaf \in Leaf
  BY DEF TokenSet, And, Or, Not, Open, Close, Structure
<1>4. \A i \in 1..Len(tokens) : tokens[i].kind = "leaf" => tokens[i] \in Leaves(tokens) /\ tokens[i].leaf \in Leaf
  BY <1>2, <1>3 DEF Leaves, Range
<1>5. \A i \in 1..Len(tokens) : tokens[i].kind = "leaf" =>
        /\ one[tokens[i]] = ValidLeaf(tokens[i])
        /\ other[tokens[i]] = EvalLeaf(tokens[i], fs, lists)
  BY <1>4
<1> HIDE DEF one, other
<1>6. Readable(tokens, one)
  BY <1>2, <1>4, <1>5, LeavesAreRead DEF Readable, Outcomes
<1>7. Readable(tokens, other)
  BY <1>2, <1>4, <1>5, LeavesAreRead DEF Readable, Outcomes
<1>8. ASSUME \A t \in Leaves(tokens) : t.leaf.op = "list" => t.leaf.val.words \subseteq DOMAIN lists,
             NEW i \in 1..Len(tokens), tokens[i].kind = "leaf", one[tokens[i]].ok
      PROVE  other[tokens[i]].ok
  BY <1>4, <1>5, <1>8, LeavesAreRead
<1>9. /\ Readable(tokens, one) /\ Readable(tokens, other)
      /\ tokens = <<>> <=> Len(tokens) = 0
      /\ (\A t \in Leaves(tokens) :
            t.leaf.op = "list" => t.leaf.val.words \subseteq DOMAIN lists)
         => \A i \in 1..Len(tokens) :
                tokens[i].kind = "leaf" /\ one[tokens[i]].ok => other[tokens[i]].ok
  BY <1>2, <1>6, <1>7, <1>8
<1> QED BY <1>1, <1>9 DEF one, other

\* Of every line, whatever the facts and lists are: evaluating it gives a value
\* if and only if the guide's grammar gives it one, the same and no other; and a
\* line that was accepted when it was loaded has a value unless a list is not
\* defined (condition.go: the parser evaluates and validates alike).
THEOREM ConditionsAreRead ==
    ASSUME NEW raw \in Seq(RawWords), raw # <<>>, NEW fs, NEW lists
    PROVE  /\ Eval(raw, fs, lists).ok <=> Means(raw, fs, lists) # {}
           /\ Eval(raw, fs, lists).ok => Means(raw, fs, lists) = {Eval(raw, fs, lists).value}
           /\ Eval(raw, fs, lists) \in Outcomes
           /\ Valid(raw) /\ (\A t \in Leaves(Tokens(raw)) :
                                t.leaf.op = "list" => t.leaf.val.words \subseteq DOMAIN lists)
              => Eval(raw, fs, lists).ok
<1> DEFINE tokens == Tokens(raw)
           one == [t \in Leaves(tokens) |-> ValidLeaf(t)]
           other == [t \in Leaves(tokens) |-> EvalLeaf(t, fs, lists)]
           known == \A t \in Leaves(tokens) :
                        t.leaf.op = "list" => t.leaf.val.words \subseteq DOMAIN lists
<1>1. Eval(raw, fs, lists) = Outcome(tokens, other) /\ Means(raw, fs, lists) = Meaning(tokens, other)
  BY DEF Eval, Means
<1>2. Valid(raw) <=> Outcome(tokens, one).ok
  BY DEF Valid
<1>3. /\ Readable(tokens, one) /\ Readable(tokens, other)
      /\ tokens = <<>> <=> Len(tokens) = 0
      /\ known => \A i \in 1..Len(tokens) :
            tokens[i].kind = "leaf" /\ one[tokens[i]].ok => other[tokens[i]].ok
  BY TokensAreReadable
<1> HIDE DEF tokens, one, other, known
<1>4. /\ Outcome(tokens, other).ok <=> Meaning(tokens, other) # {}
      /\ Outcome(tokens, other).ok => Meaning(tokens, other) = {Outcome(tokens, other).value}
      /\ Outcome(tokens, other) \in Outcomes
  BY <1>3, ParserReadsTheGrammar DEF Outcomes
<1>5. known /\ Outcome(tokens, one).ok => Outcome(tokens, other).ok
  BY <1>3, AcceptedAgain
<1> QED BY <1>1, <1>2, <1>4, <1>5 DEF known, tokens
-----------------------------------------------------------------------------
(* Sets in order.                                                          *)

TotalOrder(S, R) ==
    /\ IsFiniteSet(S)
    /\ \A i \in S : <<i, i>> \notin R
    /\ \A i, j, k \in S : <<i, j>> \in R /\ <<j, k>> \in R => <<i, k>> \in R
    /\ \A i, j \in S : i # j => <<i, j>> \in R \/ <<j, i>> \in R

\* o enumerates S in the order R.
Enumerates(o, S, R) ==
    /\ Cardinality(S) \in Nat
    /\ o = [k \in 1..Cardinality(S) |-> o[k]]
    /\ \A k \in 1..Cardinality(S) : o[k] \in S
    /\ \A i \in S : \E k \in 1..Cardinality(S) : o[k] = i
    /\ \A k \in 1..Cardinality(S) : \A l \in 1..Cardinality(S) : k < l => <<o[k], o[l]>> \in R

LEMMA InOrderEnumerates ==
    ASSUME NEW S, NEW R, TotalOrder(S, R)
    PROVE  Enumerates(InOrder(S, R), S, R)
<1> DEFINE n == Cardinality(S)
           Below(i) == {j \in S : <<j, i>> \in R}
           rank == [i \in S |-> Cardinality(Below(i)) + 1]
           o == InOrder(S, R)
<1>0. IsFiniteSet(S) /\ n \in Nat
  BY FS_CardinalityType DEF TotalOrder
<1>1. ASSUME NEW i \in S
      PROVE  /\ IsFiniteSet(Below(i)) /\ Cardinality(Below(i)) \in Nat
             /\ Cardinality(Below(i)) < n
  <2>1. Below(i) \in SUBSET S /\ Below(i) # S
    BY DEF TotalOrder
  <2> HIDE DEF Below
  <2>2. IsFiniteSet(Below(i)) /\ Cardinality(Below(i)) <= n /\ n # Cardinality(Below(i))
    BY <1>0, <2>1, FS_Subset
  <2> QED BY <1>0, <2>2, FS_CardinalityType
<1>2. ASSUME NEW i \in S, NEW j \in S, <<i, j>> \in R
      PROVE  Cardinality(Below(i)) < Cardinality(Below(j))
  <2>1. Below(i) \in SUBSET Below(j) /\ i \in Below(j) /\ i \notin Below(i)
    BY <1>2 DEF TotalOrder
  <2> HIDE DEF Below
  <2>2. Cardinality(Below(i)) <= Cardinality(Below(j)) /\ Cardinality(Below(j)) # Cardinality(Below(i))
    BY <1>1, <2>1, FS_Subset
  <2> QED BY <1>1, <2>2
<1>3. rank \in [S -> 1..n] /\ \A i \in S : rank[i] = Cardinality(Below(i)) + 1
  <2> HIDE DEF Below
  <2> QED BY <1>0, <1>1
<1>4. \A i, j \in S : <<i, j>> \in R => rank[i] < rank[j]
  <2> HIDE DEF Below
  <2> QED BY <1>1, <1>2, <1>3
<1> HIDE DEF rank
<1>5. \A i, j \in S : rank[i] = rank[j] => i = j
  <2> SUFFICES ASSUME NEW i \in S, NEW j \in S, i # j PROVE rank[i] # rank[j]
    OBVIOUS
  <2>1. rank[i] \in Int /\ rank[j] \in Int
    BY <1>3
  <2>2. <<i, j>> \in R \/ <<j, i>> \in R
    BY DEF TotalOrder
  <2>3. rank[i] < rank[j] \/ rank[j] < rank[i]
    BY <1>4, <2>2
  <2> QED BY <2>1, <2>3
<1>6. \A k \in 1..n : \E i \in S : rank[i] = k
  <2>1. rank \in Injection(S, 1..n)
    BY <1>3, <1>5 DEF Injection, IsInjective
  <2>2. IsFiniteSet(1..n) /\ Cardinality(1..n) = n
    BY <1>0, FS_Interval
  <2>3. rank \in Surjection(S, 1..n)
    BY <2>1, <2>2, FS_Injection
  <2> QED BY <2>3 DEF Surjection
<1>7. ASSUME NEW k \in 1..n PROVE o[k] \in S /\ rank[o[k]] = k
  <2>1. o[k] = CHOOSE i \in S : Cardinality(Below(i)) = k - 1
    BY <1>7 DEF InOrder
  <2>2. \E i \in S : Cardinality(Below(i)) = k - 1
    <3>1. PICK i \in S : rank[i] = k
      BY <1>6
    <3> HIDE DEF Below
    <3> QED BY <1>1, <1>3, <3>1
  <2> HIDE DEF o
  <2>3. o[k] \in S /\ Cardinality(Below(o[k])) = k - 1
    BY <2>1, <2>2
  <2> HIDE DEF Below
  <2> QED BY <1>1, <1>3, <2>3
<1>8. o = [k \in 1..n |-> o[k]]
  <2> DEFINE at(k) == CHOOSE i \in S : Cardinality({j \in S : <<j, i>> \in R}) = k - 1
  <2>1. o = [k \in 1..n |-> at(k)]
    BY DEF InOrder
  <2> HIDE DEF o, at
  <2> QED BY <2>1
<1> HIDE DEF o
<1>9. \A i \in S : \E k \in 1..n : o[k] = i
  BY <1>3, <1>5, <1>7
<1>10. ASSUME NEW k \in 1..n, NEW l \in 1..n, k < l PROVE <<o[k], o[l]>> \in R
  <2>1. o[k] # o[l]
    BY <1>7, <1>10
  <2>2. <<o[l], o[k]>> \notin R
    BY <1>4, <1>7, <1>10
  <2> QED BY <1>7, <2>1, <2>2 DEF TotalOrder
<1> HIDE DEF n
<1>11. Enumerates(o, S, R)
  <2> USE DEF n
  <2> QED BY <1>0, <1>7, <1>8, <1>9, <1>10 DEF Enumerates
<1> QED BY <1>11 DEF o

LEMMA LeastOf ==
    ASSUME NEW T, T \subseteq Nat, T # {}
    PROVE  Min(T) \in T /\ \A m \in T : Min(T) <= m
BY LeastNumber DEF Min

LEMMA NumbersAreFinite ==
    ASSUME NEW n \in Nat, NEW T, T \subseteq 1..n
    PROVE  IsFiniteSet(T)
<1>1. IsFiniteSet(1..n)
  BY FS_Interval
<1> QED BY <1>1, FS_Subset

Order(policy) == InOrder(Enabled(policy), ByPriority(policy))

LEMMA RulesAreOrdered ==
    ASSUME NEW policy \in Seq(PolicyRules)
    PROVE  /\ Enumerates(Order(policy), Enabled(policy), ByPriority(policy))
           /\ PrepareRules(policy) \in Seq(PolicyRules)
           /\ Len(PrepareRules(policy)) = Cardinality(Enabled(policy))
           /\ \A k \in 1..Len(PrepareRules(policy)) : PrepareRules(policy)[k] = policy[Order(policy)[k]]
<1> DEFINE S == Enabled(policy)
           R == ByPriority(policy)
           n == Cardinality(S)
<1>1. /\ Len(policy) \in Nat /\ S \subseteq 1..Len(policy)
      /\ \A i \in S : policy[i] \in PolicyRules /\ policy[i].priority \in Int
  <2>1. \A i \in S : i \in 1..Len(policy) /\ policy[i] \in PolicyRules
    BY DEF Enabled
  <2>2. \A r \in PolicyRules : r.priority \in Int
    BY DEF PolicyRules
  <2> QED BY <2>1, <2>2
<1>2. IsFiniteSet(S)
  BY <1>1, NumbersAreFinite
<1>3. \A i, j \in S : <<i, j>> \in R <=>
        \/ policy[i].priority < policy[j].priority
        \/ policy[i].priority = policy[j].priority /\ i < j
  BY DEF ByPriority
<1> HIDE DEF R, S
<1>4. \A i \in S : i \in Int
  BY <1>1
<1>5. TotalOrder(S, R)
  <2>1. \A i \in S : <<i, i>> \notin R
    BY <1>1, <1>3, <1>4
  <2>2. \A i, j, k \in S : <<i, j>> \in R /\ <<j, k>> \in R => <<i, k>> \in R
    BY <1>1, <1>3, <1>4
  <2>3. \A i, j \in S : i # j => <<i, j>> \in R \/ <<j, i>> \in R
    BY <1>1, <1>3, <1>4
  <2> QED BY <1>2, <2>1, <2>2, <2>3 DEF TotalOrder
<1>6. Enumerates(Order(policy), S, R)
  BY <1>5, InOrderEnumerates DEF Order, S, R
<1>7. PrepareRules(policy) = [k \in DOMAIN Order(policy) |-> policy[Order(policy)[k]]]
  BY DEF PrepareRules, Order
<1>8. DOMAIN Order(policy) = 1..n /\ n \in Nat /\ \A k \in 1..n : Order(policy)[k] \in S
  BY <1>6 DEF Enumerates
<1>9. PrepareRules(policy) \in [1..n -> PolicyRules]
  BY <1>1, <1>7, <1>8
<1>10. PrepareRules(policy) \in Seq(PolicyRules) /\ Len(PrepareRules(policy)) = n
  BY <1>8, <1>9
<1> QED BY <1>6, <1>7, <1>8, <1>10 DEF R, S

LEMMA SetupTyped ==
    ASSUME setup \in Setups
    PROVE  /\ setup.mode \in {"db", "file"}
           /\ Len(setup.routes) \in Nat /\ DOMAIN setup.routes = 1..Len(setup.routes)
           /\ \A i \in DOMAIN setup.routes :
                /\ setup.routes[i].priority \in Int /\ setup.routes[i].rank \in Int
                /\ setup.routes[i].policy \in Seq(PolicyRules)
<1>1. setup \in [mode : {"db", "file"}, routes : Seq(Routings)]
  BY EvaluationAssumption
<1>2. PICK routes \in Seq(Routings) : routes = setup.routes
  BY <1>1
<1>3. Len(routes) \in Nat /\ DOMAIN routes = 1..Len(routes) /\ \A i \in DOMAIN routes : routes[i] \in Routings
  OBVIOUS
<1>4. \A r \in Routings : r.priority \in Int /\ r.rank \in Int /\ r.policy \in Seq(PolicyRules)
  BY DEF Routings
<1> QED BY <1>1, <1>2, <1>3, <1>4

Preceding == {p \in InForce \X InForce : Precedes(p[1], p[2])}

LEMMA RoutesAreOrdered ==
    ASSUME setup \in Setups
    PROVE  Enumerates(Sorted, InForce, Preceding)
<1> DEFINE n == Len(setup.routes)
<1>1. n \in Nat /\ InForce \subseteq 1..n
  BY SetupTyped DEF InForce
<1>2. IsFiniteSet(InForce)
  BY <1>1, NumbersAreFinite
<1>3. \A i, j \in InForce : <<i, j>> \in Preceding <=> Precedes(i, j)
  BY DEF Preceding
<1>4. \A i \in InForce : setup.routes[i].priority \in Int /\ setup.routes[i].rank \in Int /\ i \in Int
  BY SetupTyped DEF InForce
<1>5. \A i \in InForce : ~Precedes(i, i)
  BY <1>4 DEF Precedes
<1>6. \A i, j, k \in InForce : Precedes(i, j) /\ Precedes(j, k) => Precedes(i, k)
  BY <1>4 DEF Precedes
<1>7. \A i, j \in InForce : i # j => Precedes(i, j) \/ Precedes(j, i)
  BY <1>4 DEF Precedes
<1>8. TotalOrder(InForce, Preceding)
  BY <1>2, <1>3, <1>5, <1>6, <1>7 DEF TotalOrder
<1> QED BY <1>8, InOrderEnumerates DEF Sorted, Preceding

LEMMA FirstOfHits ==
    ASSUME setup \in Setups
    PROVE  LET hits == {i \in InForce : Matches(setup.routes[i])} IN
           /\ Resolved \in 0..Len(setup.routes)
           /\ Resolved = 0 <=> hits = {}
           /\ Resolved # 0 => Resolved \in hits /\ \A i \in hits \ {Resolved} : Precedes(Resolved, i)
<1> DEFINE hits == {i \in InForce : Matches(setup.routes[i])}
           n == Cardinality(InForce)
<1>1. Enumerates(Sorted, InForce, Preceding)
  BY RoutesAreOrdered
<1>2. n \in Nat /\ DOMAIN Sorted = 1..n /\ \A k \in 1..n : Sorted[k] \in InForce
  BY <1>1 DEF Enumerates
<1>3. InForce \subseteq 1..Len(setup.routes) /\ Len(setup.routes) \in Nat
  BY SetupTyped DEF InForce
<1>4. Hits \subseteq 1..n /\ \A k \in 1..n : k \in Hits <=> Sorted[k] \in hits
  BY <1>2 DEF Hits
<1>5. CASE Hits = {}
  <2>1. Resolved = 0
    BY <1>5 DEF Resolved
  <2>2. hits = {}
    BY <1>1, <1>4, <1>5 DEF Enumerates
  <2> QED BY <1>3, <2>1, <2>2
<1>6. CASE Hits # {}
  <2>1. Min(Hits) \in Hits /\ \A m \in Hits : Min(Hits) <= m
    <3>1. Hits \subseteq Nat
      BY <1>4
    <3> QED BY <1>6, <3>1, LeastOf
  <2>2. Resolved = Sorted[Min(Hits)]
    BY <1>6 DEF Resolved
  <2>3. Resolved \in hits
    BY <1>4, <2>1, <2>2
  <2>4. Resolved \in 1..Len(setup.routes)
    BY <1>3, <2>3
  <2>5. ASSUME NEW i \in hits \ {Resolved} PROVE Precedes(Resolved, i)
    <3>1. PICK k \in 1..n : Sorted[k] = i
      BY <1>1 DEF Enumerates
    <3>2. k \in Hits /\ Min(Hits) \in 1..n
      BY <1>4, <2>1, <3>1
    <3>3. Min(Hits) < k
      BY <2>1, <2>2, <2>5, <3>1, <3>2
    <3>4. <<Resolved, i>> \in Preceding
      BY <1>1, <2>2, <3>1, <3>2, <3>3 DEF Enumerates
    <3> QED BY <3>4 DEF Preceding
  <2>6. Resolved \in 0..Len(setup.routes) /\ Resolved # 0
    BY <1>3, <2>4
  <2>7. hits # {}
    BY <2>3
  <2> HIDE DEF hits
  <2>8. \A i \in hits \ {Resolved} : Precedes(Resolved, i)
    BY <2>5
  <2>9. (Resolved = 0 <=> hits = {}) /\ (Resolved # 0 => Resolved \in hits)
    BY <2>3, <2>6, <2>7
  <2> QED BY <2>6, <2>8, <2>9 DEF hits
<1> QED BY <1>5, <1>6
-----------------------------------------------------------------------------
(* The evaluation of a mail.                                               *)

EvaluationTyped ==
    /\ setup \in Setups
    /\ rules \in Seq(PolicyRules)
    /\ stage \in {"build", "refused", "resolve"} => rules = <<>>
    /\ stage \in {"build", "refused", "resolve", "inspect", "transform"} => next = 1
    /\ EvaluationTypeOK

RouteInv ==
    stage \notin {"build", "refused", "resolve"} => route = Resolved

LEMMA EvaluationStarts == EvaluationInit => EvaluationTyped /\ RouteInv
<1> SUFFICES ASSUME EvaluationInit PROVE EvaluationTyped /\ RouteInv
  OBVIOUS
<1> USE DEF EvaluationInit
<1>1. Len(setup.routes) \in Nat
  BY SetupTyped
<1>2. <<>> \in Seq(PolicyRules) /\ Len(<<>>) = 0
  OBVIOUS
<1>3. DOMAIN <<>> = {}
  OBVIOUS
<1>4. EvaluationTypeOK
  BY <1>1, <1>2, <1>3 DEF EvaluationTypeOK
<1> QED BY <1>2, <1>4 DEF EvaluationTyped, RouteInv

LEMMA SameResolution == ASSUME UNCHANGED <<setup, arrived>> PROVE Resolved' = Resolved
  BY DEF Resolved, Hits, Sorted, InForce, Active, Matches, Precedes

LEMMA EndingTyped ==
    ASSUME NEW r \in PolicyRules, EndsAt(r) # {}
    PROVE  r.specs[Min(EndsAt(r))].type \in Terminal /\ Min(EndsAt(r)) \in DOMAIN r.specs
<1>1. PICK specs \in Seq(ActionSpecs) : specs = r.specs
  BY DEF PolicyRules
<1>2. EndsAt(r) \subseteq Nat
  BY <1>1 DEF EndsAt
<1>3. Min(EndsAt(r)) \in EndsAt(r)
  BY <1>2, LeastOf
<1> QED BY <1>3 DEF EndsAt

LEMMA EvaluationStaysTyped ==
    ASSUME EvaluationTyped, [EvaluationNext]_evaluationVars
    PROVE  EvaluationTyped'
<1> USE DEF EvaluationTyped, EvaluationTypeOK
<1>0. Len(rules) \in Nat
  OBVIOUS
<1>1. CASE Build
  BY <1>1 DEF Build
<1>2. CASE Resolve
  <2>1. route' \in 0..Len(setup.routes) /\ setup' = setup
    BY <1>2, FirstOfHits DEF Resolve
  <2>2. CASE route' = 0
    BY <1>2, <2>1, <2>2 DEF Resolve
  <2>3. CASE route' # 0
    <3>1. route' \in DOMAIN setup.routes
      BY <2>1, <2>3, SetupTyped
    <3>2. setup.routes[route'].policy \in Seq(PolicyRules)
      BY <3>1, SetupTyped
    <3>3. rules' \in Seq(PolicyRules)
      BY <1>2, <2>3, <3>2, RulesAreOrdered DEF Resolve
    <3>4. working' \subseteq DOMAIN Instances
      BY <1>2, <2>3 DEF Resolve, Entries
    <3>5. stage' = "inspect" /\ next' = 1 /\ action' = action /\ results' = results
      BY <1>2, <2>3 DEF Resolve
    <3>6. next' \in 1..(Len(rules') + 1)
      BY <3>3, <3>5
    <3> QED BY <2>1, <3>3, <3>4, <3>5, <3>6
  <2> QED BY <2>2, <2>3
<1>3. CASE Inspected
  BY <1>3 DEF Inspected
<1>4. CASE Transform
  BY <1>4 DEF Transform
<1>5. CASE TransformFails
  BY <1>5 DEF TransformFails, Terminal
<1>6. CASE Transformed
  BY <1>6 DEF Transformed
<1>7. CASE Rule
  <2> DEFINE r == rules[next]
             v == Eval(r.condition, facts, Lists)
             hit == v.ok /\ v.value
             s == r.specs[Min(EndsAt(r))]
  <2>1. /\ setup' = setup /\ rules' = rules /\ route' = route /\ working' = working
        /\ results' = results /\ next' = next + 1 /\ next <= Len(rules) /\ stage = "rules"
    BY <1>7 DEF Rule
  <2>2. r \in PolicyRules
    BY <1>0, <2>1
  <2>3. CASE hit /\ EndsAt(r) # {}
    <3>1. s.type \in Terminal
      BY <2>2, <2>3, EndingTyped
    <3>2. stage' = "decided" /\ action' \in {s.type, "error"}
      BY <1>7, <2>3 DEF Rule
    <3> QED BY <1>0, <2>1, <3>1, <3>2
  <2>4. CASE ~(hit /\ EndsAt(r) # {})
    <3>1. UNCHANGED <<stage, action>>
      BY <1>7, <2>4 DEF Rule
    <3> QED BY <1>0, <2>1, <3>1
  <2> QED BY <2>3, <2>4
<1>8. CASE NoRule
  BY <1>8 DEF NoRule
<1>9. ASSUME NEW w \in working, InspectFails(w) PROVE EvaluationTyped'
  BY <1>9 DEF InspectFails
<1>10. ASSUME NEW w \in working, NEW detected \in BOOLEAN, Inspect(w, detected) PROVE EvaluationTyped'
  <2>1. DOMAIN results' = DOMAIN results \cup {w}
    BY <1>10 DEF Inspect, With
  <2> QED BY <1>10, <2>1 DEF Inspect
<1>11. CASE UNCHANGED evaluationVars
  BY <1>11 DEF evaluationVars
<1> QED BY <1>1, <1>2, <1>3, <1>4, <1>5, <1>6, <1>7, <1>8, <1>9, <1>10, <1>11 DEF EvaluationNext

LEMMA RouteStays ==
    ASSUME EvaluationTyped, RouteInv, [EvaluationNext]_evaluationVars
    PROVE  RouteInv'
<1> USE DEF RouteInv
<1>1. UNCHANGED <<setup, arrived>>
  BY DEF EvaluationNext, evaluationVars, Build, Resolve, Inspected, Transform, TransformFails,
         Transformed, Rule, NoRule, InspectFails, Inspect
<1>2. Resolved' = Resolved
  BY <1>1, SameResolution
<1>3. CASE Resolve
  BY <1>2, <1>3 DEF Resolve
<1>4. CASE ~Resolve
  <2>1. route' = route
    BY <1>4 DEF EvaluationNext, evaluationVars, Build, Inspected, Transform, TransformFails,
           Transformed, Rule, NoRule, InspectFails, Inspect
  <2>2. stage' \notin {"build", "refused", "resolve"} => stage \notin {"build", "refused", "resolve"}
    BY <1>4 DEF EvaluationNext, evaluationVars, Build, Inspected, Transform, TransformFails,
           Transformed, Rule, NoRule, InspectFails, Inspect
  <2> QED BY <1>2, <2>1, <2>2
<1> QED BY <1>3, <1>4

\* Types: results only of instances there are, a rule's number within the policy
\* of the route, an action only of those the code knows (engine.go, inspect.go).
THEOREM EvaluationTypeCorrect == EvaluationSpec => []EvaluationTypeOK
<1>1. EvaluationInit => EvaluationTyped
  BY EvaluationStarts
<1>2. EvaluationTyped /\ [EvaluationNext]_evaluationVars => EvaluationTyped'
  BY EvaluationStaysTyped
<1>3. EvaluationTyped => EvaluationTypeOK
  BY DEF EvaluationTyped
<1> QED BY <1>1, <1>2, <1>3, PTL DEF EvaluationSpec

\* Every condition of the policies that a gateway loads is read as the guide's
\* grammar has it, whatever the mail is (condition.go).
THEOREM ConditionsReadAsMeant == EvaluationSpec => []ConditionsMeanTheGrammar
<1>1. EvaluationInit => EvaluationTyped
  BY EvaluationStarts
<1>2. EvaluationTyped /\ [EvaluationNext]_evaluationVars => EvaluationTyped'
  BY EvaluationStaysTyped
<1>3. ASSUME EvaluationTyped PROVE ConditionsMeanTheGrammar
  <2> SUFFICES ASSUME NEW raw \in Loaded
               PROVE  LET fs == Facts(arrived, <<>>)
                          v == Eval(raw, fs, Lists)
                          known == \A t \in Leaves(Tokens(raw)) :
                                t.leaf.op = "list" => t.leaf.val.words \subseteq DOMAIN Lists
                      IN /\ raw # <<>> => (v.ok <=> Means(raw, fs, Lists) # {})
                         /\ raw # <<>> /\ v.ok => Means(raw, fs, Lists) = {v.value}
                         /\ Valid(raw) /\ known => v.ok
    BY DEF ConditionsMeanTheGrammar
  <2>1. raw \in Seq(RawWords)
    <3>1. PICK i \in DOMAIN setup.routes : \E r \in Range(setup.routes[i].policy) : raw = r.condition
      BY DEF Loaded
    <3>2. PICK policy \in Seq(PolicyRules) : policy = setup.routes[i].policy
      BY <1>3, SetupTyped DEF EvaluationTyped
    <3>3. PICK j \in DOMAIN policy : raw = policy[j].condition
      BY <3>1, <3>2 DEF Range
    <3>4. policy[j] \in PolicyRules
      BY <3>2
    <3> QED BY <3>3, <3>4 DEF PolicyRules
  <2>2. Valid(raw) => raw # <<>>
    BY DEF Valid
  <2> QED BY <2>1, <2>2, ConditionsAreRead
<1> QED BY <1>1, <1>2, <1>3, PTL DEF EvaluationSpec

\* The route of a mail is the first in force that it matches, and there is none
\* only if it matches none (routes.go Resolve, snapshot.go sortedRoutings).
THEOREM FirstRouteMatches == EvaluationSpec => []RouteIsFirstMatch
<1>1. EvaluationInit => EvaluationTyped /\ RouteInv
  BY EvaluationStarts
<1>2. EvaluationTyped /\ RouteInv /\ [EvaluationNext]_evaluationVars => (EvaluationTyped /\ RouteInv)'
  BY EvaluationStaysTyped, RouteStays
<1>3. EvaluationTyped /\ RouteInv => RouteIsFirstMatch
  BY FirstOfHits DEF EvaluationTyped, RouteInv, RouteIsFirstMatch
<1> QED BY <1>1, <1>2, <1>3, PTL DEF EvaluationSpec
-----------------------------------------------------------------------------
(* Rules one after the other.                                              *)

LastIn(policy, D) == CHOOSE i \in D : \A j \in D \ {i} : Before(policy, j, i)

AfterStep(policy, m, res, g, D) ==
    IF D = {} THEN m
    ELSE IF Means(policy[LastIn(policy, D)].condition,
                  Facts(g[D \ {LastIn(policy, D)}], res), Lists) = {TRUE}
         THEN Made(g[D \ {LastIn(policy, D)}], policy[LastIn(policy, D)])
         ELSE g[D \ {LastIn(policy, D)}]

\* The first n members of what o enumerates.
FirstOf(o, n) == {o[k] : k \in 1..n}

LEMMA PolicyOrdered ==
    ASSUME NEW policy \in Seq(PolicyRules)
    PROVE  LET n == Cardinality(Enabled(policy))
               o == Order(policy)
           IN /\ n \in Nat /\ IsFiniteSet(Enabled(policy))
              /\ \A k \in 1..n : o[k] \in Enabled(policy)
              /\ \A i \in Enabled(policy) : \E k \in 1..n : o[k] = i
              /\ \A k \in 1..n : \A l \in 1..n : k < l <=> Before(policy, o[k], o[l])
<1> DEFINE n == Cardinality(Enabled(policy))
           o == Order(policy)
<1>1. Enumerates(o, Enabled(policy), ByPriority(policy))
  BY RulesAreOrdered
<1> HIDE DEF o
<1>2. n \in Nat /\ (\A k \in 1..n : o[k] \in Enabled(policy))
      /\ \A i \in Enabled(policy) : \E k \in 1..n : o[k] = i
  BY <1>1 DEF Enumerates
<1>3. IsFiniteSet(Enabled(policy))
  <2>1. Len(policy) \in Nat /\ Enabled(policy) \subseteq 1..Len(policy)
    BY DEF Enabled
  <2> QED BY <2>1, NumbersAreFinite
<1>4. \A i, j \in Enabled(policy) : <<i, j>> \in ByPriority(policy) <=> Before(policy, i, j)
  BY DEF ByPriority, Before
<1>5. \A i, j \in Enabled(policy) : Before(policy, i, j) => ~Before(policy, j, i) /\ i # j
  <2>1. \A i \in Enabled(policy) : i \in Int /\ policy[i] \in PolicyRules
    BY DEF Enabled
  <2>2. \A r \in PolicyRules : r.priority \in Int
    BY DEF PolicyRules
  <2> QED BY <2>1, <2>2 DEF Before
<1>6. ASSUME NEW k \in 1..n, NEW l \in 1..n
      PROVE  k < l <=> Before(policy, o[k], o[l])
  <2>1. k < l => Before(policy, o[k], o[l])
    BY <1>1, <1>2, <1>4 DEF Enumerates
  <2>2. l < k => Before(policy, o[l], o[k])
    BY <1>1, <1>2, <1>4 DEF Enumerates
  <2>3. k = l => ~Before(policy, o[k], o[l])
    BY <1>2, <1>5
  <2>4. k < l \/ l < k \/ k = l
    BY <1>2
  <2> QED BY <1>2, <1>5, <2>1, <2>2, <2>3, <2>4
<1>7. \A k \in 1..n : \A l \in 1..n : k < l <=> Before(policy, o[k], o[l])
  BY <1>6
<1> HIDE DEF n
<1> QED BY <1>2, <1>3, <1>7 DEF n, o

LEMMA LastIsThere ==
    ASSUME NEW policy \in Seq(PolicyRules), NEW D \in SUBSET Enabled(policy), D # {}
    PROVE  LastIn(policy, D) \in D
<1> DEFINE n == Cardinality(Enabled(policy))
           o == Order(policy)
           T == {n - k : k \in {k \in 1..n : o[k] \in D}}
<1>1. /\ n \in Nat
      /\ \A i \in Enabled(policy) : \E k \in 1..n : o[k] = i
      /\ \A k \in 1..n : \A l \in 1..n : k < l <=> Before(policy, o[k], o[l])
  BY PolicyOrdered
<1> HIDE DEF n, o
<1>2. T \subseteq Nat /\ T # {}
  BY <1>1
<1>3. PICK x \in T : \A y \in T : x <= y
  <2> HIDE DEF T
  <2> QED BY <1>2, LeastNumber
<1>4. PICK k \in 1..n : o[k] \in D /\ x = n - k
  OBVIOUS
<1>5. ASSUME NEW j \in D \ {o[k]} PROVE Before(policy, j, o[k])
  <2>1. PICK l \in 1..n : o[l] = j
    BY <1>1
  <2>2. n - l \in T
    BY <2>1
  <2>3. n - k <= n - l
    <3> HIDE DEF T
    <3> QED BY <1>3, <1>4, <2>2
  <2>4. l < k
    BY <1>1, <1>5, <2>1, <2>3
  <2> QED BY <1>1, <2>1, <2>4
<1> QED BY <1>4, <1>5 DEF LastIn

LEMMA MailAfterSteps ==
    ASSUME NEW policy \in Seq(PolicyRules), NEW m, NEW res
    PROVE  \A D \in SUBSET Enabled(policy) :
                MailAfter(policy, m, res)[D] = AfterStep(policy, m, res, MailAfter(policy, m, res), D)
<1> DEFINE E == SUBSET Enabled(policy)
           Step(g, D) == AfterStep(policy, m, res, g, D)
           Upto(n) == {D \in E : Cardinality(D) < n}
           T == {n \in Nat : \E g : \A D \in Upto(n) : g[D] = Step(g, D)}
           f == CHOOSE g : g = [D \in E |-> Step(g, D)]
<1>1. ASSUME NEW D \in E, D # {}
      PROVE  D \ {LastIn(policy, D)} \in E
             /\ Cardinality(D \ {LastIn(policy, D)}) < Cardinality(D)
  <2>1. IsFiniteSet(D)
    BY PolicyOrdered, FS_Subset
  <2>2. LastIn(policy, D) \in D
    BY <1>1, LastIsThere
  <2>3. Cardinality(D \ {LastIn(policy, D)}) = Cardinality(D) - 1 /\ Cardinality(D) \in Nat
    BY <2>1, <2>2, FS_RemoveElement, FS_CardinalityType
  <2> QED BY <2>3
<1>2. ASSUME NEW g, NEW h, NEW D \in E, \A C \in E : Cardinality(C) < Cardinality(D) => g[C] = h[C]
      PROVE  Step(g, D) = Step(h, D)
  <2>1. D # {} => g[D \ {LastIn(policy, D)}] = h[D \ {LastIn(policy, D)}]
    BY <1>1, <1>2
  <2> QED BY <2>1 DEF AfterStep
<1>3. \A D \in E : Cardinality(D) \in Nat /\ Cardinality(D) <= Cardinality(Enabled(policy))
  BY PolicyOrdered, FS_Subset, FS_CardinalityType
<1>4. 0 \in T
  BY <1>3
<1> HIDE DEF E, Step
<1>5. ASSUME NEW n \in Nat, n \in T PROVE n + 1 \in T
  <2>1. PICK g : \A D \in Upto(n) : g[D] = Step(g, D)
    BY <1>5
  <2> DEFINE h == [D \in E |-> Step(g, D)]
  <2>2. \A D \in E : h[D] = Step(g, D)
    OBVIOUS
  <2> HIDE DEF h
  <2>3. ASSUME NEW D \in Upto(n + 1) PROVE h[D] = Step(h, D)
    <3>1. \A C \in E : Cardinality(C) < Cardinality(D) => g[C] = h[C]
      <4> SUFFICES ASSUME NEW C \in E, Cardinality(C) < Cardinality(D) PROVE g[C] = h[C]
        OBVIOUS
      <4>1. C \in Upto(n)
        BY <1>3
      <4> QED BY <2>1, <2>2, <4>1
    <3>2. Step(g, D) = Step(h, D)
      BY <1>2, <3>1
    <3> QED BY <2>2, <3>2
  <2> QED BY <2>3
<1>6. Nat \subseteq T
  <2> HIDE DEF T
  <2> QED BY <1>4, <1>5, CountingUp
<1>7. \E g : g = [D \in E |-> Step(g, D)]
  <2>1. Cardinality(Enabled(policy)) + 1 \in Nat
    BY PolicyOrdered
  <2>2. PICK g : \A D \in Upto(Cardinality(Enabled(policy)) + 1) : g[D] = Step(g, D)
    BY <1>6, <2>1
  <2>3. \A D \in E : g[D] = Step(g, D)
    <3>1. \A D \in E : D \in Upto(Cardinality(Enabled(policy)) + 1)
      BY <1>3, PolicyOrdered
    <3> QED BY <2>2, <3>1
  <2> DEFINE h == [D \in E |-> g[D]]
  <2>4. \A D \in E : h[D] = g[D]
    OBVIOUS
  <2>5. ASSUME NEW D \in E PROVE h[D] = Step(h, D)
    <3>1. \A C \in E : Cardinality(C) < Cardinality(D) => g[C] = h[C]
      BY <2>4
    <3> HIDE DEF h
    <3>2. Step(g, D) = Step(h, D)
      BY <1>2, <3>1
    <3> QED BY <2>3, <2>4, <3>2
  <2>6. h = [D \in E |-> h[D]]
    OBVIOUS
  <2> HIDE DEF h
  <2>7. h = [D \in E |-> Step(h, D)]
    BY <2>5, <2>6
  <2> QED BY <2>7
<1>8. f = [D \in E |-> Step(f, D)]
  BY <1>7
<1>9. f = MailAfter(policy, m, res)
  BY DEF MailAfter, AfterStep, LastIn, E, Step
<1> HIDE DEF f
<1>10. \A D \in E : f[D] = Step(f, D)
  BY <1>8
<1> QED BY <1>9, <1>10 DEF E, Step

PolicyInv ==
    /\ route # 0 => rules = PrepareRules(Policy)
    /\ stage \in {"inspect", "transform", "rules"} => route # 0
    /\ stage = "decided" /\ next > 1 => route # 0
    /\ stage = "rules" =>
        /\ facts = Facts(mail, results)
        /\ mail = MailAfter(Policy, passed, results)[FirstOf(Order(Policy), next - 1)]
        /\ \A k \in 1..(next - 1) : ~Decisive(Order(Policy)[k])

LEMMA HitsAsMeant ==
    ASSUME NEW raw \in Seq(RawWords), NEW fs, NEW lists
    PROVE  Eval(raw, fs, lists).ok /\ Eval(raw, fs, lists).value <=> Means(raw, fs, lists) = {TRUE}
<1>1. CASE raw = <<>>
  <2>1. Tokens(raw) = <<>>
    BY <1>1 DEF Tokens, FlattenSeq
  <2>2. Means(raw, fs, lists) = {}
    BY <2>1 DEF Means, Meaning
  <2>3. ~Eval(raw, fs, lists).value
    BY <1>1 DEF Eval, Value
  <2> QED BY <2>2, <2>3
<1>2. CASE raw # <<>>
  <2>1. PICK v : v = Eval(raw, fs, lists)
    OBVIOUS
  <2>2. v \in Outcomes /\ (v.ok <=> Means(raw, fs, lists) # {}) /\ (v.ok => Means(raw, fs, lists) = {v.value})
    BY <1>2, <2>1, ConditionsAreRead
  <2> QED BY <2>1, <2>2 DEF Outcomes
<1> QED BY <1>1, <1>2

\* What precedes the rule k, and what it makes of the mail.
Continued(policy, m, res, k) ==
    LET o == Order(policy)
        after == MailAfter(policy, m, res)
        before == after[FirstOf(o, k - 1)]
    IN /\ Earlier(policy, o[k]) = FirstOf(o, k - 1)
       /\ after[FirstOf(o, k)] =
            IF Means(policy[o[k]].condition, Facts(before, res), Lists) = {TRUE}
            THEN Made(before, policy[o[k]]) ELSE before

LEMMA OneAfterTheOther ==
    ASSUME NEW policy \in Seq(PolicyRules), NEW m, NEW res,
           NEW k \in 1..Cardinality(Enabled(policy))
    PROVE  Continued(policy, m, res, k)
<1> DEFINE n == Cardinality(Enabled(policy))
           o == Order(policy)
           after == MailAfter(policy, m, res)
           D == FirstOf(o, k)
<1>1. /\ n \in Nat
      /\ \A l \in 1..n : o[l] \in Enabled(policy)
      /\ \A i \in Enabled(policy) : \E l \in 1..n : o[l] = i
      /\ \A i \in 1..n : \A j \in 1..n : i < j <=> Before(policy, o[i], o[j])
  BY PolicyOrdered
<1>2. \A C \in SUBSET Enabled(policy) : after[C] = AfterStep(policy, m, res, after, C)
  BY MailAfterSteps
<1>3. k \in 1..n
  OBVIOUS
<1> HIDE DEF n, o, after
<1>4. Earlier(policy, o[k]) = FirstOf(o, k - 1)
  <2>1. ASSUME NEW i \in Earlier(policy, o[k]) PROVE i \in FirstOf(o, k - 1)
    <3>1. i \in Enabled(policy) /\ Before(policy, i, o[k])
      BY DEF Earlier
    <3>2. PICK l \in 1..n : o[l] = i
      BY <1>1, <3>1
    <3>3. l < k
      BY <1>1, <1>3, <3>1, <3>2
    <3>4. l \in 1..(k - 1)
      BY <1>1, <1>3, <3>3
    <3> QED BY <3>2, <3>4 DEF FirstOf
  <2>2. ASSUME NEW i \in FirstOf(o, k - 1) PROVE i \in Earlier(policy, o[k])
    <3>1. PICK l \in 1..(k - 1) : o[l] = i
      BY DEF FirstOf
    <3>2. l \in 1..n /\ l < k
      BY <1>1, <1>3
    <3> QED BY <1>1, <1>3, <3>1, <3>2 DEF Earlier
  <2> QED BY <2>1, <2>2
<1>5. D \in SUBSET Enabled(policy) /\ o[k] \in D
  BY <1>1, <1>3 DEF FirstOf
<1>6. \A l \in 1..n : o[l] = o[k] => l = k
  <2> SUFFICES ASSUME NEW l \in 1..n, o[l] = o[k], l # k PROVE FALSE
    OBVIOUS
  <2>1. l < k \/ k < l
    BY <1>1, <1>3
  <2>2. (l < k <=> k < k) /\ (k < l <=> k < k)
    BY <1>1, <1>3
  <2> QED BY <1>1, <1>3, <2>1, <2>2
<1>7. D \ {o[k]} = FirstOf(o, k - 1)
  <2>1. \A l \in 1..k : l = k \/ l \in 1..(k - 1)
    BY <1>1, <1>3
  <2>2. 1..(k - 1) \subseteq 1..k /\ 1..k \subseteq 1..n /\ k \notin 1..(k - 1)
    BY <1>1, <1>3
  <2> QED BY <1>6, <2>1, <2>2 DEF FirstOf
<1>8. LastIn(policy, D) = o[k]
  <2>1. \A l \in 1..k : l # k => l < k /\ l \in 1..n
    BY <1>1, <1>3
  <2>2. \A j \in D \ {o[k]} : Before(policy, j, o[k])
    BY <1>1, <1>3, <2>1 DEF FirstOf
  <2>3. ASSUME NEW i \in D, \A j \in D \ {i} : Before(policy, j, i) PROVE i = o[k]
    <3>1. PICK l \in 1..k : o[l] = i
      BY DEF FirstOf
    <3>2. ASSUME l # k PROVE FALSE
      <4>1. l < k /\ l \in 1..n
        BY <2>1, <3>2
      <4>2. o[k] # o[l]
        BY <1>6, <3>2, <4>1
      <4>3. Before(policy, o[k], o[l])
        BY <1>5, <2>3, <3>1, <4>2
      <4>4. k < l
        BY <1>1, <1>3, <4>1, <4>3
      <4> QED BY <1>1, <1>3, <4>1, <4>4
    <3> QED BY <3>1, <3>2
  <2> HIDE DEF D
  <2> QED BY <1>5, <2>2, <2>3 DEF LastIn
<1>9. D # {}
  BY <1>5
<1>10. after[D] = IF Means(policy[o[k]].condition, Facts(after[FirstOf(o, k - 1)], res), Lists) = {TRUE}
                  THEN Made(after[FirstOf(o, k - 1)], policy[o[k]]) ELSE after[FirstOf(o, k - 1)]
  <2> HIDE DEF D
  <2>1. after[D] = AfterStep(policy, m, res, after, D)
    BY <1>2, <1>5
  <2> QED BY <1>7, <1>8, <1>9, <2>1 DEF AfterStep
<1> QED BY <1>4, <1>10 DEF o, after, Continued

LEMMA PolicyTyped ==
    ASSUME EvaluationTyped, route # 0
    PROVE  Policy \in Seq(PolicyRules)
<1>1. route \in DOMAIN setup.routes
  BY SetupTyped DEF EvaluationTyped, EvaluationTypeOK
<1> QED BY <1>1, SetupTyped DEF EvaluationTyped, Policy

LEMMA SamePolicy ==
    ASSUME UNCHANGED <<setup, route, passed, results>>
    PROVE  /\ Policy' = Policy
           /\ MailAfter(Policy, passed, results)' = MailAfter(Policy, passed, results)
           /\ \A k : MailBefore(k)' = MailBefore(k) /\ (Decisive(k)' <=> Decisive(k))
  BY DEF Decisive, MailBefore, Policy

\* One rule: what it makes of the mail, and whether it decides.
LEMMA RuleAtHand ==
    ASSUME EvaluationTyped, PolicyInv, Rule
    PROVE  LET k == Order(Policy)[next]
               r == rules[next]
               hit == Eval(r.condition, facts, Lists).ok /\ Eval(r.condition, facts, Lists).value
               made == IF hit THEN Made(mail, r) ELSE mail
           IN /\ route # 0 /\ next \in 1..Cardinality(Enabled(Policy))
              /\ r = Policy[k] /\ k \in Enabled(Policy)
              /\ mail = MailBefore(k)
              /\ Decisive(k) <=> hit /\ EndsAt(r) # {}
              /\ made = MailAfter(Policy, passed, results)[FirstOf(Order(Policy), next)]
<1> DEFINE o == Order(Policy)
           k == o[next]
           r == rules[next]
           after == MailAfter(Policy, passed, results)
           v == Eval(r.condition, facts, Lists)
           hit == v.ok /\ v.value
           n == Cardinality(Enabled(Policy))
<1>1. route # 0 /\ stage = "rules" /\ next <= Len(rules) /\ next \in 1..(Len(rules) + 1)
  BY DEF Rule, PolicyInv, EvaluationTyped, EvaluationTypeOK
<1>2. Policy \in Seq(PolicyRules)
  BY <1>1, PolicyTyped
<1>3. rules = PrepareRules(Policy)
  BY <1>1 DEF PolicyInv
<1>4. Len(rules) = n /\ n \in Nat /\ (\A l \in 1..n : rules[l] = Policy[o[l]] /\ o[l] \in Enabled(Policy))
  BY <1>2, <1>3, RulesAreOrdered, PolicyOrdered
<1>5. next \in 1..n
  BY <1>1, <1>4
<1>6. r = Policy[k] /\ k \in Enabled(Policy)
  BY <1>4, <1>5
<1>7. /\ Earlier(Policy, k) = FirstOf(o, next - 1)
      /\ after[FirstOf(o, next)] =
            IF Means(r.condition, Facts(after[FirstOf(o, next - 1)], results), Lists) = {TRUE}
            THEN Made(after[FirstOf(o, next - 1)], r) ELSE after[FirstOf(o, next - 1)]
  <2>1. /\ Earlier(Policy, k) = FirstOf(o, next - 1)
        /\ after[FirstOf(o, next)] =
            IF Means(Policy[k].condition, Facts(after[FirstOf(o, next - 1)], results), Lists) = {TRUE}
            THEN Made(after[FirstOf(o, next - 1)], Policy[k]) ELSE after[FirstOf(o, next - 1)]
    <3>1. Continued(Policy, passed, results, next)
      BY <1>2, <1>5, OneAfterTheOther
    <3> QED BY <3>1 DEF Continued
  <2> HIDE DEF o, r, v, after
  <2> QED BY <1>6, <2>1
<1>8. facts = Facts(mail, results) /\ mail = after[FirstOf(o, next - 1)]
  BY <1>1 DEF PolicyInv
<1>9. mail = MailBefore(k)
  BY <1>7, <1>8 DEF MailBefore
<1>10. r.condition \in Seq(RawWords)
  <2>1. r \in PolicyRules
    BY <1>2, <1>6 DEF Enabled
  <2> QED BY <2>1 DEF PolicyRules
<1>11. hit <=> Means(r.condition, facts, Lists) = {TRUE}
  BY <1>10, HitsAsMeant
<1> HIDE DEF o, k, r, v, after, n
<1>12. Decisive(k) <=> EndsAt(r) # {} /\ Means(r.condition, facts, Lists) = {TRUE}
  BY <1>6, <1>8, <1>9 DEF Decisive
<1>13. (IF hit THEN Made(mail, r) ELSE mail) = after[FirstOf(o, next)]
  BY <1>7, <1>8, <1>11
<1> QED BY <1>1, <1>5, <1>6, <1>9, <1>11, <1>12, <1>13 DEF o, k, r, v, after, n

LEMMA PolicyStays ==
    ASSUME EvaluationTyped, PolicyInv, [EvaluationNext]_evaluationVars
    PROVE  PolicyInv'
<1>1. CASE Build
  <2>1. UNCHANGED <<setup, route, passed, results, rules, next>> /\ stage' \in {"resolve", "refused"}
    BY <1>1 DEF Build
  <2> QED BY <2>1, SamePolicy DEF PolicyInv
<1>2. CASE Resolve
  <2>1. route' # 0 => stage' = "inspect" /\ rules' = PrepareRules(Policy')
    BY <1>2 DEF Resolve, Policy
  <2>2. route' = 0 => stage' = "decided"
    BY <1>2 DEF Resolve
  <2>3. next' = 1
    BY <1>2 DEF Resolve, EvaluationTyped
  <2> QED BY <2>1, <2>2, <2>3 DEF PolicyInv
<1>3. CASE Inspected
  <2>1. UNCHANGED <<setup, route, passed, results, rules, next>> /\ stage' = "transform" /\ stage = "inspect"
    BY <1>3 DEF Inspected
  <2> QED BY <2>1, SamePolicy DEF PolicyInv
<1>4. CASE Transform
  <2>1. UNCHANGED <<setup, route, passed, results, rules, next, stage>> /\ stage = "transform"
    BY <1>4 DEF Transform
  <2> QED BY <2>1, SamePolicy DEF PolicyInv
<1>5. CASE TransformFails
  <2>1. UNCHANGED <<setup, route, passed, results, rules, next>> /\ stage = "transform" /\ stage' = "decided"
    BY <1>5 DEF TransformFails
  <2>2. next' = 1
    BY <2>1 DEF EvaluationTyped
  <2> QED BY <2>1, <2>2, SamePolicy DEF PolicyInv
<1>6. CASE Transformed
  <2>1. /\ UNCHANGED <<setup, route, rules, next, mail, results>> /\ stage = "transform" /\ stage' = "rules"
        /\ facts' = Facts(mail, results) /\ passed' = mail
    BY <1>6 DEF Transformed
  <2>2. route # 0 /\ Policy' = Policy /\ rules = PrepareRules(Policy)
    BY <2>1 DEF PolicyInv, Policy
  <2>3. next = 1
    BY <2>1 DEF EvaluationTyped
  <2>4. Policy \in Seq(PolicyRules)
    BY <2>2, PolicyTyped
  <2>5. MailAfter(Policy, mail, results)[{}] = mail
    <3>1. {} \in SUBSET Enabled(Policy)
      OBVIOUS
    <3>2. MailAfter(Policy, mail, results)[{}]
            = AfterStep(Policy, mail, results, MailAfter(Policy, mail, results), {})
      BY <2>4, <3>1, MailAfterSteps
    <3> QED BY <3>2 DEF AfterStep
  <2>6. FirstOf(Order(Policy), 0) = {}
    BY DEF FirstOf
  <2>7. mail' = MailAfter(Policy', passed', results')[FirstOf(Order(Policy'), next' - 1)]
    BY <2>1, <2>2, <2>3, <2>5, <2>6
  <2>8. 1..(next' - 1) = {}
    BY <2>1, <2>3
  <2> QED BY <2>1, <2>2, <2>7, <2>8 DEF PolicyInv
<1>7. CASE Rule
  <2> DEFINE o == Order(Policy)
             k == o[next]
             r == rules[next]
             v == Eval(r.condition, facts, Lists)
             hit == v.ok /\ v.value
             made == IF hit THEN Made(mail, r) ELSE mail
  <2>1. /\ UNCHANGED <<setup, route, passed, results, rules>> /\ next' = next + 1 /\ stage = "rules"
    BY <1>7 DEF Rule
  <2>2. /\ route # 0 /\ next \in 1..Cardinality(Enabled(Policy))
        /\ Decisive(k) <=> hit /\ EndsAt(r) # {}
        /\ made = MailAfter(Policy, passed, results)[FirstOf(o, next)]
    BY <1>7, RuleAtHand
  <2>3. CASE hit /\ EndsAt(r) # {}
    <3>1. stage' = "decided"
      BY <1>7, <2>3 DEF Rule
    <3> QED BY <2>1, <2>2, <3>1, SamePolicy DEF PolicyInv
  <2>4. CASE ~(hit /\ EndsAt(r) # {})
    <3>1. /\ mail' = made /\ facts' = (IF made = mail THEN facts ELSE Facts(made, results))
          /\ UNCHANGED <<stage, action>>
      BY <1>7, <2>4 DEF Rule
    <3>2. facts = Facts(mail, results) /\ \A m \in 1..(next - 1) : ~Decisive(o[m])
      BY <2>1 DEF PolicyInv
    <3> HIDE DEF o, r, v, made
    <3>3. facts' = Facts(mail', results')
      BY <2>1, <3>1, <3>2
    <3>4. \A m \in 1..((next + 1) - 1) : m = next \/ m \in 1..(next - 1)
      BY <2>2
    <3>5. \A m \in 1..((next + 1) - 1) : ~Decisive(o[m])
      BY <2>2, <2>4, <3>2, <3>4
    <3>6. Policy' = Policy /\ MailAfter(Policy, passed, results)' = MailAfter(Policy, passed, results)
          /\ \A m : Decisive(m)' <=> Decisive(m)
      BY <2>1, SamePolicy
    <3>7. (next + 1) - 1 = next
      BY <2>2
    <3>8. mail' = MailAfter(Policy', passed', results')[FirstOf(Order(Policy'), next' - 1)]
      BY <2>1, <2>2, <3>1, <3>6, <3>7 DEF o
    <3>9. \A m \in 1..(next' - 1) : ~Decisive(Order(Policy)[m])'
      BY <2>1, <3>5, <3>6 DEF o
    <3> QED BY <2>1, <2>2, <3>1, <3>3, <3>6, <3>8, <3>9 DEF PolicyInv
  <2> QED BY <2>3, <2>4
<1>8. CASE NoRule
  <2>1. UNCHANGED <<setup, route, passed, results, rules, next>> /\ stage = "rules" /\ stage' = "decided"
    BY <1>8 DEF NoRule
  <2> QED BY <2>1, SamePolicy DEF PolicyInv
<1>9. ASSUME NEW w \in working, InspectFails(w) PROVE PolicyInv'
  <2>1. UNCHANGED <<setup, route, passed, results, rules, next, stage>> /\ stage = "inspect"
    BY <1>9 DEF InspectFails
  <2> QED BY <2>1, SamePolicy DEF PolicyInv
<1>10. ASSUME NEW w \in working, NEW detected \in BOOLEAN, Inspect(w, detected) PROVE PolicyInv'
  <2>1. UNCHANGED <<setup, route, passed, rules, next, stage>> /\ stage = "inspect"
    BY <1>10 DEF Inspect
  <2> QED BY <2>1 DEF PolicyInv, Policy
<1>11. CASE UNCHANGED evaluationVars
  <2>1. UNCHANGED <<setup, route, passed, results, rules, next, stage, mail, facts>>
    BY <1>11 DEF evaluationVars
  <2> QED BY <2>1, SamePolicy DEF PolicyInv
<1> QED BY <1>1, <1>2, <1>3, <1>4, <1>5, <1>6, <1>7, <1>8, <1>9, <1>10, <1>11 DEF EvaluationNext

Ends == {k \in Enabled(Policy) : Decisive(k)}

\* Of the rules that may decide, k does, and this is what becomes of the mail m.
DecidedBy(policy, ends, before, k, a, m) ==
    LET s == policy[k].specs[Min(EndsAt(policy[k]))] IN
    /\ \A j \in ends \ {k} : Before(policy, k, j)
    /\ a \in {s.type, "error"}
    /\ a = "error" => s.type = "redirect" /\ s.value = ""
    /\ [m EXCEPT !.to = {}] = [Made(before, policy[k]) EXCEPT !.to = {}]

LEMMA RuleDecides ==
    ASSUME EvaluationTyped, PolicyInv, Rule, stage' = "decided"
    PROVE  \E k \in Ends : DecidedBy(Policy, Ends, MailBefore(k), k, action', mail')
<1> DEFINE o == Order(Policy)
           k == o[next]
           r == rules[next]
           v == Eval(r.condition, facts, Lists)
           hit == v.ok /\ v.value
           made == IF hit THEN Made(mail, r) ELSE mail
           s == r.specs[Min(EndsAt(r))]
           redirected == s.type = "redirect" /\ s.value # ""
           n == Cardinality(Enabled(Policy))
<1>1. /\ route # 0 /\ next \in 1..n
      /\ r = Policy[k] /\ k \in Enabled(Policy)
      /\ mail = MailBefore(k)
      /\ Decisive(k) <=> hit /\ EndsAt(r) # {}
  BY RuleAtHand
<1>2. stage = "rules" /\ \A m \in 1..(next - 1) : ~Decisive(o[m])
  BY DEF Rule, PolicyInv
<1>3. hit /\ EndsAt(r) # {}
  BY <1>2 DEF Rule
<1>4. /\ action' = IF s.type = "redirect" /\ ~redirected THEN "error" ELSE s.type
      /\ mail' = IF redirected THEN [Made(mail, r) EXCEPT !.to = {s.value}] ELSE Made(mail, r)
  BY <1>3 DEF Rule
<1>5. Policy \in Seq(PolicyRules)
  BY <1>1, PolicyTyped
<1>6. s.type \in Terminal
  <2>1. r \in PolicyRules
    BY <1>1, <1>5 DEF Enabled
  <2> QED BY <1>3, <2>1, EndingTyped
<1>7. /\ n \in Nat
      /\ \A i \in Enabled(Policy) : \E l \in 1..n : o[l] = i
      /\ \A i \in 1..n : \A l \in 1..n : i < l <=> Before(Policy, o[i], o[l])
  BY <1>5, PolicyOrdered
<1> HIDE DEF o, r, v, n
<1>8. ASSUME NEW j \in Enabled(Policy), Decisive(j), j # k PROVE Before(Policy, k, j)
  <2>1. PICK l \in 1..n : o[l] = j
    BY <1>7
  <2>2. l \notin 1..(next - 1) /\ l # next
    BY <1>2, <1>8, <2>1
  <2>3. next < l
    BY <1>1, <1>7, <2>2
  <2> QED BY <1>1, <1>7, <2>1, <2>3
<1>9. action' \in {s.type, "error"} /\ (action' = "error" => s.type = "redirect" /\ s.value = "")
  BY <1>4, <1>6 DEF Terminal
<1>10. [mail' EXCEPT !.to = {}] = [Made(mail, r) EXCEPT !.to = {}]
  <2>1. PICK m : m = Made(mail, r)
    OBVIOUS
  <2>2. mail' = m \/ mail' = [m EXCEPT !.to = {s.value}]
    BY <1>4, <2>1
  <2>3. \A x : [[m EXCEPT !.to = x] EXCEPT !.to = {}] = [m EXCEPT !.to = {}]
    OBVIOUS
  <2> QED BY <2>1, <2>2, <2>3
<1>11. k \in Ends /\ \A j \in Ends \ {k} : Before(Policy, k, j)
  BY <1>1, <1>3, <1>8 DEF Ends
<1>12. DecidedBy(Policy, Ends, MailBefore(k), k, action', mail')
  BY <1>1, <1>9, <1>10, <1>11 DEF DecidedBy
<1> QED BY <1>11, <1>12

\* The property, in these terms.
LEMMA DecisionAs ==
    DecisionIsFirstMatch <=>
        (stage = "decided" /\ next > 1 =>
            IF Ends = {} THEN action = "no_rule"
            ELSE \E k \in Ends : DecidedBy(Policy, Ends, MailBefore(k), k, action, mail))
  BY DEF DecisionIsFirstMatch, DecidedBy, Ends

LEMMA SameEnds ==
    ASSUME UNCHANGED <<setup, route, passed, results>>
    PROVE  Ends' = Ends /\ Policy' = Policy /\ \A k : MailBefore(k)' = MailBefore(k)
  BY SamePolicy DEF Ends

LEMMA NoneDecides ==
    ASSUME EvaluationTyped, PolicyInv, NoRule
    PROVE  Ends = {}
<1>1. stage = "rules" /\ next > Len(rules)
  BY DEF NoRule
<1>2. route # 0 /\ rules = PrepareRules(Policy) /\ \A m \in 1..(next - 1) : ~Decisive(Order(Policy)[m])
  BY <1>1 DEF PolicyInv
<1>3. Policy \in Seq(PolicyRules)
  BY <1>2, PolicyTyped
<1>4. next \in Int /\ Len(rules) \in Nat
  BY DEF EvaluationTyped, EvaluationTypeOK
<1>5. ASSUME NEW k \in Enabled(Policy) PROVE ~Decisive(k)
  <2>1. PICK l \in 1..Len(rules) : Order(Policy)[l] = k
    BY <1>2, <1>3, RulesAreOrdered, PolicyOrdered
  <2>2. l \in 1..(next - 1)
    BY <1>1, <1>4
  <2> QED BY <1>2, <2>1, <2>2
<1> QED BY <1>5 DEF Ends

LEMMA DecisionStays ==
    ASSUME EvaluationTyped, PolicyInv, DecisionIsFirstMatch, [EvaluationNext]_evaluationVars
    PROVE  DecisionIsFirstMatch'
<1>1. ASSUME stage' = "decided", next' > 1
      PROVE  IF Ends' = {} THEN action' = "no_rule"
             ELSE \E k \in Ends' : DecidedBy(Policy', Ends', MailBefore(k)', k, action', mail')
  <2>1. CASE Rule
    <3>1. UNCHANGED <<setup, route, passed, results>>
      BY <2>1 DEF Rule
    <3>2. PICK k \in Ends : DecidedBy(Policy, Ends, MailBefore(k), k, action', mail')
      BY <1>1, <2>1, RuleDecides
    <3> QED BY <3>1, <3>2, SameEnds
  <2>2. CASE NoRule
    <3>1. UNCHANGED <<setup, route, passed, results>> /\ action' = "no_rule"
      BY <2>2 DEF NoRule
    <3> QED BY <2>2, <3>1, SameEnds, NoneDecides
  <2>3. CASE UNCHANGED evaluationVars
    <3>1. UNCHANGED <<setup, route, passed, results, action, mail, stage, next>>
      BY <2>3 DEF evaluationVars
    <3>2. IF Ends = {} THEN action = "no_rule"
          ELSE \E k \in Ends : DecidedBy(Policy, Ends, MailBefore(k), k, action, mail)
      BY <1>1, <3>1, DecisionAs
    <3>3. CASE Ends = {}
      BY <3>1, <3>2, <3>3, SameEnds
    <3>4. CASE Ends # {}
      <4>1. PICK k \in Ends : DecidedBy(Policy, Ends, MailBefore(k), k, action, mail)
        BY <3>2, <3>4
      <4> QED BY <3>1, <3>4, <4>1, SameEnds
    <3> QED BY <3>3, <3>4
  <2>4. CASE Resolve \/ TransformFails
    <3>1. next' = 1
      BY <2>4 DEF Resolve, TransformFails, EvaluationTyped
    <3> QED BY <1>1, <3>1
  <2>5. CASE ~(Rule \/ NoRule \/ Resolve \/ TransformFails \/ UNCHANGED evaluationVars)
    <3>1. stage' # "decided"
      BY <2>5 DEF EvaluationNext, Build, Inspected, Transform, Transformed, InspectFails, Inspect
    <3> QED BY <1>1, <3>1
  <2> QED BY <2>1, <2>2, <2>3, <2>4, <2>5
<1>2. DecisionIsFirstMatch' <=>
        (stage' = "decided" /\ next' > 1 =>
            IF Ends' = {} THEN action' = "no_rule"
            ELSE \E k \in Ends' : DecidedBy(Policy', Ends', MailBefore(k)', k, action', mail'))
  BY DEF DecisionIsFirstMatch, DecidedBy, Ends
<1> QED BY <1>1, <1>2

\* The action is that of the first rule, in order of priority, that ends the
\* evaluation and matches the mail as the rules before it have made it
\* (engine.go prepareRules and decide).
THEOREM FirstRuleDecides == EvaluationSpec => []DecisionIsFirstMatch
<1> DEFINE Inv == EvaluationTyped /\ PolicyInv /\ DecisionIsFirstMatch
<1>1. EvaluationInit => Inv
  BY EvaluationStarts DEF EvaluationInit, PolicyInv, DecisionIsFirstMatch
<1>2. Inv /\ [EvaluationNext]_evaluationVars => Inv'
  BY EvaluationStaysTyped, PolicyStays, DecisionStays
<1> QED BY <1>1, <1>2, PTL DEF EvaluationSpec

\* What was loaded is valid; what workers found is what is known of them; and
\* nothing but a failed transformation decides before the rules do.
HeedInv ==
    /\ stage \notin {"build", "refused"} => \A i \in DOMAIN setup.routes :
            Active(setup.routes[i]) => CanBuild(setup.routes[i])
    /\ DOMAIN found = DOMAIN results
    /\ \A w \in DOMAIN found : found[w] \in BOOLEAN /\ results[w].detected = found[w]
    /\ stage = "decided" /\ next = 1 /\ route # 0 => action = "quarantine" \/ Len(rules) = 0

LEMMA HeedStarts == EvaluationInit => HeedInv
<1>1. \A w \in DOMAIN <<>> : FALSE
  OBVIOUS
<1> QED BY <1>1 DEF EvaluationInit, HeedInv

LEMMA HeedStays ==
    ASSUME EvaluationTyped, HeedInv, [EvaluationNext]_evaluationVars
    PROVE  HeedInv'
<1>1. CASE Build
  BY <1>1 DEF Build, HeedInv, Active, CanBuild
<1>2. CASE Resolve
  BY <1>2 DEF Resolve, HeedInv, Active, CanBuild
<1>3. CASE Inspected \/ Transform \/ Transformed \/ TransformFails
  BY <1>3 DEF Inspected, Transform, Transformed, TransformFails, HeedInv, Active, CanBuild
<1>4. CASE Rule
  <2>1. UNCHANGED <<setup, route, rules, results, found>> /\ stage = "rules" /\ next' = next + 1
        /\ stage' \in {"rules", "decided"}
    BY <1>4 DEF Rule
  <2>2. next \in Nat /\ next > 0
    BY DEF EvaluationTyped, EvaluationTypeOK
  <2> QED BY <2>1, <2>2 DEF HeedInv, Active, CanBuild
<1>5. CASE NoRule
  <2>1. UNCHANGED <<setup, route, rules, results, found, next>> /\ stage = "rules" /\ stage' = "decided"
        /\ next > Len(rules)
    BY <1>5 DEF NoRule
  <2>2. next = 1 => Len(rules) = 0
    BY <2>1 DEF EvaluationTyped
  <2> QED BY <2>1, <2>2 DEF HeedInv, Active, CanBuild
<1>6. ASSUME NEW w \in working, InspectFails(w) PROVE HeedInv'
  BY <1>6 DEF InspectFails, HeedInv, Active, CanBuild
<1>7. ASSUME NEW w \in working, NEW detected \in BOOLEAN, Inspect(w, detected) PROVE HeedInv'
  <2>1. /\ UNCHANGED <<setup, stage>> /\ stage = "inspect"
        /\ results' = With(results, w, [detected |-> detected, score |-> IF detected THEN 50 ELSE 0])
        /\ found' = With(found, w, detected)
    BY <1>7 DEF Inspect
  <2>2. DOMAIN found' = DOMAIN found \cup {w} /\ DOMAIN results' = DOMAIN results \cup {w}
    BY <2>1 DEF With
  <2>3. ASSUME NEW u \in DOMAIN found' PROVE found'[u] \in BOOLEAN /\ results'[u].detected = found'[u]
    <3>1. CASE u = w
      BY <2>1, <3>1 DEF With
    <3>2. CASE u # w
      <4>1. u \in DOMAIN found /\ u \in DOMAIN results
        BY <2>2, <3>2 DEF HeedInv
      <4>2. found'[u] = found[u] /\ results'[u] = results[u]
        BY <2>1, <3>2, <4>1 DEF With
      <4> QED BY <4>1, <4>2 DEF HeedInv
    <3> QED BY <3>1, <3>2
  <2> QED BY <2>1, <2>2, <2>3 DEF HeedInv, Active, CanBuild
<1>8. CASE UNCHANGED evaluationVars
  BY <1>8 DEF evaluationVars, HeedInv, Active, CanBuild
<1> QED BY <1>1, <1>2, <1>3, <1>4, <1>5, <1>6, <1>7, <1>8 DEF EvaluationNext

\* A condition of one leaf.
LEMMA OneLeaf ==
    ASSUME NEW raw \in Seq(RawWords), raw = <<raw[1]>>, raw[1].kind = "leaf", raw[1].nots = 0,
           NEW fs, NEW lists, EvalLeaf(raw[1], fs, lists) = Value(TRUE)
    PROVE  Means(raw, fs, lists) = {TRUE}
<1>0. PICK t : t = raw[1] /\ raw = <<t>> /\ t.kind = "leaf" /\ t.nots = 0
                /\ EvalLeaf(t, fs, lists) = Value(TRUE)
  OBVIOUS
<1>1. Tokens(raw) = raw
  <2>1. [i \in DOMAIN raw |-> TokensOf(raw[i])] = <<raw>>
    BY <1>0 DEF TokensOf
  <2>2. FlattenSeq(<<raw>>) = raw
    <3> DEFINE f == CHOOSE g : g = FlattenStep(<<raw>>, g)
    <3>1. Len(<<raw>>) = 1 /\ <<raw>>[1] = raw /\ <<raw>> # <<>>
      OBVIOUS
    <3>2. [i \in 1..1 |-> raw] = FlattenStep(<<raw>>, [i \in 1..1 |-> raw])
      BY <3>1 DEF FlattenStep
    <3>3. f = FlattenStep(<<raw>>, f)
      BY <3>2
    <3>4. FlattenSeq(<<raw>>) = f[1]
      BY <3>1 DEF FlattenSeq, FlattenStep
    <3> HIDE DEF f
    <3> QED BY <3>1, <3>3, <3>4 DEF FlattenStep
  <2> QED BY <2>1, <2>2 DEF Tokens
<1> DEFINE leaf == [u \in Leaves(raw) |-> EvalLeaf(u, fs, lists)]
           M == Grammar(raw, leaf)
<1>2. Means(raw, fs, lists) = Meaning(raw, leaf)
  BY <1>1 DEF Means
<1>3. Readable(raw, leaf)
  BY <1>1, TokensAreReadable
<1>4. t \in Leaves(raw) /\ Len(raw) = 1 /\ raw[1] = t /\ raw # <<>>
  BY <1>0 DEF Leaves, Range
<1>5. leaf[raw[1]] = Value(TRUE)
  BY <1>0, <1>4
<1> HIDE DEF leaf
<1>6. M = MeaningStep(raw, leaf, M)
  BY <1>3, GrammarSteps
<1> HIDE DEF M
<1>7. <<1, 1>> \in Spans(raw) /\ <<1, 1>>[1] = 1 /\ <<1, 1>>[2] = 1
  BY <1>4 DEF Spans
<1>8. UnaryMeaning(raw, leaf, M, 1, 1) = {TRUE}
  <2>1. raw[1].kind = "leaf" /\ leaf[raw[1]].ok /\ leaf[raw[1]].value = TRUE
    BY <1>0, <1>4, <1>5 DEF Value
  <2> QED BY <2>1 DEF UnaryMeaning
<1>9. AndMeaning(raw, M, 1, 1) = {} /\ OrMeaning(raw, M, 1, 1) = {}
  <2>1. \A k : Operators(raw, k, 1, 1) = {}
    BY DEF Operators
  <2> QED BY <2>1 DEF AndMeaning, OrMeaning
<1>10. M[<<1, 1>>].or = {TRUE}
  <2>1. M[<<1, 1>>].or = (UnaryMeaning(raw, leaf, M, 1, 1) \cup AndMeaning(raw, M, 1, 1))
                            \cup OrMeaning(raw, M, 1, 1)
    <3>1. M[<<1, 1>>] = MeaningStep(raw, leaf, M)[<<1, 1>>]
      BY <1>6
    <3>2. MeaningStep(raw, leaf, M)[<<1, 1>>] =
            [or |-> (UnaryMeaning(raw, leaf, M, 1, 1) \cup AndMeaning(raw, M, 1, 1))
                        \cup OrMeaning(raw, M, 1, 1),
             and |-> UnaryMeaning(raw, leaf, M, 1, 1) \cup AndMeaning(raw, M, 1, 1),
             unary |-> UnaryMeaning(raw, leaf, M, 1, 1)]
      BY <1>7 DEF MeaningStep
    <3> QED BY <3>1, <3>2
  <2> QED BY <1>8, <1>9, <2>1
<1> QED BY <1>2, <1>4, <1>10 DEF Meaning, M

LEMMA Detected ==
    ASSUME NEW m, NEW res, NEW w \in DOMAIN res, res[w].detected = TRUE, NEW lists
    PROVE  EvalLeaf(Text(0, Compare("eq", <<"detected", w>>, Bool(TRUE))), Facts(m, res), lists) = Value(TRUE)
<1> DEFINE k == <<"detected", w>>
           t == Text(0, Compare("eq", k, Bool(TRUE)))
           fs == Facts(m, res)
<1>1. k \in DOMAIN fs /\ fs[k] = Bool(TRUE)
  <2>1. k \in {"detected", "score"} \X DOMAIN res
    OBVIOUS
  <2> QED BY <2>1 DEF Facts
<1>2. /\ t.nots = 0 /\ t.leaf = Compare("eq", k, Bool(TRUE))
      /\ t.leaf.op = "eq" /\ t.leaf.key = k /\ t.leaf.val = Bool(TRUE)
  BY DEF Text, Compare
<1> HIDE DEF k, t, fs
<1>3. EvalLeaf(t, fs, lists) = Value(TRUE)
  BY <1>1, <1>2 DEF EvalLeaf, Numeric
<1> QED BY <1>3 DEF k, t, fs

LEMMA DetectionDecides ==
    ASSUME EvaluationTyped, RouteInv, PolicyInv, DecisionIsFirstMatch, HeedInv
    PROVE  DetectionIsHeeded
<1> DEFINE leaf(w) == Text(0, Compare("eq", <<"detected", w>>, Bool(TRUE)))
<1> SUFFICES ASSUME stage = "decided", route # 0, NEW w \in DOMAIN found, NEW k \in Enabled(Policy),
                    found[w], Earlier(Policy, k) = {}, Policy[k].condition = <<leaf(w)>>,
                    Policy[k].specs[1].type = "quarantine"
             PROVE  action = "quarantine"
  BY Zenon DEF DetectionIsHeeded
<1>1. Policy \in Seq(PolicyRules)
  BY PolicyTyped
<1>2. /\ IsFiniteSet(Enabled(Policy)) /\ k \in DOMAIN Policy /\ Policy[k] \in PolicyRules
      /\ Policy[k].condition \in Seq(RawWords)
  <2>1. IsFiniteSet(Enabled(Policy))
    BY <1>1, PolicyOrdered
  <2>2. k \in DOMAIN Policy /\ Policy[k] \in PolicyRules
    BY <1>1 DEF Enabled
  <2>3. \A r \in PolicyRules : r.condition \in Seq(RawWords)
    BY DEF PolicyRules
  <2> QED BY <2>1, <2>2, <2>3
<1>3. CASE next = 1
  <2>1. Len(rules) = Cardinality(Enabled(Policy))
    BY <1>1, RulesAreOrdered DEF PolicyInv
  <2>2. Cardinality(Enabled(Policy)) # 0
    BY <1>2, FS_EmptySet
  <2> QED BY <1>3, <2>1, <2>2 DEF HeedInv
<1>4. CASE next > 1
  <2>1. Policy[k].specs # <<>>
    <3>1. route \in InForce
      BY FirstOfHits DEF EvaluationTyped, RouteInv
    <3>2. CanBuild(setup.routes[route])
      BY <3>1 DEF HeedInv, InForce
    <3> QED BY <3>2 DEF CanBuild, ValidRule, Policy
  <2>2. Min(EndsAt(Policy[k])) = 1 /\ 1 \in EndsAt(Policy[k])
    <3>1. PICK specs \in Seq(ActionSpecs) : specs = Policy[k].specs
      BY <1>2 DEF PolicyRules
    <3>2. 1 \in DOMAIN specs /\ DOMAIN specs \subseteq Nat \ {0}
      BY <2>1, <3>1
    <3>3. EndsAt(Policy[k]) \subseteq Nat \ {0} /\ 1 \in EndsAt(Policy[k])
      BY <3>1, <3>2 DEF EndsAt, Terminal
    <3>4. /\ Min(EndsAt(Policy[k])) \in EndsAt(Policy[k])
          /\ \A m \in EndsAt(Policy[k]) : Min(EndsAt(Policy[k])) <= m
      <4>1. EndsAt(Policy[k]) \subseteq Nat /\ EndsAt(Policy[k]) # {}
        BY <3>3
      <4> QED BY <4>1, LeastOf
    <3> QED BY <3>3, <3>4
  <2>3. w \in DOMAIN results /\ results[w].detected = TRUE
    BY DEF HeedInv
  <2>4. Means(Policy[k].condition, Facts(MailBefore(k), results), Lists) = {TRUE}
    <3>1. EvalLeaf(leaf(w), Facts(MailBefore(k), results), Lists) = Value(TRUE)
      BY <2>3, Detected
    <3>2. leaf(w).kind = "leaf" /\ leaf(w).nots = 0
      BY DEF Text
    <3>3. PICK t : t = leaf(w)
      OBVIOUS
    <3>4. PICK raw \in Seq(RawWords) : raw = Policy[k].condition
      BY <1>2
    <3> HIDE DEF leaf
    <3>5. raw = <<raw[1]>> /\ raw[1] = t
      BY <3>3, <3>4
    <3>6. Means(raw, Facts(MailBefore(k), results), Lists) = {TRUE}
      BY <3>1, <3>2, <3>3, <3>5, OneLeaf
    <3> QED BY <3>4, <3>6
  <2>5. k \in Ends
    BY <2>2, <2>4 DEF Ends, Decisive
  <2>6. PICK i \in Ends : DecidedBy(Policy, Ends, MailBefore(i), i, action, mail)
    BY <1>4, <2>5, DecisionAs
  <2>7. i = k
    <3>1. ASSUME i # k PROVE FALSE
      <4>1. Before(Policy, i, k)
        BY <2>5, <2>6, <3>1 DEF DecidedBy
      <4>2. i \in Earlier(Policy, k)
        BY <4>1 DEF Earlier, Ends
      <4> QED BY <4>2
    <3> QED BY <3>1
  <2> QED BY <2>2, <2>6, <2>7 DEF DecidedBy
<1>5. next = 1 \/ next > 1
  BY DEF EvaluationTyped, EvaluationTypeOK
<1> QED BY <1>3, <1>4, <1>5

\* A worker's detection is never lost to what becomes of the others: the policy
\* whose first rule quarantines upon it quarantines the mail (inspect.go Run).
THEOREM DetectionsCount == EvaluationSpec => []DetectionIsHeeded
<1> DEFINE Inv == EvaluationTyped /\ RouteInv /\ PolicyInv /\ DecisionIsFirstMatch /\ HeedInv
<1>1. EvaluationInit => Inv
  BY EvaluationStarts, HeedStarts DEF EvaluationInit, PolicyInv, DecisionIsFirstMatch
<1>2. Inv /\ [EvaluationNext]_evaluationVars => Inv'
  BY EvaluationStaysTyped, RouteStays, PolicyStays, DecisionStays, HeedStays
<1>3. Inv => DetectionIsHeeded
  BY DetectionDecides
<1> QED BY <1>1, <1>2, <1>3, PTL DEF EvaluationSpec

-----------------------------------------------------------------------------
(* Reloads and policy edits.                                               *)

Busy(e) == edit[e].at # "idle" \/ reload[e].at # "none"

\* A request knows what it writes; the steps of db mode stay in db mode.
Typed ==
    /\ TypeOK
    /\ \A e \in Editors : edit[e].at # "idle" => edit[e].doc \in Docs
    /\ mode = "file" => gateway.at \in {"down", "up"}

EditRecords == [at : {"idle", "write", "call", "restore"}, route : Routes,
                doc : Docs \cup {NoDoc}, backup : Docs \cup {NoDoc}]
ReloadRecords == [at : {"none", "parse", "store", "ok", "error"},
                  engines : [Routes -> Loadable \cup {NoDoc}], left : SUBSET Routes]
Gateways == [at : {"down", "arming", "up", "reload"}, applied : Buildable \cup {NoVersion},
             last : Versions \cup {NoVersion}, polled : Versions \cup {NoVersion}]

\* The two halves of Typed: what the steps in db mode change ...
DbTyped ==
    /\ mode \in {"db", "file"}
    /\ active \in Versions \cup {NoVersion}
    /\ gateway \in Gateways
    /\ mode = "file" => gateway.at \in {"down", "up"}
    /\ missed \in BOOLEAN

\* ... and what the others do.
FileTyped ==
    /\ files \in [Routes -> Docs]
    /\ running \in [Routes -> Loadable \cup {NoDoc}]
    /\ history \subseteq Routes \X Docs
    /\ edit \in [Editors -> EditRecords]
    /\ reload \in [Editors -> ReloadRecords]
    /\ \A e \in Editors : edit[e].at # "idle" => edit[e].doc \in Docs
    /\ overlap \in BOOLEAN /\ faulty \in BOOLEAN

LEMMA Typings == Typed <=> DbTyped /\ FileTyped /\ events \in 0..MaxEvents
  BY DEF Typed, TypeOK, DbTyped, FileTyped, EditRecords, ReloadRecords, Gateways

LEMMA TypingsNext == ASSUME DbTyped', FileTyped', events' \in 0..MaxEvents PROVE Typed'
  BY DEF Typed, TypeOK, DbTyped, FileTyped, EditRecords, ReloadRecords, Gateways

LEMMA Blank ==
    /\ NoEdit \in EditRecords /\ NoEdit.at = "idle"
    /\ NoReload \in ReloadRecords /\ NoReload.at = "none"
    /\ Down \in Gateways /\ Down.at = "down"
<1>1. (CHOOSE r \in Routes : TRUE) \in Routes
  BY RouteReloadAssumption
<1> QED
  BY <1>1 DEF NoEdit, NoReload, Down, EditRecords, ReloadRecords, Gateways

LEMMA Ended ==
    ASSUME NEW step \in {"none", "parse", "store", "ok", "error"}, NEW left \in SUBSET Routes
    PROVE  /\ [NoReload EXCEPT !.at = step] \in ReloadRecords
           /\ [NoReload EXCEPT !.at = step].at = step
           /\ [NoReload EXCEPT !.at = step, !.left = left] \in ReloadRecords
           /\ [NoReload EXCEPT !.at = step, !.left = left].at = step
           /\ [NoReload EXCEPT !.at = step, !.left = left].left = left
  BY DEF NoReload, ReloadRecords

LEMMA Shrunk ==
    ASSUME NEW k \in ReloadRecords, NEW r
    PROVE  /\ [k EXCEPT !.left = @ \ {r}] \in ReloadRecords
           /\ [k EXCEPT !.left = @ \ {r}].at = k.at
           /\ [k EXCEPT !.left = @ \ {r}].engines = k.engines
           /\ [k EXCEPT !.left = @ \ {r}].left = k.left \ {r}
  BY DEF ReloadRecords

LEMMA InitTyped == Init => Typed
<1> SUFFICES ASSUME Init PROVE DbTyped /\ FileTyped /\ events \in 0..MaxEvents
  BY Typings
<1>1. DbTyped
  BY Blank DEF Init, DbTyped
<1>2. FileTyped
  BY Blank, RouteReloadAssumption DEF Init, FileTyped
<1> QED
  BY <1>1, <1>2, RouteReloadAssumption DEF Init

LEMMA TypedStep == ASSUME Typed, [Next]_vars PROVE Typed'
<1> USE RouteReloadAssumption, Blank DEF dbVars, fileVars, Event
<1>0. DbTyped /\ FileTyped /\ events \in 0..MaxEvents
  BY Typings
<1>1. ASSUME DbTyped', UNCHANGED fileVars, events' \in 0..MaxEvents PROVE Typed'
  <2>1. FileTyped'
    BY <1>0, <1>1 DEF FileTyped
  <2> QED
    BY <1>1, <2>1, TypingsNext
<1>2. ASSUME FileTyped', UNCHANGED <<mode, dbVars>>, events' \in 0..MaxEvents PROVE Typed'
  <2>1. DbTyped'
    BY <1>0, <1>2 DEF DbTyped
  <2> QED
    BY <1>2, <2>1, TypingsNext
<1>3. CASE Activate
  BY <1>0, <1>1, <1>3 DEF Activate, DbTyped
<1>4. CASE StartDb
  BY <1>0, <1>1, <1>4 DEF StartDb, Runnable, DbTyped, Gateways
<1>5. CASE Arm
  <2>1. PICK seen \in Versions \cup {NoVersion} :
            gateway' = [gateway EXCEPT !.at = "up", !.last = seen]
    BY <1>0, <1>5 DEF Arm, DbTyped
  <2>2. gateway' \in Gateways /\ missed' \in BOOLEAN
    BY <1>0, <1>5, <2>1 DEF Arm, DbTyped, Gateways
  <2>3. mode # "file"
    BY <1>0, <1>5 DEF Arm, DbTyped
  <2> QED
    BY <1>0, <1>1, <1>5, <2>2, <2>3 DEF Arm, DbTyped
<1>6. CASE Poll
  BY <1>0, <1>1, <1>6 DEF Poll, DbTyped, Gateways
<1>7. CASE Reload
  BY <1>0, <1>1, <1>7 DEF Reload, Runnable, DbTyped, Gateways
<1>8. CASE ReloadFails
  BY <1>0, <1>1, <1>8 DEF ReloadFails, DbTyped, Gateways
<1>9. ASSUME NEW e \in Editors, NEW r \in Routes, NEW d \in Docs, Begin(e, r, d) PROVE Typed'
  BY <1>0, <1>2, <1>9 DEF Begin, FileTyped, EditRecords
<1>10. ASSUME NEW e \in Editors, HandleUpdateRoute(e) \/ HandleRollback(e) PROVE Typed'
  <2>1. \E r \in Routes, d \in Docs : Begin(e, r, d)
    BY <1>0, <1>10 DEF HandleUpdateRoute, HandleRollback, FileTyped
  <2> QED
    BY <1>9, <2>1
<1>11. ASSUME NEW e \in Editors, WriteFile(e) PROVE Typed'
  <2>1. PICK k \in ReloadRecords : reload' = [reload EXCEPT ![e] = k]
    BY <1>11, Ended DEF WriteFile
  <2>2. edit[e].route \in Routes /\ edit[e].doc \in Docs
        /\ [edit[e] EXCEPT !.at = "call"] \in EditRecords
        /\ [edit[e] EXCEPT !.at = "call"].doc = edit[e].doc
    BY <1>0, <1>11 DEF WriteFile, FileTyped, EditRecords
  <2>3. files' \in [Routes -> Docs] /\ edit' \in [Editors -> EditRecords]
        /\ \A f \in Editors : edit'[f].at # "idle" => edit'[f].doc \in Docs
    BY <1>0, <1>11, <2>2 DEF WriteFile, FileTyped
  <2> QED
    BY <1>0, <1>2, <1>11, <2>1, <2>3 DEF WriteFile, FileTyped
<1>12. ASSUME NEW e \in Editors, WriteFails(e) \/ Accepted(e) \/ Abandon(e) \/ Dropped(e)
       PROVE  Typed'
  <2>1. edit' = [edit EXCEPT ![e] = NoEdit] \/ edit' = edit
    BY <1>12 DEF WriteFails, Accepted, Abandon, Dropped
  <2>2. reload' = [reload EXCEPT ![e] = NoReload] \/ reload' = reload
    BY <1>12 DEF WriteFails, Accepted, Abandon, Dropped
  <2>3. UNCHANGED <<mode, active, gateway, missed, files, running, history, overlap>>
    BY <1>12 DEF WriteFails, Accepted, Abandon, Dropped
  <2>4. faulty' = TRUE \/ faulty' = faulty
    BY <1>12 DEF WriteFails, Accepted, Abandon, Dropped
  <2>5. events' \in 0..MaxEvents
    BY <1>0, <1>12 DEF WriteFails, Accepted, Abandon, Dropped
  <2> QED
    BY <1>0, <1>2, <2>1, <2>2, <2>3, <2>4, <2>5 DEF FileTyped
<1>13. ASSUME NEW e \in Editors, Restore(e) PROVE Typed'
  BY <1>0, <1>2, <1>13 DEF Restore, FileTyped, EditRecords
<1>14. ASSUME NEW e \in Editors, Timeout(e) PROVE Typed'
  <2>1. /\ [edit[e] EXCEPT !.at = "restore"] \in EditRecords
        /\ [edit[e] EXCEPT !.at = "restore"].doc = edit[e].doc /\ edit[e].doc \in Docs
    BY <1>0, <1>14 DEF Timeout, FileTyped, EditRecords
  <2> QED
    BY <1>0, <1>2, <1>14, <2>1 DEF Timeout, FileTyped
<1>15. ASSUME NEW e \in Editors, NEW r \in Routes, Parse(e, r) PROVE Typed'
  BY <1>0, <1>2, <1>15, ZenonT(60) DEF Parse, FileTyped, ReloadRecords
<1>16. ASSUME NEW e \in Editors, NEW r \in Routes, ParseFails(e, r) PROVE Typed'
  BY <1>0, <1>2, <1>16, Ended DEF ParseFails, FileTyped
<1>17. ASSUME NEW e \in Editors, NEW r \in Routes, Store(e, r) PROVE Typed'
  <2>0. reload[e] \in ReloadRecords
    BY <1>0 DEF FileTyped
  <2>1. reload[e].engines[r] \in Loadable \cup {NoDoc}
        /\ [reload[e] EXCEPT !.left = @ \ {r}] \in ReloadRecords
    BY <2>0, Shrunk DEF ReloadRecords
  <2>2. PICK k \in ReloadRecords : reload' = [reload EXCEPT ![e] = k]
    BY <1>17, <2>1, Ended DEF Store
  <2> QED
    BY <1>0, <1>2, <1>17, <2>1, <2>2 DEF Store, FileTyped
<1>18. CASE StartFiles
  <2>1. DbTyped'
    BY <1>0, <1>18 DEF StartFiles, DbTyped, Gateways
  <2>2. FileTyped'
    BY <1>0, <1>18 DEF StartFiles, FileTyped
  <2> QED
    BY <1>0, <1>18, <2>1, <2>2, TypingsNext DEF StartFiles
<1>19. CASE GatewayCrash
  <2>1. DbTyped'
    BY <1>0, <1>19 DEF GatewayCrash, DbTyped
  <2>2. FileTyped'
    BY <1>0, <1>19, Ended DEF GatewayCrash, FileTyped
  <2> QED
    BY <1>0, <1>19, <2>1, <2>2, TypingsNext DEF GatewayCrash
<1>20. CASE UNCHANGED vars
  BY <1>0, <1>1, <1>20 DEF vars, DbTyped
<1> QED
  BY <1>3, <1>4, <1>5, <1>6, <1>7, <1>8, <1>10, <1>11, <1>12, <1>13, <1>14, <1>15, <1>16, <1>17,
     <1>18, <1>19, <1>20 DEF Next, Database, Request, ReloadPolicies

\* Every variable keeps its type: no engine is ever made of a policy that does
\* not load, and no version runs that cannot be built.
THEOREM TypeCorrect == Spec => []TypeOK
<1>1. Typed /\ [Next]_vars => Typed'
  BY TypedStep
<1>2. Typed => TypeOK
  BY DEF Typed
<1> QED
  BY InitTyped, <1>1, <1>2, PTL DEF Spec

-----------------------------------------------------------------------------
(* Edits one after the other.                                              *)

Fine == ~overlap /\ ~faulty

\* Without an overlap one request is at work, or none.
Alone == ~overlap => \A e, f \in Editors : Busy(e) /\ Busy(f) => e = f

\* The files are good, and what runs is what they hold.
GoodFiles(content) ==
    /\ \A r \in Routes : content[r] \in Loadable
    /\ gateway.at = "up" => running = content

\* The files as they were before the request wrote its own.
Previous(e) == [files EXCEPT ![edit[e].route] = edit[e].backup]

\* What is known while the request e is at work alone, and nothing has failed.
Phase(e) ==
    \/ /\ edit[e].at = "write" /\ reload[e].at = "none"
       /\ edit[e].backup = files[edit[e].route]
       /\ GoodFiles(files)
    \/ /\ edit[e].at = "call" /\ reload[e].at = "error"
       /\ GoodFiles(Previous(e))
    \/ /\ edit[e].at = "call" /\ reload[e].at = "parse"
       /\ gateway.at = "up" /\ GoodFiles(Previous(e))
       /\ reload[e].left # {}
       /\ \A r \in Routes \ reload[e].left :
              reload[e].engines[r] = files[r] /\ files[r] \in Loadable
    \/ /\ edit[e].at = "call" /\ reload[e].at = "store"
       /\ \A r \in Routes : Previous(e)[r] \in Loadable /\ files[r] \in Loadable
       /\ reload[e].left # {}
       /\ reload[e].engines = files
       /\ \A r \in Routes : r \notin reload[e].left \/ r # edit[e].route => running[r] = files[r]
    \/ /\ edit[e].at = "call" /\ reload[e].at = "ok"
       /\ \A r \in Routes : Previous(e)[r] \in Loadable
       /\ GoodFiles(files)

\* Nobody edits in db mode.
Sound ==
    Fine => /\ Quiet /\ mode = "file" => GoodFiles(files)
            /\ mode = "db" => Quiet /\ \A r \in Routes : files[r] \in Loadable
            /\ \A e \in Editors : Busy(e) => Phase(e)

IInv == Typed /\ Alone /\ Sound

LEMMA InitIInv == Init => IInv
<1> SUFFICES ASSUME Init PROVE Alone /\ Sound
  BY InitTyped DEF IInv
<1> QED
  BY Blank, RouteReloadAssumption DEF Init, Alone, Sound, Busy, Quiet, GoodFiles

LEMMA AloneStep == ASSUME Typed, Alone, [Next]_vars PROVE Alone'
<1> USE Blank DEF Busy, dbVars, fileVars
<1>0. DbTyped /\ FileTyped
  BY Typings
<1>1. ASSUME overlap' = overlap, \A e \in Editors : Busy(e)' => Busy(e)
      PROVE  Alone'
  BY <1>1 DEF Alone
<1>2. CASE Database \/ UNCHANGED vars
  BY <1>1, <1>2 DEF Database, Activate, StartDb, Arm, Poll, Reload, ReloadFails, vars
<1>3. ASSUME NEW e \in Editors, NEW r, NEW d, Begin(e, r, d) PROVE Alone'
  <2>1. ~overlap' => Quiet
    BY <1>3 DEF Begin
  <2>2. \A f \in Editors \ {e} : edit'[f] = edit[f] /\ reload'[f] = reload[f]
    BY <1>0, <1>3 DEF Begin, FileTyped
  <2> QED
    BY <2>1, <2>2 DEF Alone, Quiet
<1>4. ASSUME NEW e \in Editors,
             \/ WriteFile(e) \/ WriteFails(e) \/ Accepted(e) \/ Restore(e) \/ Timeout(e)
             \/ Abandon(e) \/ Dropped(e)
             \/ \E r \in Routes : Parse(e, r) \/ ParseFails(e, r) \/ Store(e, r)
      PROVE  Alone'
  <2>1. \A f \in Editors \ {e} : edit'[f] = edit[f] /\ reload'[f] = reload[f]
    BY <1>0, <1>4 DEF WriteFile, WriteFails, Accepted, Restore, Timeout, Abandon, Dropped, Parse,
                      ParseFails, Store, FileTyped
  <2>2. Busy(e) /\ overlap' = overlap
    BY <1>4 DEF WriteFile, WriteFails, Accepted, Restore, Timeout, Abandon, Dropped, Parse,
                ParseFails, Store
  <2> QED
    BY <1>1, <2>1, <2>2
<1>5. CASE StartFiles
  BY <1>5 DEF StartFiles, Alone, Quiet
<1>6. CASE GatewayCrash
  BY <1>0, <1>1, <1>6 DEF GatewayCrash, FileTyped
<1> QED
  BY <1>2, <1>3, <1>4, <1>5, <1>6 DEF Next, Request, ReloadPolicies, HandleUpdateRoute,
                                      HandleRollback

\* A step of the one request at work: it stays in a phase, or leaves good files.
LEMMA OneWorks ==
    ASSUME Alone, Sound, NEW e \in Editors, Busy(e), UNCHANGED <<mode, overlap>>, ~faulty' => ~faulty,
           \A f \in Editors \ {e} : edit'[f] = edit[f] /\ reload'[f] = reload[f],
           Fine /\ ~faulty' /\ Phase(e) /\ mode # "db" =>
              IF Busy(e)' THEN Phase(e)' ELSE GoodFiles(files)'
    PROVE  Sound'
<1> SUFFICES ASSUME Fine'
             PROVE  /\ (Quiet /\ mode = "file" => GoodFiles(files))'
                    /\ (mode = "db" => Quiet /\ \A r \in Routes : files[r] \in Loadable)'
                    /\ \A f \in Editors : Busy(f)' => Phase(f)'
  BY DEF Sound
<1>1. Fine /\ ~faulty'
  BY DEF Fine
<1>2. Phase(e) /\ mode # "db"
  BY <1>1 DEF Sound, Quiet, Busy
<1>3. ASSUME NEW f \in Editors \ {e} PROVE ~Busy(f)'
  BY <1>1, <1>3 DEF Alone, Busy, Fine
<1>4. Quiet' => ~Busy(e)'
  BY DEF Quiet, Busy
<1> QED
  BY <1>1, <1>2, <1>3, <1>4

LEMMA SoundStep == ASSUME Typed, Alone, Sound, [Next]_vars PROVE Sound'
<1> USE Blank, RouteReloadAssumption DEF Busy, dbVars, fileVars
<1>0. DbTyped /\ FileTyped
  BY Typings
<1>1. ASSUME NEW e \in Editors
      PROVE  /\ edit[e] \in EditRecords /\ reload[e] \in ReloadRecords
             /\ edit[e].route \in Routes
  BY <1>0 DEF FileTyped, EditRecords
<1>2. CASE Database \/ UNCHANGED vars
  <2>1. UNCHANGED <<mode, fileVars>>
    BY <1>2 DEF Database, Activate, StartDb, Arm, Poll, Reload, ReloadFails, vars
  <2>2. CASE mode = "db"
    <3>1. UNCHANGED <<Quiet, Fine>>
      BY <2>1 DEF Quiet, Fine
    <3> QED
      BY <2>1, <2>2, <3>1 DEF Sound, Quiet
  <2>3. CASE mode = "file"
    <3>1. gateway' = gateway
      BY <1>0, <1>2, <2>3 DEF Database, Activate, StartDb, Arm, Poll, Reload, ReloadFails, vars, DbTyped
    <3> QED
      BY <2>1, <3>1 DEF Sound, Phase, GoodFiles, Previous, Quiet, Fine
  <2> QED
    BY <2>2, <2>3, <1>0 DEF DbTyped
<1>3. ASSUME NEW e \in Editors, NEW r, NEW d, Begin(e, r, d) PROVE Sound'
  <2>1. \A f \in Editors \ {e} : edit'[f] = edit[f] /\ reload'[f] = reload[f]
    BY <1>0, <1>3 DEF Begin, FileTyped
  <2>2. Busy(e)' /\ ~Quiet'
    BY <1>0, <1>3 DEF Begin, FileTyped, Quiet
  <2>3. SUFFICES ASSUME Fine' PROVE Phase(e)' /\ \A f \in Editors \ {e} : ~Busy(f)'
    BY <1>3, <2>2 DEF Sound, Begin
  <2>4. Fine /\ Quiet
    BY <1>3, <2>3 DEF Begin, Fine
  <2>5. edit'[e].at = "write" /\ reload'[e].at = "none" /\ edit'[e].backup = files'[edit'[e].route]
    <3>1. edit'[e] = [at |-> "write", route |-> r, doc |-> d, backup |-> files[r]]
      BY <1>0, <1>3, <2>3 DEF Begin, FileTyped, Fine
    <3>2. reload' = reload /\ files' = files /\ reload[e].at = "none"
      BY <1>3 DEF Begin
    <3> QED
      BY <3>1, <3>2
  <2>6. GoodFiles(files)'
    BY <1>3, <2>4 DEF Begin, Sound, GoodFiles
  <2> QED
    BY <2>1, <2>4, <2>5, <2>6 DEF Phase, Quiet
<1>4. ASSUME NEW e \in Editors,
             \/ WriteFile(e) \/ WriteFails(e) \/ Accepted(e) \/ Restore(e) \/ Timeout(e)
             \/ Abandon(e) \/ Dropped(e)
             \/ \E r \in Routes : Parse(e, r) \/ ParseFails(e, r) \/ Store(e, r)
      PROVE  /\ \A f \in Editors \ {e} : edit'[f] = edit[f] /\ reload'[f] = reload[f]
             /\ Busy(e) /\ UNCHANGED <<mode, gateway, overlap>> /\ (~faulty' => ~faulty)
  BY <1>0, <1>4 DEF WriteFile, WriteFails, Accepted, Restore, Timeout, Abandon, Dropped, Parse,
                    ParseFails, Store, FileTyped
<1>5. ASSUME NEW e \in Editors, WriteFile(e) PROVE Sound'
  <2>1. ASSUME Phase(e), mode # "db" PROVE Busy(e)' /\ Phase(e)'
    <3>1. /\ edit'[e].at = "call" /\ edit'[e].route = edit[e].route
          /\ edit'[e].backup = edit[e].backup
      BY <1>0, <1>1, <1>5 DEF WriteFile, FileTyped, EditRecords
    <3>2. Previous(e)' = files
      BY <1>0, <1>1, <1>5, <2>1, <3>1 DEF WriteFile, Previous, Phase, FileTyped
    <3>3. GoodFiles(Previous(e))'
      BY <1>5, <2>1, <3>2 DEF WriteFile, GoodFiles, Phase
    <3>4. \/ reload'[e].at = "error"
          \/ reload'[e].at = "parse" /\ reload'[e].left = Routes /\ gateway.at # "down"
      <4>1. reload'[e] = IF gateway.at = "down" THEN [NoReload EXCEPT !.at = "error"]
                         ELSE [NoReload EXCEPT !.at = "parse", !.left = Routes]
        BY <1>0, <1>5 DEF WriteFile, FileTyped
      <4>2. CASE gateway.at = "down"
        BY <4>1, <4>2, Ended
      <4>3. CASE gateway.at # "down"
        <5>1. reload'[e] = [NoReload EXCEPT !.at = "parse", !.left = Routes]
          BY <4>1, <4>3
        <5> QED
          BY <4>3, <5>1 DEF NoReload
      <4> QED
        BY <4>2, <4>3
    <3>5. Busy(e)'
      BY <3>1
    <3>6. gateway' = gateway /\ gateway.at \in {"up", "down"}
      BY <1>0, <1>4, <1>5, <2>1 DEF DbTyped
    <3> QED
      BY <2>1, <3>1, <3>3, <3>4, <3>5, <3>6 DEF Phase
  <2> QED
    BY <1>4, <1>5, <2>1, OneWorks
<1>6. ASSUME NEW e \in Editors, WriteFails(e) PROVE Sound'
  <2>1. ASSUME Phase(e) PROVE ~Busy(e)' /\ GoodFiles(files)'
    BY <1>0, <1>6, <2>1 DEF WriteFails, Phase, GoodFiles, FileTyped
  <2> QED
    BY <1>4, <1>6, <2>1, OneWorks
<1>7. ASSUME NEW e \in Editors, Accepted(e) PROVE Sound'
  <2>1. ASSUME Phase(e) PROVE ~Busy(e)' /\ GoodFiles(files)'
    BY <1>0, <1>7, <2>1 DEF Accepted, Phase, GoodFiles, FileTyped
  <2> QED
    BY <1>4, <1>7, <2>1, OneWorks
<1>8. ASSUME NEW e \in Editors, Restore(e) PROVE Sound'
  <2>1. ASSUME Phase(e) PROVE ~Busy(e)' /\ GoodFiles(files)'
    <3>1. edit[e].at = "call" /\ reload[e].at = "error" /\ GoodFiles(Previous(e))
      BY <1>8, <2>1 DEF Restore, Phase
    <3>2. Previous(e)[edit[e].route] = edit[e].backup
      BY <1>0, <1>1 DEF Previous, FileTyped
    <3>3. edit[e].backup # NoDoc
      BY <1>1, <3>1, <3>2 DEF GoodFiles
    <3> QED
      BY <1>0, <1>8, <3>1, <3>3 DEF Restore, GoodFiles, Previous, FileTyped
  <2> QED
    BY <1>4, <1>8, <2>1, OneWorks
<1>9. ASSUME NEW e \in Editors, Timeout(e) \/ Abandon(e) PROVE Sound'
  BY <1>9 DEF Timeout, Abandon, Sound, Fine
<1>10. ASSUME NEW e \in Editors, Dropped(e) PROVE Sound'
  <2>1. ~Phase(e)
    BY <1>10 DEF Dropped, Phase
  <2> QED
    BY <1>4, <1>10, <2>1, OneWorks
<1>11. ASSUME NEW e \in Editors, NEW r \in Routes, Parse(e, r) PROVE Sound'
  <2>1. ASSUME Phase(e) PROVE Busy(e)' /\ Phase(e)'
    <3>1. /\ edit[e].at = "call" /\ gateway.at = "up" /\ GoodFiles(Previous(e))
          /\ \A s \in Routes \ reload[e].left :
                 reload[e].engines[s] = files[s] /\ files[s] \in Loadable
      BY <1>11, <2>1 DEF Parse, Phase
    <3>2. UNCHANGED <<edit, files, gateway, running>> /\ Previous(e)' = Previous(e)
      BY <1>4, <1>11 DEF Parse, Previous
    <3>3. /\ reload'[e].engines = [reload[e].engines EXCEPT ![r] = files[r]]
          /\ reload'[e].left = IF reload[e].left = {r} THEN Routes ELSE reload[e].left \ {r}
          /\ reload'[e].at = IF reload[e].left = {r} THEN "store" ELSE "parse"
      BY <1>0, <1>1, <1>11 DEF Parse, FileTyped, ReloadRecords
    <3>4. \A s \in Routes : s \notin reload[e].left \/ s = r =>
              reload'[e].engines[s] = files[s] /\ files[s] \in Loadable
      <4>1. reload[e].engines \in [Routes -> Loadable \cup {NoDoc}] /\ files[r] \in Loadable
        BY <1>1, <1>11 DEF Parse, ReloadRecords
      <4> QED
        BY <3>1, <3>3, <4>1
    <3>5. CASE reload[e].left = {r}
      <4>1. \A s \in Routes : reload'[e].engines[s] = files[s] /\ files[s] \in Loadable
        BY <3>4, <3>5
      <4>2. reload'[e].engines = files
        BY <1>0, <1>1, <3>3, <4>1 DEF ReloadRecords, FileTyped
      <4>3. \A s \in Routes : Previous(e)[s] \in Loadable /\ running = Previous(e)
        BY <3>1 DEF GoodFiles
      <4>4. \A s \in Routes : s # edit[e].route => running[s] = files[s]
        BY <1>0, <4>3 DEF Previous, FileTyped
      <4> QED
        BY <3>1, <3>2, <3>3, <3>5, <4>1, <4>2, <4>3, <4>4, RouteReloadAssumption DEF Phase
    <3>6. CASE reload[e].left # {r}
      <4>1. reload'[e].left # {}
        <5>1. r \in reload[e].left
          BY <1>11 DEF Parse
        <5> QED
          BY <3>3, <3>6, <5>1
      <4>2. GoodFiles(Previous(e))'
        BY <3>1, <3>2 DEF GoodFiles
      <4> QED
        BY <3>1, <3>2, <3>3, <3>4, <3>6, <4>1, <4>2 DEF Phase
    <3> QED
      BY <3>5, <3>6
  <2> QED
    BY <1>4, <1>11, <2>1, OneWorks
<1>12. ASSUME NEW e \in Editors, NEW r \in Routes, ParseFails(e, r) PROVE Sound'
  <2>1. ASSUME Phase(e) PROVE Busy(e)' /\ Phase(e)'
    <3>1. edit[e].at = "call" /\ GoodFiles(Previous(e))
      BY <1>12, <2>1 DEF ParseFails, Phase
    <3>2. UNCHANGED <<edit, files, gateway, running>> /\ Previous(e)' = Previous(e)
      BY <1>4, <1>12 DEF ParseFails, Previous
    <3>3. reload'[e].at = "error"
      BY <1>0, <1>12, Ended DEF ParseFails, FileTyped
    <3> QED
      BY <3>1, <3>2, <3>3 DEF Phase, GoodFiles
  <2> QED
    BY <1>4, <1>12, <2>1, OneWorks
<1>13. ASSUME NEW e \in Editors, NEW r \in Routes, Store(e, r) PROVE Sound'
  <2>1. ASSUME Phase(e) PROVE Busy(e)' /\ Phase(e)'
    <3>1. /\ edit[e].at = "call"
          /\ \A s \in Routes : Previous(e)[s] \in Loadable /\ files[s] \in Loadable
          /\ reload[e].engines = files
          /\ \A s \in Routes : s \notin reload[e].left \/ s # edit[e].route =>
                 running[s] = files[s]
      BY <1>13, <2>1 DEF Store, Phase
    <3>2. UNCHANGED <<edit, files, gateway>> /\ Previous(e)' = Previous(e)
      BY <1>4, <1>13 DEF Store, Previous
    <3>3. /\ running' = [running EXCEPT ![r] = files[r]]
          /\ reload'[e] = IF reload[e].left = {r} THEN [NoReload EXCEPT !.at = "ok"]
                          ELSE [reload[e] EXCEPT !.left = @ \ {r}]
      BY <1>0, <1>13, <3>1 DEF Store, FileTyped
    <3>4. \A s \in Routes : s = r \/ s \notin reload[e].left \/ s # edit[e].route =>
              running'[s] = files[s]
      BY <1>0, <3>1, <3>3 DEF FileTyped
    <3>5. CASE reload[e].left = {r}
      <4>1. reload'[e].at = "ok"
        BY <3>3, <3>5, Ended
      <4>2. running' = files
        BY <1>0, <3>3, <3>4, <3>5 DEF FileTyped
      <4> QED
        BY <3>1, <3>2, <4>1, <4>2 DEF Phase, GoodFiles
    <3>6. CASE reload[e].left # {r}
      <4>1. /\ reload'[e].at = "store" /\ reload'[e].engines = files
            /\ reload'[e].left = reload[e].left \ {r}
        <5>1. reload'[e] = [reload[e] EXCEPT !.left = @ \ {r}] /\ reload[e].at = "store"
          BY <1>13, <3>3, <3>6 DEF Store
        <5> QED
          BY <1>1, <3>1, <5>1, Shrunk
      <4>2. reload'[e].left # {}
        BY <1>13, <3>6, <4>1 DEF Store
      <4> QED
        BY <3>1, <3>2, <3>4, <4>1, <4>2 DEF Phase
    <3> QED
      BY <3>5, <3>6
  <2> QED
    BY <1>4, <1>13, <2>1, OneWorks
<1>14. CASE StartFiles
  <2>1. UNCHANGED <<files, edit, reload, mode>> /\ running' = files /\ mode = "file"
        /\ (~faulty' => Quiet) /\ \A r \in Routes : files[r] \in Loadable
    BY <1>14 DEF StartFiles
  <2> QED
    BY <2>1 DEF Sound, Fine, GoodFiles, Quiet
<1>15. CASE GatewayCrash
  <2>1. UNCHANGED <<mode, files, edit, overlap, faulty>> /\ gateway' = Down
    BY <1>15 DEF GatewayCrash
  <2>2. \A e \in Editors : IF reload[e].at = "none" THEN reload'[e].at = "none"
                           ELSE reload'[e].at = "error"
    BY <1>0, <1>15, Ended DEF GatewayCrash, FileTyped
  <2>3. Quiet' <=> Quiet
    BY <2>1, <2>2 DEF Quiet
  <2>4. SUFFICES ASSUME Fine PROVE \A e \in Editors : Busy(e)' => Phase(e)'
    BY <2>1, <2>3 DEF Sound, Fine, GoodFiles
  <2>5. ASSUME NEW e \in Editors, Busy(e)' PROVE Phase(e)'
    <3>1. Busy(e) /\ Phase(e)
      BY <2>1, <2>2, <2>4, <2>5 DEF Sound
    <3>2. Previous(e)' = Previous(e)
      BY <2>1 DEF Previous
    <3>3. CASE edit[e].at = "write"
      BY <2>1, <2>2, <3>1, <3>3 DEF Phase, GoodFiles
    <3>4. CASE edit[e].at # "write"
      <4>1. edit[e].at = "call" /\ reload[e].at # "none"
            /\ \A r \in Routes : Previous(e)[r] \in Loadable
        BY <3>1, <3>4 DEF Phase, GoodFiles
      <4> QED
        BY <2>1, <2>2, <3>2, <4>1 DEF Phase, GoodFiles
    <3> QED
      BY <3>3, <3>4
  <2> QED
    BY <2>5
<1> QED
  BY <1>2, <1>3, <1>5, <1>6, <1>7, <1>8, <1>9, <1>10, <1>11, <1>12, <1>13, <1>14, <1>15
     DEF Next, Request, ReloadPolicies, HandleUpdateRoute, HandleRollback

\* Edits that neither overlap nor fail half way leave files that load, and a
\* gateway in file mode runs them, for any number of routes and requests.
THEOREM EditsAreConsistent == Spec => []FilesAreRun
<1>1. Init => IInv
  BY InitIInv
<1>2. IInv /\ [Next]_vars => IInv'
  BY TypedStep, AloneStep, SoundStep DEF IInv
<1>3. IInv => FilesAreRun
  <2> SUFFICES ASSUME IInv, Quiet, ~overlap, ~faulty
               PROVE  /\ \A r \in Routes : files[r] \in Loadable
                      /\ gateway.at = "up" /\ mode = "file" => running = files
    BY DEF FilesAreRun
  <2>1. mode \in {"db", "file"}
    BY DEF IInv, Typed, TypeOK
  <2> QED
    BY <2>1 DEF IInv, Sound, Fine, GoodFiles
<1> QED
  BY <1>1, <1>2, <1>3, PTL DEF Spec
=============================================================================
