---------------------------- MODULE MCEvaluation ----------------------------
(* Families of configurations, each about one part of the evaluation.       *)
EXTENDS Evaluation

X == <<"header", "x">>
Internal == Words({"internal"})
External == Words({"external"})

Yes == Text(0, Constant(TRUE))
No == Text(0, Constant(FALSE))
NotX == Text(1, Compare("eq", X, Internal))
IsX == Text(0, Compare("eq", X, Internal))
Odd == Text(2, Compare("ne", X, Internal))
Unlisted == Text(0, Compare("list", <<"mail", "to">>, Words({"nobody"})))
Listed == Text(0, Compare("list", <<"mail", "to">>, Words({"staff"})))
NoNumber == Text(0, Compare("ge", <<"total", "score">>, Words({"many"})))
Score(op, n) == Text(0, Compare(op, <<"total", "score">>, Number(n)))
Detected(w) == Text(0, Compare("eq", <<"detected", w>>, Bool(TRUE)))
Attached == Text(0, Compare("eq", <<"mail", "has_attachment">>, Bool(TRUE)))

Spec1(type) == [type |-> type, name |-> "x", value |-> ""]
Spec2(type, value) == [type |-> type, name |-> "x", value |-> value]
Rule0(p, c, specs) == [enabled |-> TRUE, priority |-> p, condition |-> c, specs |-> specs]

Deliver == <<Spec1("deliver")>>
Last1 == Rule0(1, <<Yes>>, Deliver)

Route1(policy) ==
    [priority |-> 0, rank |-> 1, enabled |-> TRUE, match |-> <<Yes>>,
     from |-> {"ann", "eve"}, to |-> {"bob", "cat"}, all |-> FALSE,
     inspect |-> <<>>, transform |-> <<>>, policy |-> policy]

(* Conditions: all short ones, and longer ones of some shapes.              *)
Words8 == {And, Or, Open, Close, Text(1, NoLeaf), Yes, No, NotX}
Words13 == Words8 \cup {Odd, Unlisted, Listed, NoNumber, Text(0, NoLeaf)}
Glue == {And, Or}
Short == {Yes, No, NotX}
Shapes == UNION {{<<a, g, b, h, c>>, <<Open, a, g, b, Close, h, c>>,
                  <<a, g, Open, b, h, c, Close>>, <<Text(1, NoLeaf), Open, a, g, b, Close, h, c>>} :
                 a \in Short, b \in Short, c \in Short, g \in Glue, h \in Glue}
Raw == BoundedSeq(Words8, 4) \cup BoundedSeq(Words13, 2) \cup Shapes
ConditionSetups ==
    {[mode |-> "file", routes |-> <<Route1(<<Rule0(0, raw, Deliver)>>)>>] : raw \in Raw}

(* Policies: two rules of any order before or after the one for the rest.   *)
Pool(p) ==
    {Rule0(p, <<Detected("av")>>, <<Spec1("quarantine")>>),
     Rule0(p, <<Score("ge", 60)>>, <<Spec1("log_only"), Spec1("approval"), Spec1("reject")>>),
     Rule0(p, <<Score("lt", 10), Or, Unlisted>>, <<Spec1("reject")>>),
     Rule0(p, <<Yes>>, <<Spec2("add_header", "external"), Spec2("add_subject_prefix", "ext")>>),
     Rule0(p, <<Text(1, Compare("eq", X, Internal))>>, <<Spec1("remove_header")>>),
     Rule0(p, <<IsX>>, <<Spec1("approval")>>),
     Rule0(p, <<Attached>>, <<Spec2("strip_attachments", "exe")>>),
     Rule0(p, <<Attached, And, Listed>>, <<Spec2("add_subject_prefix", "late"), Spec1("delay")>>),
     Rule0(p, <<IsX>>, <<Spec2("redirect", "trap")>>),
     Rule0(p, <<Listed>>, <<Spec1("redirect")>>),
     [Rule0(p, <<Yes>>, Deliver) EXCEPT !.enabled = FALSE]}
Rules2 == Pool(0) \cup Pool(2)
PolicySetups ==
    {[mode |-> "db", routes |-> <<[Route1(<<a, Last1, b>>) EXCEPT
        !.inspect = <<[alias |-> "av", enabled |-> TRUE], [alias |-> "url", enabled |-> TRUE]>>]>>] :
     a \in Rules2, b \in Rules2}

(* Workers: what is bound, and what there is.                               *)
Bind(as) == [i \in DOMAIN as |-> [alias |-> as[i], enabled |-> i # 2]]
WorkerSetups ==
    {[mode |-> m, routes |-> <<[Route1(<<Rule0(0, <<Detected(w)>>, <<Spec1("quarantine")>>), Last1>>)
        EXCEPT !.inspect = Bind(as), !.transform = t]>>] :
     m \in {"db", "file"}, w \in {"av", "off"},
     as \in {<<"av", "url", "off">>, <<"url", "av">>, <<"av", "url", "ghost", "off">>, <<"av", "av", "odd">>},
     t \in {<<>>, <<Spec2("add_subject_prefix", "ok"), Spec1("strip_attachments")>>}}

(* Policies that are refused.                                               *)
BadSetups ==
    {[mode |-> "file", routes |-> <<Route1(<<r, Last1>>)>>] :
     r \in {Rule0(0, <<Yes>>, <<>>), Rule0(0, <<Yes>>, <<Spec1("forward")>>), Rule0(0, <<Open>>, Deliver)}}
    \cup {[mode |-> "file", routes |-> <<Route1(<<Rule0(0, <<No>>, Deliver)>>)>>]}

(* Routings: in the database and in files.                                  *)
Routes1(rank) ==
    {[Route1(<<Last1>>) EXCEPT !.priority = p, !.rank = rank, !.enabled = e, !.match = m] :
     p \in {0, 1}, e \in BOOLEAN, m \in {<<Yes>>, <<IsX>>, <<Listed>>, <<NotX, And, Score("lt", 1)>>}}
RoutesF ==
    {[Route1(<<Last1>>) EXCEPT !.from = f, !.to = t, !.all = a] :
     f \in {{"ann"}, {"ann", "eve"}}, t \in {{"bob"}, {"bob", "cat"}}, a \in BOOLEAN}
RouteSetups ==
    {[mode |-> "db", routes |-> <<r, s>>] : r \in Routes1(2), s \in Routes1(1) \cup Routes1(2)}
    \cup {[mode |-> "file", routes |-> <<r, s>>] : r \in RoutesF, s \in RoutesF}

AllSetups == ConditionSetups \cup PolicySetups \cup WorkerSetups \cup BadSetups \cup RouteSetups

AllInstances ==
    "av" :> [enabled |-> TRUE, known |-> TRUE] @@ "url" :> [enabled |-> TRUE, known |-> TRUE]
    @@ "off" :> [enabled |-> FALSE, known |-> TRUE] @@ "odd" :> [enabled |-> TRUE, known |-> FALSE]

Mail0(from, to, headers, files) ==
    [from |-> from, to |-> to, headers |-> headers, subject |-> {"hello"},
     files |-> files, attachment |-> files # {}]
AllMails ==
    {Mail0("ann", {"bob"}, <<[name |-> "x", value |-> "internal"], [name |-> "y", value |-> "z"]>>,
           {"exe", "pdf"}),
     Mail0("eve", {"bob", "cat"}, <<[name |-> "y", value |-> "z"]>>, {"exe"})}

AllLists == [l \in {"staff"} |-> {"bob"}]
=============================================================================
