----------------------------- MODULE Evaluation ------------------------------
(***************************************************************************)
(* What a smtp-gateway decides about one mail, from its route to its       *)
(* action: the first routing that matches; its inspect workers, which run  *)
(* in parallel, each of which may fail, panic or take too long; its        *)
(* transform workers, one after the other; its policy, rule by rule, where *)
(* the actions of a rule may change the mail the next rules see.           *)
(*                                                                         *)
(* Configurations and mails are given: every combination is one behaviour. *)
(* Routings come from the database, or from files, where workers are found *)
(* and routes are chosen in another way.                                   *)
(***************************************************************************)
EXTENDS Conditions, FiniteSetsExt

CONSTANTS
    Setups,     \* [mode, routes]: "db" or "file", and the routings as they stand there;
                \* a routing binds an alias once, transform is what its transform workers
                \* do, and a policy that is missing is one rule that delivers
    Instances,  \* alias -> [enabled, known]: the inspect workers there are; known if the
                \* type has a factory and it accepts the configuration
    MailsIn,    \* the mails that come
    Lists       \* named lists of a policy

ActionSpecs == [type : STRING, name : STRING, value : STRING]
PolicyRules ==
    [enabled : BOOLEAN, priority : Int, condition : Seq(RawWords), specs : Seq(ActionSpecs)]
Routings ==
    [priority : Int, rank : Int, enabled : BOOLEAN, match : Seq(RawWords),
     from : SUBSET STRING, to : SUBSET STRING, all : BOOLEAN,
     inspect : Seq([alias : STRING, enabled : BOOLEAN]), transform : Seq(ActionSpecs),
     policy : Seq(PolicyRules)]

ASSUME EvaluationAssumption == Setups \subseteq [mode : {"db", "file"}, routes : Seq(Routings)]

VARIABLES
    setup,      \* the configuration that is loaded
    arrived,    \* the mail as it came
    stage,      \* what happens to the mail next
    route,      \* the number of the routing that was chosen, or 0
    rules,      \* the rules its engine holds
    working,    \* inspect workers that have not ended
    results,    \* answers of those that have, by alias
    changes,    \* transform workers still to come
    mail,       \* the mail as it is now
    facts,      \* what conditions see
    next,       \* the rule to be evaluated
    action,     \* what was decided, "none" so far
    (* history *)
    found,      \* the answers of the workers, whatever became of them
    passed      \* the mail as the policy got it

evaluationVars == <<setup, arrived, stage, route, rules, working, results, changes, mail, facts,
          next, action, found, passed>>

Terminal == {"deliver", "reject", "quarantine", "approval", "delay", "redirect"}
NonTerminal == {"add_header", "remove_header", "add_subject_prefix", "strip_attachments",
                "log_only"}

EvaluationTypeOK ==
    /\ stage \in {"build", "refused", "resolve", "inspect", "transform", "rules", "decided"}
    /\ route \in 0..Len(setup.routes)
    /\ working \subseteq DOMAIN Instances
    /\ DOMAIN results \subseteq DOMAIN Instances
    /\ next \in 1..(Len(rules) + 1)
    /\ action \in Terminal \cup {"none", "unrouted", "no_rule", "error"}

EvaluationInit ==
    /\ setup \in Setups
    /\ arrived \in MailsIn
    /\ stage = "build"
    /\ route = 0
    /\ rules = <<>>
    /\ working = {}
    /\ results = <<>>
    /\ changes = <<>>
    /\ mail = arrived
    /\ facts = <<>>
    /\ next = 1
    /\ action = "none"
    /\ found = <<>>
    /\ passed = arrived

-----------------------------------------------------------------------------
(* Facts, and what actions make of a mail.                                 *)

Bool(b) == Words({IF b THEN "true" ELSE "false"})

\* parseHeaderFacts: of headers with one name, the first one counts.
HeaderNames(m) == {m.headers[i].name : i \in DOMAIN m.headers}
HeaderValue(m, n) == SelectSeq(m.headers, LAMBDA h : h.name = n)[1].value

Total(res) == SumFunction([w \in DOMAIN res |-> res[w].score])

\* buildFacts: results are known by the alias, others by the mail.
MailFacts == {<<"mail", "to">>, <<"mail", "subject">>, <<"mail", "has_attachment">>}
Facts(m, res) ==
    [k \in ({"detected", "score"} \X DOMAIN res) \cup {<<"total", "score">>} \cup MailFacts
           \cup ({"header"} \X HeaderNames(m)) |->
        CASE k[1] = "detected" -> Bool(res[k[2]].detected)
          [] k[1] = "score" -> Number(res[k[2]].score)
          [] k[1] = "header" -> Words({HeaderValue(m, k[2])})
          [] k = <<"total", "score">> -> Number(Total(res))
          [] k = <<"mail", "to">> -> Words(m.to)
          [] k = <<"mail", "subject">> -> Words(m.subject)
          [] k = <<"mail", "has_attachment">> -> Bool(m.attachment)]

AddHeader(m, s) == [m EXCEPT !.headers = <<[name |-> s.name, value |-> s.value]>> \o @]

\* StripAttachments: of one kind or of all; the flag goes with the first file.  An
\* EML that cannot be read or rebuilt stays as it is, like one without such a file.
Strip(m, s) ==
    LET gone == IF s.value = "" THEN m.files ELSE m.files \cap {s.value} IN
    IF gone = {} THEN m ELSE [m EXCEPT !.files = @ \ gone, !.attachment = FALSE]

\* applyNonTerminal.
Apply(m, s) ==
    CASE s.type = "add_header" -> AddHeader(m, s)
      [] s.type = "remove_header" ->
            [m EXCEPT !.headers = SelectSeq(@, LAMBDA h : h.name # s.name)]
      [] s.type = "add_subject_prefix" -> [m EXCEPT !.subject = @ \cup {s.value}]
      [] s.type = "strip_attachments" -> Strip(m, s)
      [] OTHER -> m

\* The actions of a rule, up to the terminal one, if it has one.
EndsAt(r) == {i \in DOMAIN r.specs : r.specs[i].type \in Terminal}
Applied(r) == IF EndsAt(r) = {} THEN r.specs ELSE SubSeq(r.specs, 1, Min(EndsAt(r)) - 1)
Made(m, r) == FoldLeft(Apply, m, Applied(r))

-----------------------------------------------------------------------------
(* Loading: policy.New and NewFromContent, dbconfig.Build, worker.New.     *)

ValidRule(r) ==
    /\ Valid(r.condition)
    /\ r.specs # <<>>
    /\ \A i \in DOMAIN r.specs : r.specs[i].type \in Terminal \cup NonTerminal

Enabled(policy) == {i \in DOMAIN policy : policy[i].enabled}

\* Mutant: the rules stay as they stand in the file.
PrepareRules_AsTheyStand(policy) == SelectSeq(policy, LAMBDA r : r.enabled)

\* sort.SliceStable: the members of S, where <<i, j>> \in order says that i comes before j.
InOrder(S, order) ==
    [k \in 1..Cardinality(S) |->
        CHOOSE i \in S : Cardinality({j \in S : <<j, i>> \in order}) = k - 1]

ByPriority(policy) ==
    {p \in Enabled(policy) \X Enabled(policy) :
        \/ policy[p[1]].priority < policy[p[2]].priority
        \/ policy[p[1]].priority = policy[p[2]].priority /\ p[1] < p[2]}

\* prepareRules: by priority, rules of one priority as they stand in the file.
PrepareRules(policy) ==
    LET order == InOrder(Enabled(policy), ByPriority(policy))
    IN [k \in DOMAIN order |-> policy[order[k]]]

Bound(r) == {r.inspect[i].alias : i \in {i \in DOMAIN r.inspect : r.inspect[i].enabled}}

\* The workers of a routing.  In a file, a worker that is not there is left out;
\* from the database, an instance that is disabled, but one that cannot be made is an
\* error.
Entries(r) ==
    {a \in Bound(r) \cap DOMAIN Instances :
        Instances[a].known /\ (setup.mode = "db" => Instances[a].enabled)}

CanBuild(r) ==
    /\ \A i \in Enabled(r.policy) : ValidRule(r.policy[i])
    /\ setup.mode = "db" =>
        \A a \in Bound(r) \cap DOMAIN Instances : Instances[a].enabled => Instances[a].known

Active(r) == setup.mode = "file" \/ r.enabled

Build ==
    /\ stage = "build"
    /\ stage' = IF \A i \in DOMAIN setup.routes :
                    Active(setup.routes[i]) => CanBuild(setup.routes[i])
                THEN "resolve" ELSE "refused"
    /\ UNCHANGED <<setup, arrived, route, rules, working, results, changes, mail, facts,
                   next, action, found, passed>>

-----------------------------------------------------------------------------
(* The route.                                                              *)

\* In the database: by priority, then by name, which several may have, then as
\* they were read; in a file, as they stand there.
Precedes(i, j) ==
    LET r == setup.routes[i]
        s == setup.routes[j]
    IN IF setup.mode = "file" THEN i < j
       ELSE \/ r.priority < s.priority
            \/ r.priority = s.priority /\ (r.rank < s.rank \/ (r.rank = s.rank /\ i < j))

InForce == {i \in DOMAIN setup.routes : Active(setup.routes[i])}

\* sortedRoutings.
Sorted == InOrder(InForce, {p \in InForce \X InForce : Precedes(p[1], p[2])})

\* EvalMatch knows no lists, and a condition that fails does not match; in a
\* file, the sender and any or all of the recipients match an expression.
Matches(r) ==
    IF setup.mode = "db"
    THEN LET v == Eval(r.match, Facts(arrived, <<>>), <<>>) IN v.ok /\ v.value
    ELSE /\ arrived.from \in r.from
         /\ IF r.all THEN arrived.to # {} /\ arrived.to \subseteq r.to
            ELSE arrived.to \cap r.to # {}

Hits == {k \in DOMAIN Sorted : Matches(setup.routes[Sorted[k]])}

\* Mutant: the last routing that matches.
Resolved_Last == IF Hits = {} THEN 0 ELSE Sorted[Max(Hits)]

Resolved == IF Hits = {} THEN 0 ELSE Sorted[Min(Hits)]

\* A mail without a route is refused (550).
Resolve ==
    /\ stage = "resolve"
    /\ route' = Resolved
    /\ IF route' = 0
       THEN /\ stage' = "decided"
            /\ action' = "unrouted"
            /\ UNCHANGED <<rules, working, changes>>
       ELSE LET r == setup.routes[route'] IN
            /\ stage' = "inspect"
            /\ rules' = PrepareRules(r.policy)
            /\ working' = Entries(r)
            /\ changes' = r.transform
            /\ UNCHANGED action
    /\ UNCHANGED <<setup, arrived, results, mail, facts, next, found, passed>>

-----------------------------------------------------------------------------
(* The pipelines.                                                          *)

\* Mutant: a worker that fails takes the results of all with it.
InspectFails_All(w) ==
    /\ stage = "inspect" /\ w \in working
    /\ working' = {}
    /\ results' = <<>>
    /\ UNCHANGED <<setup, arrived, stage, route, rules, changes, mail, facts, next, action,
                   found, passed>>

With(f, w, v) == [u \in DOMAIN f \cup {w} |-> IF u = w THEN v ELSE f[u]]

Inspect(w, detected) ==
    /\ stage = "inspect" /\ w \in working
    /\ working' = working \ {w}
    /\ results' = With(results, w, [detected |-> detected, score |-> IF detected THEN 50 ELSE 0])
    /\ found' = With(found, w, detected)
    /\ UNCHANGED <<setup, arrived, stage, route, rules, changes, mail, facts, next, action,
                   passed>>

\* An error, a panic, or the end of its time: no result of this worker.
InspectFails(w) ==
    /\ stage = "inspect" /\ w \in working
    /\ working' = working \ {w}
    /\ UNCHANGED <<setup, arrived, stage, route, rules, results, changes, mail, facts, next,
                   action, found, passed>>

\* wg.Wait() returns.
Inspected ==
    /\ stage = "inspect" /\ working = {}
    /\ stage' = "transform"
    /\ UNCHANGED <<setup, arrived, route, rules, working, results, changes, mail, facts,
                   next, action, found, passed>>

Transform ==
    /\ stage = "transform" /\ changes # <<>>
    /\ mail' = Apply(mail, Head(changes))
    /\ changes' = Tail(changes)
    /\ UNCHANGED <<setup, arrived, stage, route, rules, working, results, facts, next,
                   action, found, passed>>

\* An error or a panic: the original is quarantined, no policy is asked.
TransformFails ==
    /\ stage = "transform" /\ changes # <<>>
    /\ stage' = "decided"
    /\ action' = "quarantine"
    /\ mail' = arrived
    /\ UNCHANGED <<setup, arrived, route, rules, working, results, changes, facts, next,
                   found, passed>>

Transformed ==
    /\ stage = "transform" /\ changes = <<>>
    /\ stage' = "rules"
    /\ facts' = Facts(mail, results)
    /\ passed' = mail
    /\ UNCHANGED <<setup, arrived, route, rules, working, results, changes, mail, next,
                   action, found>>

-----------------------------------------------------------------------------
(* The policy: decide, one rule after the other, and EvaluateAndAct.       *)

\* Mutant: the facts are those of the beginning.
Rule_StaleFacts ==
    /\ stage = "rules" /\ next <= Len(rules)
    /\ LET r == rules[next]
           v == Eval(r.condition, facts, Lists)
           hit == v.ok /\ v.value
       IN
       /\ mail' = IF hit THEN Made(mail, r) ELSE mail
       /\ IF hit /\ EndsAt(r) # {}
          THEN stage' = "decided" /\ action' = r.specs[Min(EndsAt(r))].type
          ELSE UNCHANGED <<stage, action>>
    /\ next' = next + 1
    /\ UNCHANGED <<setup, arrived, route, rules, working, results, changes, facts, found,
                   passed>>

\* A rule whose condition fails is skipped.  A redirect needs an address.
Rule ==
    /\ stage = "rules" /\ next <= Len(rules)
    /\ LET r == rules[next]
           v == Eval(r.condition, facts, Lists)
           hit == v.ok /\ v.value
           made == IF hit THEN Made(mail, r) ELSE mail
       IN
       IF hit /\ EndsAt(r) # {}
       THEN LET s == r.specs[Min(EndsAt(r))]
                redirected == s.type = "redirect" /\ s.value # ""
            IN
            /\ stage' = "decided"
            /\ action' = IF s.type = "redirect" /\ ~redirected THEN "error" ELSE s.type
            /\ mail' = IF redirected THEN [made EXCEPT !.to = {s.value}] ELSE made
            /\ UNCHANGED facts
       ELSE /\ mail' = made
            /\ facts' = IF made = mail THEN facts ELSE Facts(made, results)
            /\ UNCHANGED <<stage, action>>
    /\ next' = next + 1
    /\ UNCHANGED <<setup, arrived, route, rules, working, results, changes, found, passed>>

\* No rule ended the evaluation: 550.
NoRule ==
    /\ stage = "rules" /\ next > Len(rules)
    /\ stage' = "decided"
    /\ action' = "no_rule"
    /\ UNCHANGED <<setup, arrived, route, rules, working, results, changes, mail, facts, next,
                   found, passed>>

-----------------------------------------------------------------------------
EvaluationNext ==
    \/ Build \/ Resolve \/ Inspected \/ Transform \/ TransformFails \/ Transformed
    \/ Rule \/ NoRule
    \/ \E w \in working : InspectFails(w) \/ \E detected \in BOOLEAN : Inspect(w, detected)

EvaluationSpec == EvaluationInit /\ [][EvaluationNext]_evaluationVars

-----------------------------------------------------------------------------
(* Properties.                                                             *)

\* What the guide makes of a condition.
Means(raw, fs, lists) ==
    LET tokens == Tokens(raw) IN
    Meaning(tokens, [t \in Leaves(tokens) |-> EvalLeaf(t, fs, lists)])

Loaded == UNION {{r.condition : r \in Range(setup.routes[i].policy)} :
                  i \in DOMAIN setup.routes}

\* The parser reads a condition as the guide's grammar does, "not" before "&&"
\* before "||", and refuses the rest; and a condition that was accepted when the
\* policy was loaded can fail on a mail only for a list that is not defined
\* (condition.go parseOr.., validateOr.., docs/guide/policy.md).
ConditionsMeanTheGrammar ==
    stage = "build" => \A raw \in Loaded :
        LET fs == Facts(arrived, <<>>)
            v == Eval(raw, fs, Lists)
            known == \A t \in Leaves(Tokens(raw)) :
                        t.leaf.op = "list" => t.leaf.val.words \subseteq DOMAIN Lists
        IN /\ raw # <<>> => (v.ok <=> Means(raw, fs, Lists) # {})
           /\ raw # <<>> /\ v.ok => Means(raw, fs, Lists) = {v.value}
           /\ Valid(raw) /\ known => v.ok

\* A mail takes the first routing in force that it matches, and is refused only
\* if there is none (routes.go Resolve, snapshot.go sortedRoutings, router.go).
RouteIsFirstMatch ==
    LET hits == {i \in InForce : Matches(setup.routes[i])}
    IN stage \notin {"build", "refused", "resolve"} =>
        /\ route = 0 <=> hits = {}
        /\ route # 0 => route \in hits /\ \A i \in hits \ {route} : Precedes(route, i)

(* The rules of a policy one after the other, told over sets of rules.     *)
Before(policy, i, j) ==
    \/ policy[i].priority < policy[j].priority
    \/ policy[i].priority = policy[j].priority /\ i < j
Earlier(policy, k) == {i \in Enabled(policy) : Before(policy, i, k)}

\* What the rules in a set, which is all rules before some rule, make of m.
MailAfter(policy, m, res) ==
    LET after[D \in SUBSET Enabled(policy)] ==
        IF D = {} THEN m
        ELSE LET k == CHOOSE i \in D : \A j \in D \ {i} : Before(policy, j, i)
                 made == after[D \ {k}]
             IN IF Means(policy[k].condition, Facts(made, res), Lists) = {TRUE}
                THEN Made(made, policy[k]) ELSE made
    IN after

Policy == setup.routes[route].policy
MailBefore(k) == MailAfter(Policy, passed, results)[Earlier(Policy, k)]

Decisive(k) ==
    /\ EndsAt(Policy[k]) # {}
    /\ Means(Policy[k].condition, Facts(MailBefore(k), results), Lists) = {TRUE}

\* The policy's action is that of the first rule in order of priority that ends
\* the evaluation and matches the mail as the rules before it have left it; the
\* mail is sent as these rules made it (engine.go prepareRules, decide).
DecisionIsFirstMatch ==
    stage = "decided" /\ next > 1 =>
        LET ends == {k \in Enabled(Policy) : Decisive(k)} IN
        IF ends = {} THEN action = "no_rule"
        ELSE \E k \in ends :
            LET s == Policy[k].specs[Min(EndsAt(Policy[k]))] IN
            /\ \A j \in ends \ {k} : Before(Policy, k, j)
            /\ action \in {s.type, "error"}
            /\ action = "error" => s.type = "redirect" /\ s.value = ""
            /\ [mail EXCEPT !.to = {}] = [Made(MailBefore(k), Policy[k]) EXCEPT !.to = {}]

\* What one worker has found is heeded, whatever the others do: a policy whose
\* first rule quarantines what it detects quarantines the mail (inspect.go Run).
DetectionIsHeeded ==
    stage = "decided" /\ route # 0 =>
        \A w \in DOMAIN found : \A k \in Enabled(Policy) :
            /\ found[w]
            /\ Earlier(Policy, k) = {}
            /\ Policy[k].condition = <<Text(0, Compare("eq", <<"detected", w>>, Bool(TRUE)))>>
            /\ Policy[k].specs[1].type = "quarantine"
            => action = "quarantine"
=============================================================================
