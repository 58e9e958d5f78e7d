-------------------------- MODULE MCConfiguration --------------------------
(* A small instance of Configuration for TLC: one key of every kind, and   *)
(* specs that depend on the other keys as well as specs that do not.       *)
EXTENDS Configuration, TLC

CONSTANTS v, w, p, r, c1, a1, a2

All == {v, w, p, r}
KindOf == (v :> "variable") @@ (w :> "worker") @@ (p :> "policy") @@ (r :> "routing")

Worker(kind, refs) == [kind |-> kind, vars |-> refs]
Routing(bound, pol) == [inspect |-> bound, transform |-> {}, policy |-> pol, vars |-> {}]

SpecsOf ==
    (v :> {[value |-> "x"]}) @@ (p :> {[content |-> "rules"]})
    @@ (w :> {Worker("inspect", {}), Worker("transform", {v})})
    @@ (r :> {Routing({w}, NoKey), Routing({}, p)})

\* The files hold one worker instance, an import brings a routing that binds it.
BundleFiles == [k \in All |-> IF k = w THEN Worker("inspect", {}) ELSE Absent]
OneBundle == {[k \in All |-> IF k = r THEN Routing({w}, NoKey) ELSE Absent]}

OneClient == {c1}
TwoReplicas == {a1, a2}
OneReplica == {a1}
SymmetricReplicas == Permutations(TwoReplicas)
=============================================================================
