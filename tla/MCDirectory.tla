----------------------------- MODULE MCDirectory -----------------------------
(***************************************************************************)
(* A small directory: two people, one of them a fixed user, two groups     *)
(* that name a mailbox, one replica that synchronises and one login at a   *)
(* time.  It begins with everybody listed and in both groups; the other    *)
(* directories are reached by its changes.                                 *)
(***************************************************************************)
EXTENDS DirectoryLive

MCInit ==
    /\ LiveInit
    /\ \A p \in People : entries[p] = [listed |-> TRUE, groups |-> Groups]
    /\ \A g \in Groups : boxOf[g] = Boxes

MCSpec == MCInit /\ [][LiveNext]_liveVars /\ Fairness
=============================================================================
