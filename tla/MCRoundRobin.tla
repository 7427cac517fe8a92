---------------------------- MODULE MCRoundRobin ----------------------------
(***************************************************************************)
(* Small instances of RoundRobin for TLC.                                   *)
(***************************************************************************)
EXTENDS RoundRobin, TLC

CONSTANTS r1, r2, r3, a, b, c

ThreeRotating == [members |-> <<a, b, c>>, strategy |-> "round_robin"]
TwoRotating == [members |-> <<b, a>>, strategy |-> "round_robin"]
ThreeFixed == [members |-> <<a, b, c>>, strategy |-> "fallback"]
Edits == {ThreeRotating, TwoRotating, ThreeFixed}

OnlyTwo == {TwoRotating}

\* Every account's eligibility may change, or none's.
SubLists == [g \in Configs |-> {SelectSeq(g.members, LAMBDA e : e \in usable) :
                                 usable \in SUBSET Endpoints}]
WholeLists == [g \in Configs |-> {g.members}]

RequestSymmetry == Permutations(Requests)
=============================================================================
