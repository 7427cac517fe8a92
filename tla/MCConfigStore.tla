---------------------------- MODULE MCConfigStore ----------------------------
(***************************************************************************)
(* A small instance of ConfigStore for TLC.                                 *)
(***************************************************************************)
EXTENDS ConfigStore, TLC

CONSTANTS p, g, h, free, k1, k2

Model(priority, chosen) == [priority |-> priority, chosen |-> chosen]

\* Two providers, the first with two models around the model of the other; the
\* second version asks for an account and drops the second provider.
TwoVersions ==
    << << [eligible |-> TRUE, account |-> FALSE,
           models |-> <<Model(1, TRUE), Model(2, FALSE), Model(1, TRUE)>>],
          [eligible |-> TRUE, account |-> FALSE, models |-> <<Model(0, TRUE)>>] >>,
       << [eligible |-> TRUE, account |-> TRUE, models |-> <<Model(2, TRUE)>>],
          [eligible |-> FALSE, account |-> FALSE, models |-> <<Model(0, TRUE)>>] >> >>

FirstKey == << [key |-> k1, account |-> FALSE], [none |-> TRUE] >>

TwoGroups == [providers |-> {p}, groups |-> (g :> {p} @@ h :> {g})]
=============================================================================
