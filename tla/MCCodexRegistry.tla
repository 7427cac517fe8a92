--------------------------- MODULE MCCodexRegistry ---------------------------
(***************************************************************************)
(* A small instance of CodexRegistry for TLC.                               *)
(***************************************************************************)
EXTENDS CodexRegistry, TLC

CONSTANTS gpt, t1, t2, c1, c2

Item(visible) == [slug |-> gpt, visible |-> visible]

\* The second catalog of the first identity hides the model; the second identity
\* has one catalog, which lists it among hidden duplicates.
TwoAccounts ==
    << << <<Item(TRUE)>>, <<Item(FALSE)>> >>,
       << <<Item(FALSE), Item(TRUE)>> >> >>
=============================================================================
