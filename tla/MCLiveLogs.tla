----------------------------- MODULE MCLiveLogs -----------------------------
(***************************************************************************)
(* A small instance of LiveLogs for TLC.                                    *)
(***************************************************************************)
EXTENDS LiveLogs

CONSTANTS r, s, page

=============================================================================
