------------------------- MODULE MCStreamTranslation -------------------------
(***************************************************************************)
(* A small instance of StreamTranslation for TLC.                           *)
(***************************************************************************)
EXTENDS StreamTranslation
=============================================================================
