---------------------------- MODULE MCOAuthTokens ----------------------------
(***************************************************************************)
(* A small instance of OAuthTokens for TLC.                                 *)
(***************************************************************************)
EXTENDS OAuthTokens, TLC

CONSTANTS chat, catalog, usage, p
=============================================================================
