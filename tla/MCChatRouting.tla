---------------------------- MODULE MCChatRouting ----------------------------
(***************************************************************************)
(* Small instances of ChatRouting for TLC.                                  *)
(***************************************************************************)
EXTENDS ChatRouting, TLC

CONSTANTS s, b, t, codex, tiny, chat

\* A group and a request that finds it changed, or at another count: in the
\* first order an endpoint too small for everybody stands in the middle.
TwoOrders == {<<codex, tiny, chat>>, <<chat, codex>>}
TooLargeForTiny == {<<s, tiny>>, <<b, tiny>>}

\* A group of one.
OnlyChat == {<<chat>>}
Nothing == {}
=============================================================================
