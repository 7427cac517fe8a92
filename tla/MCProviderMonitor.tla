-------------------------- MODULE MCProviderMonitor --------------------------
(***************************************************************************)
(* Small instances of ProviderMonitor for TLC.                              *)
(***************************************************************************)
EXTENDS ProviderMonitor, TLC

CONSTANTS p, q

TwoProviders == <<p, q>>

Ntfy(enabled, threshold, recovery, interval) ==
    [enabled |-> enabled, failure_threshold |-> threshold,
     notify_recovery |-> recovery, interval |-> interval]

Edits == {Ntfy(TRUE, 2, TRUE, "number"), Ntfy(TRUE, 0, FALSE, "number"),
          Ntfy(TRUE, 2, TRUE, "text"), Ntfy(FALSE, 2, TRUE, "number")}

Default == {Ntfy(TRUE, 2, TRUE, "number")}
=============================================================================
