----------------------------- MODULE MCMailbox -----------------------------
(* Two calls of one agent and one of another; messages within one second   *)
(* and in different ones; a poller that is started twice; one kill.        *)
EXTENDS Mailbox, TLC

CONSTANTS s, t, u, a, b

Calls == {s, t, u}
Agents == {a, b}
Owners == (s :> a) @@ (t :> a) @@ (u :> b)
=============================================================================
