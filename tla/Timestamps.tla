----------------------------- MODULE Timestamps -----------------------------
(***************************************************************************)
(* Slack's message timestamps, shared by the models of the sweep and of    *)
(* its caller. A timestamp is a number of clock ticks.                     *)
(***************************************************************************)
EXTENDS Integers

\* newestTS: the timestamp of the newest of some messages.
NewestTS(S) == CHOOSE t \in {m.ts : m \in S} : \A m \in S : m.ts <= t
=============================================================================
