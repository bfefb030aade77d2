------------------------------ MODULE SlackPages ------------------------------
(***************************************************************************)
(* How Slack pages: conversations.history answers with the newest messages *)
(* up to a bound, with the oldest ones when only a lower bound is given;   *)
(* conversations.replies begins with the oldest replies                    *)
(* (internal/tools/history.go 11-27, ADR 111 and 113 measured it).         *)
(***************************************************************************)
EXTENDS Naturals, FiniteSets

NewestOf(msgs, n) == {m \in msgs : Cardinality({x \in msgs : x.ts > m.ts}) < n}
OldestOf(msgs, n) == {m \in msgs : Cardinality({x \in msgs : x.ts < m.ts}) < n}
=============================================================================
