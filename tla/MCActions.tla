------------------------------ MODULE MCActions ------------------------------
(* Small instances of Actions for TLC: the messages that get written. *)
EXTENDS Actions

Says1(by, says, to, strong, weak) ==
    [by |-> by, says |-> says, to |-> to, strong |-> strong, weak |-> weak]

\* A peer asks by a day and puts a question that only mentions today; the
\* operator promises, asks somebody by a strong deadline, and reports.
Turns ==
    { Says1("peer", {"request"}, {"me"}, {}, {}),
      Says1("peer", {"question"}, {"me"}, {}, {0}),
      Says1("me", {"promise"}, {}, {}, {}),
      Says1("me", {"request"}, {"peer"}, {1}, {0}),
      Says1("other", {"done"}, {}, {}, {}) }
=============================================================================
