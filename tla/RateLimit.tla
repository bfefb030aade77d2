----------------------------- MODULE RateLimit -----------------------------
(***************************************************************************)
(* ratelimit.Do: one Slack call, retried after the wait Slack asks for.    *)
(* Every Slack read and write of the server goes through it, under a       *)
(* context that may carry a deadline (a sweep's) and may be cancelled (the *)
(* caller went away). Times are durations that run down with Tick, so that *)
(* nothing but the waits themselves needs a bound.                         *)
(***************************************************************************)
EXTENDS Integers

CONSTANTS
    MaxRetries,     \* maxRetries, or DefaultMaxRetries when none is given
    RetryAfters,    \* waits Slack may ask for; 0 when it names none
    Budgets         \* times to the deadline Do may be called with

ASSUME RetryAssumption ==
    /\ MaxRetries \in Nat
    /\ RetryAfters \subseteq Nat
    /\ Budgets \subseteq Nat

VARIABLES
    hasDeadline,    \* the context carries a deadline
    budget,         \* what is left until it
    cancelled,      \* the context was cancelled
    doAt,             \* where Do is
    attempt,        \* the loop variable
    backoff,        \* 1 << attempt
    left,           \* what is left of the wait in progress
    last,           \* lastErr: how the last call of fn ended
    calls,          \* history: calls of fn so far
    result          \* what Do returned

ctxVars == <<hasDeadline, budget, cancelled>>
retryVars == <<ctxVars, doAt, attempt, backoff, left, last, calls, result>>

\* ctx.Err() is not nil.
ContextOver == cancelled \/ (hasDeadline /\ budget = 0)

RetryInit ==
    /\ hasDeadline \in BOOLEAN /\ budget \in Budgets /\ cancelled \in BOOLEAN
    /\ doAt = "check" /\ attempt = 0 /\ backoff = 1 /\ left = 0
    /\ last = "none" /\ calls = 0 /\ result = "none"

(***************************************************************************)
(* Time passes in a call of fn and in a wait. The deadline is checked and  *)
(* the wait started in one instant.                                        *)
(***************************************************************************)
MutantElapsePastZero(n) == n - 1

Elapse(n) == IF n = 0 THEN 0 ELSE n - 1

RetryTick ==
    /\ doAt \in {"calling", "waiting"}
    /\ budget > 0 \/ left > 0
    /\ budget' = Elapse(budget)
    /\ left' = Elapse(left)
    /\ UNCHANGED <<hasDeadline, cancelled, doAt, attempt, backoff, last, calls, result>>

Cancel ==
    /\ ~ cancelled /\ doAt # "returned"
    /\ cancelled' = TRUE
    /\ UNCHANGED <<hasDeadline, budget, doAt, attempt, backoff, left, last, calls, result>>

(***************************************************************************)
(* The loop.                                                               *)
(***************************************************************************)
Return(r) ==
    /\ doAt' = "returned"
    /\ result' = r

MutantRetriesOnceMore == attempt > MaxRetries + 1

Exhausted == attempt > MaxRetries

Call ==
    /\ doAt = "check" /\ ~ Exhausted /\ ~ ContextOver
    /\ doAt' = "calling"
    /\ calls' = calls + 1
    /\ UNCHANGED <<ctxVars, attempt, backoff, left, last, result>>

Refuse ==
    /\ doAt = "check"
    /\ \/ Exhausted /\ Return(last)
       \/ ~ Exhausted /\ ContextOver /\ Return("context")
    /\ UNCHANGED <<ctxVars, attempt, backoff, left, last, calls>>

\* fn succeeds, or fails with an error that is not a rate limit.
Answer ==
    /\ doAt = "calling"
    /\ \E r \in {"ok", "error"} : last' = r /\ Return(r)
    /\ UNCHANGED <<ctxVars, attempt, backoff, left, calls>>

\* The wait Do puts in when Slack names none doubles with every attempt.
WaitFor(after) == IF after > 0 THEN after ELSE backoff

\* A wait the deadline cannot cover is not worth starting.
MutantOnlySpentBudgets(w) == hasDeadline /\ budget = 0

Hopeless(w) == hasDeadline /\ budget < w

GiveUp(after) ==
    /\ Hopeless(WaitFor(after))
    /\ Return("limited")
    /\ left' = left

StartWait(after) ==
    /\ ~ Hopeless(WaitFor(after))
    /\ doAt' = "waiting"
    /\ left' = WaitFor(after)
    /\ result' = result

Limited ==
    /\ doAt = "calling"
    /\ last' = "limited"
    /\ \E after \in RetryAfters : GiveUp(after) \/ StartWait(after)
    /\ UNCHANGED <<ctxVars, attempt, backoff, calls>>

\* The timer fires.
Wake ==
    /\ doAt = "waiting" /\ left = 0
    /\ doAt' = "check"
    /\ attempt' = attempt + 1 /\ backoff' = 2 * backoff
    /\ UNCHANGED <<ctxVars, left, last, calls, result>>

\* ctx.Done() fires; when both are ready the select takes either.
Interrupt ==
    /\ doAt = "waiting" /\ ContextOver
    /\ Return("context")
    /\ UNCHANGED <<ctxVars, attempt, backoff, left, last, calls>>

RetryNext ==
    \/ RetryTick \/ Cancel
    \/ Call \/ Refuse \/ Answer \/ Limited \/ Wake \/ Interrupt

RetrySpec == RetryInit /\ [][RetryNext]_retryVars

-----------------------------------------------------------------------------
RetryTypeOK ==
    /\ hasDeadline \in BOOLEAN /\ budget \in Nat /\ cancelled \in BOOLEAN
    /\ doAt \in {"check", "calling", "waiting", "returned"}
    /\ attempt \in Nat /\ backoff \in Nat /\ left \in Nat /\ calls \in Nat
    /\ last \in {"none", "ok", "error", "limited"}
    /\ result \in {"none", "ok", "error", "limited", "context"}

\* A wait in progress always ends before the deadline does, so that a
\* sweep's budget is never slept away by a call that fails anyway.
WaitFitsDeadline == doAt = "waiting" /\ hasDeadline => left <= budget

\* Do reports what happened: success or another error exactly when fn's last
\* call ended so, a rate limit only when every retry was used up or the
\* deadline forbade the next one, the context's error only when it is over.
HonestOutcome ==
    doAt = "returned" =>
        /\ result \in {"ok", "error"} => result = last
        /\ result = "limited" =>
             last = "limited" /\ (calls = MaxRetries + 1 \/ hasDeadline)
        /\ result = "context" => ContextOver /\ last \in {"none", "limited"}
        /\ result # "none" /\ calls <= MaxRetries + 1

=============================================================================
