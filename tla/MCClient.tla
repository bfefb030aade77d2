------------------------------ MODULE MCClient ------------------------------
(***************************************************************************)
(* What the goroutines of one workspace's client share: the conversation   *)
(* listing, a sweep's DM pages, the names of people, and the retry loop    *)
(* every call goes through; and the process they run in. The five do not   *)
(* touch each other's state, so each behaviour runs one of them, the part  *)
(* chosen at the start.                                                    *)
(***************************************************************************)
EXTENDS RateLimit, JoinedCache, HistoryPages, UserNames, Lifecycle

CONSTANTS c1, c2, unread, window, third

VARIABLE part

clientVars == <<part, retryVars, joinedVars, pagesVars, userVars, lifeVars>>

\* The parts that do not run start in one fixed state, in which they owe no step.
Init ==
    /\ part \in {"retry", "listing", "pages", "names", "process"}
    /\ RetryInit /\ CacheInit /\ PagesInit /\ UserInit /\ LifeInit
    /\ part = "retry" \/ (~ hasDeadline /\ budget = 0 /\ ~ cancelled)
    /\ part = "names" \/ healthy
    /\ part = "process" \/ transport = "sse"

Next ==
    \/ part = "retry" /\ RetryNext /\ UNCHANGED <<part, joinedVars, pagesVars, userVars, lifeVars>>
    \/ part = "listing" /\ CacheNext /\ UNCHANGED <<part, retryVars, pagesVars, userVars, lifeVars>>
    \/ part = "pages" /\ PagesNext /\ UNCHANGED <<part, retryVars, joinedVars, userVars, lifeVars>>
    \/ part = "names" /\ UserNext /\ UNCHANGED <<part, retryVars, joinedVars, pagesVars, lifeVars>>
    \/ part = "process" /\ LifeNext /\ UNCHANGED <<part, retryVars, joinedVars, pagesVars, userVars>>

Spec == Init /\ [][Next]_clientVars /\ CacheFairness /\ PagesFairness /\ UserFairness /\ LifeFairness

\* Every variable of the five parts stays in its type, whichever of them runs.
TypeOK == RetryTypeOK /\ CacheTypeOK /\ PagesTypeOK /\ UserTypeOK /\ LifeTypeOK

\* Nobody waits for ever: callers of the listing and readers of the pages come back,
\* though the call they wait for fails or is cancelled (joined_cache.go, history_pages.go).
EveryCallReturns == EveryGetReturns /\ EveryLoadReturns
=============================================================================
