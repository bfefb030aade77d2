---------------------------- MODULE JoinedCache ----------------------------
(***************************************************************************)
(* joinedCache: one users.conversations listing shared by the phases of a  *)
(* sweep, and by whatever other tool calls run on the same workspace. A    *)
(* caller reuses a listing that is fresh enough, waits for a fetch that is *)
(* in flight, or makes the fetch itself; the fetch runs outside the lock.  *)
(*                                                                         *)
(* A listing is abstracted to how many changes of the operator's           *)
(* memberships it reflects; 0 stands for the empty listing, a nil slice.   *)
(***************************************************************************)
EXTENDS Integers

CONSTANTS
    Callers,        \* goroutines that call get
    JoinedTTL,      \* joinedTTL, in clock ticks
    MaxTime,        \* bound: the last clock tick
    MaxChanges,     \* bound: changes of the memberships
    MaxGets         \* bound: calls of get

ASSUME CacheAssumption ==
    /\ JoinedTTL \in Nat
    /\ MaxTime \in Nat /\ MaxChanges \in Nat /\ MaxGets \in Nat

VARIABLES
    cacheClock,      \* the time
    changes,    \* changes of the memberships so far
    list, at,   \* the cached listing and when it was stored
    inflight,   \* the call in flight, 0 for none
    joinedCalls,      \* the joinedCalls, by the get that made each
    getAt,         \* where each caller is
    mine,       \* the call a caller makes or waits for
    over,       \* callers whose context has ended
    out,        \* what a caller's get returned
    gets,       \* calls of get so far
    seen,       \* history: the newest listing any get has returned
    floor,      \* history: seen when each caller's get began
    errors,     \* history: failed fetches published so far
    before      \* history: errors when each caller's get began

envVars == <<cacheClock, changes>>
cacheVars == <<list, at, inflight, joinedCalls>>
callerVars == <<getAt, mine, over, out, gets>>
histVars == <<seen, floor, errors, before>>
joinedVars == <<envVars, cacheVars, callerVars, histVars>>

Nothing == [ok |-> FALSE, list |-> 0, own |-> FALSE]

CacheInit ==
    /\ cacheClock = 0 /\ changes = 0
    /\ list = 0 /\ at = 0 /\ inflight = 0
    /\ joinedCalls = [i \in 1 .. MaxGets |-> [list |-> 0, failed |-> FALSE, done |-> FALSE]]
    /\ getAt = [c \in Callers |-> "idle"]
    /\ mine = [c \in Callers |-> 0]
    /\ over = {}
    /\ out = [c \in Callers |-> Nothing]
    /\ gets = 0
    /\ seen = 0 /\ errors = 0
    /\ floor = [c \in Callers |-> 0]
    /\ before = [c \in Callers |-> 0]

-----------------------------------------------------------------------------
CacheTick ==
    /\ cacheClock < MaxTime
    /\ cacheClock' = cacheClock + 1
    /\ UNCHANGED <<changes, cacheVars, callerVars, histVars>>

\* The operator joins, leaves or is added to a conversation.
Change ==
    /\ changes < MaxChanges
    /\ changes' = changes + 1
    /\ UNCHANGED <<cacheClock, cacheVars, callerVars, histVars>>

\* A caller's deadline passes or its client goes away.
CallerEnds(c) ==
    /\ c \notin over
    /\ over' = over \cup {c}
    /\ UNCHANGED <<envVars, cacheVars, getAt, mine, out, gets, histVars>>

(***************************************************************************)
(* joinedCache.get.                                                        *)
(***************************************************************************)
Reusable == list # 0 /\ cacheClock - at < JoinedTTL

Newer(a, b) == IF a >= b THEN a ELSE b

\* A get ends with listing l.
Gives(c, l) ==
    /\ getAt' = [getAt EXCEPT ![c] = "returned"]
    /\ out' = [out EXCEPT ![c] = [ok |-> TRUE, list |-> l, own |-> FALSE]]
    /\ seen' = Newer(seen, l)

\* A get ends with an error, its own context's or the fetch's.
Fails(c, own) ==
    /\ getAt' = [getAt EXCEPT ![c] = "returned"]
    /\ out' = [out EXCEPT ![c] = [ok |-> FALSE, list |-> 0, own |-> own]]
    /\ seen' = seen

Begins(c) ==
    /\ getAt[c] = "idle" /\ gets < MaxGets
    /\ gets' = gets + 1
    /\ floor' = [floor EXCEPT ![c] = seen]
    /\ before' = [before EXCEPT ![c] = errors]
    /\ UNCHANGED <<envVars, over, errors>>

Hit(c) ==
    /\ Begins(c) /\ Reusable
    /\ Gives(c, list)
    /\ UNCHANGED <<cacheVars, mine>>

MutantNobodyFetches == FALSE

SomebodyFetches == inflight # 0

WaitForCall(c) ==
    /\ Begins(c) /\ ~ Reusable /\ SomebodyFetches
    /\ getAt' = [getAt EXCEPT ![c] = "waiting"]
    /\ mine' = [mine EXCEPT ![c] = inflight]
    /\ UNCHANGED <<cacheVars, out, seen>>

OwnFetch(c) ==
    /\ Begins(c) /\ ~ Reusable /\ ~ SomebodyFetches
    /\ inflight' = gets'
    /\ mine' = [mine EXCEPT ![c] = gets']
    /\ getAt' = [getAt EXCEPT ![c] = "fetching"]
    /\ UNCHANGED <<list, at, joinedCalls, out, seen>>

\* fetch reads the listing; it may take long to return afterwards.
FetchReads(c) ==
    /\ getAt[c] = "fetching" /\ c \notin over
    /\ joinedCalls' = [joinedCalls EXCEPT ![mine[c]] =
         [list |-> changes, failed |-> FALSE, done |-> FALSE]]
    /\ getAt' = [getAt EXCEPT ![c] = "fetched"]
    /\ UNCHANGED <<envVars, list, at, inflight, mine, over, out, gets, histVars>>

\* fetch fails, on an error of Slack's or on the owner's context.
FetchFails(c) ==
    /\ getAt[c] = "fetching"
    /\ joinedCalls' = [joinedCalls EXCEPT ![mine[c]] =
         [list |-> 0, failed |-> TRUE, done |-> FALSE]]
    /\ getAt' = [getAt EXCEPT ![c] = "fetched"]
    /\ UNCHANGED <<envVars, list, at, inflight, mine, over, out, gets, histVars>>

\* The second locked section.
MutantClearedOnSuccess(c) == IF joinedCalls[mine[c]].failed THEN inflight ELSE 0

Cleared(c) == 0

Publish(c) ==
    /\ getAt[c] = "fetched"
    /\ inflight' = Cleared(c)
    /\ IF joinedCalls[mine[c]].failed
       THEN list' = list /\ at' = at /\ errors' = errors + 1
       ELSE list' = joinedCalls[mine[c]].list /\ at' = cacheClock /\ errors' = errors
    /\ getAt' = [getAt EXCEPT ![c] = "closing"]
    /\ UNCHANGED <<envVars, joinedCalls, mine, over, out, gets, seen, floor, before>>

CloseCall(c) ==
    /\ getAt[c] = "closing"
    /\ joinedCalls' = [joinedCalls EXCEPT ![mine[c]] =
         [list |-> @.list, failed |-> @.failed, done |-> TRUE]]
    /\ IF joinedCalls[mine[c]].failed THEN Fails(c, FALSE) ELSE Gives(c, joinedCalls[mine[c]].list)
    /\ UNCHANGED <<envVars, list, at, inflight, mine, over, gets, floor, errors, before>>

CallDone(c) ==
    /\ getAt[c] = "waiting" /\ joinedCalls[mine[c]].done
    /\ IF joinedCalls[mine[c]].failed THEN Fails(c, FALSE) ELSE Gives(c, joinedCalls[mine[c]].list)
    /\ UNCHANGED <<envVars, cacheVars, mine, over, gets, floor, errors, before>>

LeaveCall(c) ==
    /\ getAt[c] = "waiting" /\ c \in over
    /\ Fails(c, TRUE)
    /\ UNCHANGED <<envVars, cacheVars, mine, over, gets, floor, errors, before>>

\* The caller starts afresh: another phase or tool call, with a context of
\* its own.
Again(c) ==
    /\ getAt[c] = "returned"
    /\ getAt' = [getAt EXCEPT ![c] = "idle"]
    /\ mine' = [mine EXCEPT ![c] = 0]
    /\ over' = over \ {c}
    /\ out' = [out EXCEPT ![c] = Nothing]
    /\ UNCHANGED <<envVars, cacheVars, gets, histVars>>

Get(c) ==
    \/ FetchReads(c) \/ FetchFails(c) \/ Publish(c) \/ CloseCall(c)
    \/ CallDone(c) \/ LeaveCall(c)

CacheNext ==
    \/ CacheTick \/ Change
    \/ \E c \in Callers :
         CallerEnds(c) \/ Again(c) \/ Hit(c) \/ WaitForCall(c) \/ OwnFetch(c) \/ Get(c)

CacheSpec == CacheInit /\ [][CacheNext]_joinedVars

\* A goroutine inside get keeps running, and its fetch returns.
CacheFairness == \A c \in Callers : WF_joinedVars(Get(c))

CacheFairSpec == CacheSpec /\ CacheFairness

-----------------------------------------------------------------------------
\* The types, and that the call in flight has exactly one owner, who is still
\* to publish it: nobody else's get can end it.
CacheTypeOK ==
    /\ cacheClock \in Nat /\ changes \in Nat /\ gets \in Nat
    /\ list \in Nat /\ at \in Nat /\ inflight \in Nat
    /\ joinedCalls \in [1 .. MaxGets -> [list : Nat, failed : BOOLEAN, done : BOOLEAN]]
    /\ getAt \in [Callers -> {"idle", "waiting", "fetching", "fetched", "closing", "returned"}]
    /\ mine \in [Callers -> Nat]
    /\ over \subseteq Callers
    /\ out \in [Callers -> [ok : BOOLEAN, list : Nat, own : BOOLEAN]]
    /\ seen \in Nat /\ floor \in [Callers -> Nat]
    /\ errors \in Nat /\ before \in [Callers -> Nat]
    /\ \A c \in Callers : getAt[c] \in {"fetching", "fetched"} => mine[c] = inflight
    /\ inflight # 0 =>
         \E c \in Callers : getAt[c] \in {"fetching", "fetched"} /\ mine[c] = inflight

\* No caller goes back in time: a get that began after another returned a
\* listing never returns an older one, although fetches, waits and stores
\* of several callers overlap.
MonotonicReads ==
    \A c \in Callers : getAt[c] = "returned" /\ out[c].ok => out[c].list >= floor[c]

\* An error is never cached: a get that fails without its own context
\* ending shares a fetch that failed after the get began.
ErrorIsFresh ==
    \A c \in Callers :
        getAt[c] = "returned" /\ ~ out[c].ok /\ ~ out[c].own => errors > before[c]

\* Every get returns, whoever fetches and however the fetch ends.
EveryGetReturns ==
    \A c \in Callers :
        getAt[c] \in {"waiting", "fetching"} ~> getAt[c] = "returned"
=============================================================================
