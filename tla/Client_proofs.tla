---------------------------- MODULE Client_proofs ----------------------------
(***************************************************************************)
(* Theorems about what the goroutines of one client share and the process  *)
(* they run in, for any number of callers, readers and messages, any       *)
(* retries, deadlines and lifetimes. Each part has its own invariant; the  *)
(* last section puts the five together.                                    *)
(***************************************************************************)
EXTENDS MCClient, FiniteSetTheorems, TLAPS

(***************************************************************************)
(* ratelimit.Do.                                                           *)
(***************************************************************************)
\* Where Do is fixes how often fn was called and how its last call ended.
LoopOK ==
    /\ doAt = "check" =>
         /\ calls = attempt /\ attempt <= MaxRetries + 1
         /\ last = IF attempt = 0 THEN "none" ELSE "limited"
    /\ doAt = "calling" =>
         /\ calls = attempt + 1 /\ attempt <= MaxRetries
         /\ last \in {"none", "limited"}
    /\ doAt = "waiting" =>
         calls = attempt + 1 /\ attempt <= MaxRetries /\ last = "limited"

RetryInv == RetryTypeOK /\ LoopOK /\ WaitFitsDeadline /\ HonestOutcome

USE RetryAssumption DEF retryVars, ctxVars

\* The first state satisfies the invariant.
LEMMA RetryInvInit == RetryInit => RetryInv
BY DEF RetryInit, RetryInv, RetryTypeOK, LoopOK, WaitFitsDeadline, HonestOutcome

\* Every action keeps the invariant.
LEMMA RetryStep == RetryInv /\ [RetryNext]_retryVars => RetryInv'
<1> SUFFICES ASSUME RetryInv, [RetryNext]_retryVars PROVE RetryInv'
  OBVIOUS
<1> USE DEF RetryInv, RetryTypeOK, LoopOK, WaitFitsDeadline, HonestOutcome, Return
<1>1. CASE RetryTick
  BY <1>1 DEF RetryTick, Elapse
<1>2. CASE Cancel
  BY <1>2 DEF Cancel, ContextOver
<1>3. CASE Call
  BY <1>3 DEF Call, Exhausted
<1>4. CASE Refuse
  BY <1>4 DEF Refuse, Exhausted, ContextOver
<1>5. CASE Answer
  BY <1>5 DEF Answer
<1>6. CASE Limited
  <2>1. PICK after \in RetryAfters : GiveUp(after) \/ StartWait(after)
    BY <1>6 DEF Limited
  <2>2. WaitFor(after) \in Nat
    BY DEF WaitFor
  <2>3. CASE GiveUp(after)
    BY <1>6, <2>3 DEF Limited, GiveUp, Hopeless
  <2>4. CASE StartWait(after)
    BY <1>6, <2>2, <2>4 DEF Limited, StartWait, Hopeless
  <2> QED
    BY <2>1, <2>3, <2>4
<1>7. CASE Wake
  BY <1>7 DEF Wake
<1>8. CASE Interrupt
  BY <1>8 DEF Interrupt, ContextOver
<1>9. CASE UNCHANGED retryVars
  BY <1>9 DEF ContextOver
<1> QED
  BY <1>1, <1>2, <1>3, <1>4, <1>5, <1>6, <1>7, <1>8, <1>9 DEF RetryNext

\* The invariant holds throughout.
LEMMA RetryInvariant == RetrySpec => []RetryInv
BY RetryInvInit, RetryStep, PTL DEF RetrySpec

\* Every variable of ratelimit.Do keeps its type, whatever waits Slack asks for.
THEOREM RetryTypeCorrect == RetrySpec => []RetryTypeOK
<1>1. RetryInv => RetryTypeOK
  BY DEF RetryInv
<1> QED
  BY <1>1, RetryInvariant, PTL

\* No wait of ratelimit.Do outlasts the context's deadline.
THEOREM NoHopelessWait == RetrySpec => []WaitFitsDeadline
<1>1. RetryInv => WaitFitsDeadline
  BY DEF RetryInv
<1> QED
  BY <1>1, RetryInvariant, PTL

\* Do returns what its last call or its context gave it, after at most
\* MaxRetries + 1 calls.
THEOREM OutcomeIsHonest == RetrySpec => []HonestOutcome
<1>1. RetryInv => HonestOutcome
  BY DEF RetryInv
<1> QED
  BY <1>1, RetryInvariant, PTL

HIDE RetryAssumption DEF retryVars, ctxVars

(***************************************************************************)
(* joinedCache.get. Why no caller goes back in time: listings enter the    *)
(* cache in the order they were fetched, because only one call is in       *)
(* flight at a time, so the cached listing is at least as new as any       *)
(* listing a get has returned, and whatever a get may still return is at   *)
(* least as new as the listing that was cached when the get began.         *)
(***************************************************************************)
\* Calls that no get has made yet are untouched, and nobody has one.
CallsFresh ==
    /\ gets <= MaxGets
    /\ \A i \in 1 .. MaxGets : i > gets => ~ joinedCalls[i].done /\ ~ joinedCalls[i].failed
    /\ inflight <= gets
    /\ inflight # 0 => ~ joinedCalls[inflight].done
    /\ \A c \in Callers : mine[c] <= gets
    /\ \A c \in Callers :
         getAt[c] \in {"waiting", "fetching", "fetched", "closing"} => mine[c] # 0

\* A single caller fetches, and what is published is not in flight.
OneFetch ==
    /\ \A c, d \in Callers :
         getAt[c] \in {"fetching", "fetched"} /\ getAt[d] \in {"fetching", "fetched"} => c = d
    /\ \A c \in Callers : getAt[c] = "closing" => mine[c] # inflight

\* How new each listing is.
InOrder ==
    /\ seen <= list /\ list <= changes
    /\ \A c \in Callers :
         /\ getAt[c] \in {"fetching", "fetched"} => floor[c] <= list
         /\ getAt[c] = "fetched" /\ ~ joinedCalls[mine[c]].failed => list <= joinedCalls[mine[c]].list
         /\ getAt[c] = "fetched" => joinedCalls[mine[c]].list <= changes
         /\ getAt[c] = "waiting" /\ mine[c] = inflight => floor[c] <= list
         /\ \/ getAt[c] = "waiting" /\ mine[c] # inflight
            \/ getAt[c] = "closing"
            => \/ joinedCalls[mine[c]].failed
               \/ floor[c] <= joinedCalls[mine[c]].list /\ joinedCalls[mine[c]].list <= list
         /\ getAt[c] = "returned" /\ out[c].ok => out[c].list >= floor[c]

\* A failure a get may still report was published after the get began.
ErrorsInOrder ==
    \A c \in Callers :
        /\ before[c] <= errors
        /\ \/ getAt[c] = "waiting" /\ mine[c] # inflight
           \/ getAt[c] = "closing"
           => (joinedCalls[mine[c]].failed => before[c] < errors)
        /\ getAt[c] = "returned" /\ ~ out[c].ok /\ ~ out[c].own => before[c] < errors

CacheInv == CacheTypeOK /\ CallsFresh /\ OneFetch /\ InOrder /\ ErrorsInOrder

USE CacheAssumption DEF joinedVars, envVars, cacheVars, callerVars, histVars

\* The first state satisfies the invariant.
LEMMA CacheInvInit == CacheInit => CacheInv
BY DEF CacheInit, CacheInv, CacheTypeOK, CallsFresh, OneFetch, InOrder, ErrorsInOrder, Nothing

\* Every action keeps the invariant.
LEMMA CacheStep == CacheInv /\ [CacheNext]_joinedVars => CacheInv'
<1> SUFFICES ASSUME CacheInv, [CacheNext]_joinedVars PROVE CacheInv'
  OBVIOUS
<1> USE DEF CacheInv
<1>0. \A d \in Callers :
         getAt[d] \in {"waiting", "fetching", "fetched", "closing"} =>
             /\ mine[d] \in 1 .. MaxGets
             /\ joinedCalls[mine[d]] \in [list : Nat, failed : BOOLEAN, done : BOOLEAN]
  BY DEF CacheTypeOK, CallsFresh
<1>1. CASE CacheTick
  BY <1>1 DEF CacheTypeOK, CallsFresh, OneFetch, InOrder, ErrorsInOrder, CacheTick
<1>2. CASE Change
  BY <1>2 DEF CacheTypeOK, CallsFresh, OneFetch, InOrder, ErrorsInOrder, Change
<1>3. ASSUME NEW c \in Callers, CallerEnds(c) PROVE CacheInv'
  BY <1>3 DEF CacheTypeOK, CallsFresh, OneFetch, InOrder, ErrorsInOrder, CallerEnds
<1>4. ASSUME NEW c \in Callers, Again(c) PROVE CacheInv'
  <2>1. CacheTypeOK'
    BY <1>4 DEF CacheTypeOK, OneFetch, Again, Nothing
  <2>2. CallsFresh'
    BY <1>4 DEF CacheTypeOK, CallsFresh, OneFetch, Again, Nothing
  <2>3. OneFetch'
    BY <1>4 DEF CacheTypeOK, CallsFresh, OneFetch, Again, Nothing
  <2>4. InOrder'
    BY <1>4 DEF CacheTypeOK, CallsFresh, OneFetch, InOrder, Again, Nothing
  <2>5. ErrorsInOrder'
    BY <1>4 DEF CacheTypeOK, CallsFresh, OneFetch, ErrorsInOrder, Again, Nothing
  <2> QED
    BY <2>1, <2>2, <2>3, <2>4, <2>5
<1>5. ASSUME NEW c \in Callers, Hit(c) PROVE CacheInv'
  <2>1. CacheTypeOK'
    BY <1>5 DEF CacheTypeOK, OneFetch, Hit, Begins, Gives, Newer, Reusable
  <2>2. CallsFresh'
    BY <1>5 DEF CacheTypeOK, CallsFresh, OneFetch, Hit, Begins, Gives, Newer, Reusable
  <2>3. OneFetch'
    BY <1>5 DEF CacheTypeOK, CallsFresh, OneFetch, Hit, Begins, Gives, Newer, Reusable
  <2>4. InOrder'
    BY <1>5 DEF CacheTypeOK, CallsFresh, OneFetch, InOrder, Hit, Begins, Gives, Newer, Reusable
  <2>5. ErrorsInOrder'
    BY <1>5 DEF CacheTypeOK, CallsFresh, OneFetch, ErrorsInOrder, Hit, Begins, Gives, Newer, Reusable
  <2> QED
    BY <2>1, <2>2, <2>3, <2>4, <2>5
<1>6. ASSUME NEW c \in Callers, WaitForCall(c) PROVE CacheInv'
  <2>1. CacheTypeOK'
    BY <1>6 DEF CacheTypeOK, OneFetch, WaitForCall, Begins, SomebodyFetches
  <2>2. CallsFresh'
    <3>1. gets' <= MaxGets /\ inflight' <= gets' /\ gets' = gets + 1
      BY <1>6 DEF CacheTypeOK, CallsFresh, WaitForCall, Begins
    <3>2. \A d \in Callers : mine'[d] <= gets'
      BY <1>6 DEF CacheTypeOK, CallsFresh, WaitForCall, Begins
    <3>3. \A i \in 1 .. MaxGets : i > gets' => ~ joinedCalls'[i].done /\ ~ joinedCalls'[i].failed
      BY <1>6 DEF CacheTypeOK, CallsFresh, WaitForCall, Begins
    <3>4. \A d \in Callers :
            getAt'[d] \in {"waiting", "fetching", "fetched", "closing"} => mine'[d] # 0
      BY <1>6 DEF CacheTypeOK, CallsFresh, WaitForCall, Begins, SomebodyFetches
    <3>5. inflight' # 0 => ~ joinedCalls'[inflight'].done
      BY <1>6 DEF CallsFresh, WaitForCall, Begins
    <3> QED
      BY <3>1, <3>2, <3>3, <3>4, <3>5 DEF CallsFresh
  <2>3. OneFetch'
    BY <1>6 DEF CacheTypeOK, CallsFresh, OneFetch, WaitForCall, Begins, SomebodyFetches
  <2>4. InOrder'
    BY <1>6 DEF CacheTypeOK, CallsFresh, OneFetch, InOrder, WaitForCall, Begins, SomebodyFetches
  <2>5. ErrorsInOrder'
    BY <1>6 DEF CacheTypeOK, CallsFresh, OneFetch, ErrorsInOrder, WaitForCall, Begins, SomebodyFetches
  <2> QED
    BY <2>1, <2>2, <2>3, <2>4, <2>5
<1>7. ASSUME NEW c \in Callers, OwnFetch(c) PROVE CacheInv'
  <2>1. CacheTypeOK'
    BY <1>7 DEF CacheTypeOK, CallsFresh, OneFetch, OwnFetch, Begins, SomebodyFetches
  <2>2. CallsFresh'
    BY <1>7 DEF CacheTypeOK, CallsFresh, OneFetch, OwnFetch, Begins, SomebodyFetches
  <2>3. OneFetch'
    <3>1. \A d \in Callers : getAt[d] \notin {"fetching", "fetched"}
      BY <1>7 DEF CacheTypeOK, CallsFresh, OwnFetch, SomebodyFetches
    <3>2. gets \in Nat /\ inflight' = gets + 1 /\ \A d \in Callers : mine[d] \in Nat /\ mine[d] <= gets
      BY <1>7 DEF CacheTypeOK, CallsFresh, OwnFetch, Begins
    <3>3. \A d \in Callers : getAt'[d] = (IF d = c THEN "fetching" ELSE getAt[d])
      BY <1>7 DEF CacheTypeOK, OwnFetch
    <3>4. \A d \in Callers : d # c => mine'[d] = mine[d]
      BY <1>7 DEF CacheTypeOK, OwnFetch
    <3> QED
      BY <3>1, <3>2, <3>3, <3>4 DEF OneFetch
  <2>4. InOrder'
    BY <1>7 DEF CacheTypeOK, CallsFresh, OneFetch, InOrder, OwnFetch, Begins, SomebodyFetches
  <2>5. ErrorsInOrder'
    BY <1>7 DEF CacheTypeOK, CallsFresh, OneFetch, ErrorsInOrder, OwnFetch, Begins, SomebodyFetches
  <2> QED
    BY <2>1, <2>2, <2>3, <2>4, <2>5
<1>8. ASSUME NEW c \in Callers, FetchReads(c) PROVE CacheInv'
  <2>1. CacheTypeOK'
    BY <1>8 DEF CacheTypeOK, OneFetch, FetchReads
  <2>2. CallsFresh'
    BY <1>8 DEF CacheTypeOK, CallsFresh, OneFetch, FetchReads
  <2>3. OneFetch'
    BY <1>8 DEF CacheTypeOK, CallsFresh, OneFetch, FetchReads
  <2>4. InOrder'
    BY <1>8 DEF CacheTypeOK, CallsFresh, OneFetch, InOrder, FetchReads
  <2>5. ErrorsInOrder'
    BY <1>8 DEF CacheTypeOK, CallsFresh, OneFetch, ErrorsInOrder, FetchReads
  <2> QED
    BY <2>1, <2>2, <2>3, <2>4, <2>5
<1>9. ASSUME NEW c \in Callers, FetchFails(c) PROVE CacheInv'
  <2>1. CacheTypeOK'
    BY <1>9 DEF CacheTypeOK, OneFetch, FetchFails
  <2>2. CallsFresh'
    BY <1>9 DEF CacheTypeOK, CallsFresh, OneFetch, FetchFails
  <2>3. OneFetch'
    BY <1>9 DEF CacheTypeOK, CallsFresh, OneFetch, FetchFails
  <2>4. InOrder'
    BY <1>9 DEF CacheTypeOK, CallsFresh, OneFetch, InOrder, FetchFails
  <2>5. ErrorsInOrder'
    BY <1>9 DEF CacheTypeOK, CallsFresh, OneFetch, ErrorsInOrder, FetchFails
  <2> QED
    BY <2>1, <2>2, <2>3, <2>4, <2>5
<1>10. ASSUME NEW c \in Callers, Publish(c) PROVE CacheInv'
  <2>1. CacheTypeOK'
    <3>1. /\ inflight' = 0 /\ getAt' = [getAt EXCEPT ![c] = "closing"]
          /\ UNCHANGED <<cacheClock, changes, joinedCalls, mine, over, out, gets, seen, floor, before>>
      BY <1>10 DEF Publish, Cleared, envVars
    <3>2. joinedCalls[mine[c]] \in [list : Nat, failed : BOOLEAN, done : BOOLEAN]
      BY <1>0, <1>10 DEF CacheTypeOK, CallsFresh, Publish
    <3>3. list' \in Nat /\ at' \in Nat /\ errors' \in Nat
      BY <1>0, <1>10, <3>2 DEF CacheTypeOK, Publish
    <3>4. \A d \in Callers : getAt'[d] \notin {"fetching", "fetched"}
      BY <1>0, <1>10, <3>1 DEF CacheTypeOK, OneFetch, Publish
    <3> QED
      BY <1>0, <3>1, <3>3, <3>4 DEF CacheTypeOK
  <2>2. CallsFresh'
    BY <1>0, <1>10 DEF CacheTypeOK, CallsFresh, OneFetch, Publish, Cleared
  <2>3. OneFetch'
    BY <1>0, <1>10 DEF CacheTypeOK, CallsFresh, OneFetch, Publish, Cleared
  <2>4. InOrder'
    <3>1. mine[c] = inflight /\ inflight # 0 /\ inflight' = 0
      BY <1>0, <1>10 DEF CacheTypeOK, Publish, Cleared
    <3>2. seen' <= list' /\ list' <= changes' /\ list <= list'
      BY <1>0, <1>10 DEF CacheTypeOK, InOrder, Publish
    <3>3. ASSUME NEW d \in Callers, getAt[d] = "waiting", mine[d] = inflight
          PROVE  joinedCalls[mine[d]].failed \/ (floor[d] <= joinedCalls[mine[d]].list /\ joinedCalls[mine[d]].list <= list')
      BY <1>0, <1>10, <3>1, <3>3 DEF CacheTypeOK, InOrder, Publish
    <3>4. joinedCalls[mine[c]].failed \/ (floor[c] <= joinedCalls[mine[c]].list /\ joinedCalls[mine[c]].list <= list')
      BY <1>0, <1>10 DEF CacheTypeOK, InOrder, Publish
    <3>5. ASSUME NEW d \in Callers, d # c PROVE getAt'[d] = getAt[d] /\ getAt[d] \notin {"fetching", "fetched"}
      BY <1>10, <3>5 DEF CacheTypeOK, OneFetch, Publish
    <3>6. getAt'[c] = "closing"
      BY <1>10 DEF CacheTypeOK, Publish
    <3>7. ASSUME NEW d \in Callers,
                 (getAt'[d] = "waiting" /\ mine'[d] # inflight') \/ getAt'[d] = "closing"
          PROVE  joinedCalls[mine[d]].failed \/ (floor[d] <= joinedCalls[mine[d]].list /\ joinedCalls[mine[d]].list <= list')
      <4>1. CASE d = c
        BY <3>4, <4>1
      <4>2. CASE d # c /\ getAt[d] = "waiting" /\ mine[d] = inflight
        BY <3>3, <4>2
      <4>3. CASE d # c /\ ((getAt[d] = "waiting" /\ mine[d] # inflight) \/ getAt[d] = "closing")
        <5>1. joinedCalls[mine[d]].failed
              \/ (floor[d] <= joinedCalls[mine[d]].list /\ joinedCalls[mine[d]].list <= list)
          BY <4>3 DEF InOrder
        <5>2. list \in Nat /\ list' \in Nat /\ joinedCalls[mine[d]].list \in Nat
          BY <1>0, <1>10, <4>3 DEF CacheTypeOK, Publish
        <5> QED
          BY <3>2, <5>1, <5>2
      <4> QED
        BY <3>5, <3>7, <4>1, <4>2, <4>3, <1>10 DEF Publish
    <3>8. \A d \in Callers : getAt'[d] = "waiting" => mine'[d] # inflight'
      BY <1>0, <1>10, <3>1, <3>5, <3>6 DEF Publish
    <3>9. \A d \in Callers : getAt'[d] = "returned" /\ out'[d].ok => out'[d].list >= floor'[d]
      BY <1>10, <3>5, <3>6 DEF InOrder, Publish
    <3> QED
      BY <1>10, <3>2, <3>5, <3>6, <3>7, <3>8, <3>9 DEF InOrder, Publish
  <2>5. ErrorsInOrder'
    BY <1>0, <1>10 DEF CacheTypeOK, CallsFresh, OneFetch, ErrorsInOrder, Publish, Cleared
  <2> QED
    BY <2>1, <2>2, <2>3, <2>4, <2>5
<1>11. ASSUME NEW c \in Callers, CloseCall(c) PROVE CacheInv'
  <2>1. mine[c] \in 1 .. MaxGets /\ mine[c] # inflight
    BY <1>0, <1>11 DEF OneFetch, CloseCall
  <2>2. joinedCalls' \in [1 .. MaxGets -> [list : Nat, failed : BOOLEAN, done : BOOLEAN]]
    BY <1>11, <2>1 DEF CacheTypeOK, CloseCall
  <2>3. \A i \in 1 .. MaxGets :
          /\ joinedCalls'[i].list = joinedCalls[i].list /\ joinedCalls'[i].failed = joinedCalls[i].failed
          /\ i # mine[c] => joinedCalls'[i].done = joinedCalls[i].done
    BY <1>11, <2>1 DEF CacheTypeOK, CloseCall
  <2>4. \A d \in Callers : d # c => getAt'[d] = getAt[d] /\ out'[d] = out[d]
    BY <1>11 DEF CacheTypeOK, CloseCall, Gives, Fails
  <2>5. getAt'[c] = "returned" /\ getAt[c] = "closing"
    BY <1>11 DEF CacheTypeOK, CloseCall, Gives, Fails
  <2>6. /\ mine' = mine /\ gets' = gets /\ inflight' = inflight /\ list' = list
        /\ changes' = changes /\ floor' = floor /\ before' = before /\ errors' = errors
    BY <1>11 DEF CloseCall
  <2>7. out'[c] = IF joinedCalls[mine[c]].failed
                  THEN [ok |-> FALSE, list |-> 0, own |-> FALSE]
                  ELSE [ok |-> TRUE, list |-> joinedCalls[mine[c]].list, own |-> FALSE]
    BY <1>11 DEF CacheTypeOK, CloseCall, Gives, Fails
  <2>8. seen' \in Nat /\ seen' <= list
    BY <1>0, <1>11 DEF CacheTypeOK, InOrder, CloseCall, Gives, Fails, Newer
  <2>9. \A d \in Callers :
          getAt[d] \in {"waiting", "fetching", "fetched", "closing"} =>
              joinedCalls'[mine[d]].list = joinedCalls[mine[d]].list /\ joinedCalls'[mine[d]].failed = joinedCalls[mine[d]].failed
    BY <1>0, <2>3
  <2>10. CacheTypeOK'
    <3>1. getAt' \in [Callers -> {"idle", "waiting", "fetching", "fetched", "closing", "returned"}]
      BY <1>11 DEF CacheTypeOK, CloseCall, Gives, Fails
    <3>2. out'[c] \in [ok : BOOLEAN, list : Nat, own : BOOLEAN]
      <4>1. CASE joinedCalls[mine[c]].failed
        BY <4>1, <2>7
      <4>2. CASE ~ joinedCalls[mine[c]].failed
        BY <1>0, <1>11, <4>2, <2>7 DEF CloseCall
      <4> QED
        BY <4>1, <4>2
    <3>3. out' = [out EXCEPT ![c] = out'[c]]
      BY <1>11 DEF CacheTypeOK, CloseCall, Gives, Fails
    <3>4. out' \in [Callers -> [ok : BOOLEAN, list : Nat, own : BOOLEAN]]
      BY <3>2, <3>3 DEF CacheTypeOK
    <3>5. inflight' # 0 =>
            \E d \in Callers : getAt'[d] \in {"fetching", "fetched"} /\ mine'[d] = inflight'
      BY <2>4, <2>5, <2>6 DEF CacheTypeOK
    <3> QED
      BY <1>11, <2>2, <2>4, <2>5, <2>6, <2>8, <3>1, <3>4, <3>5 DEF CacheTypeOK, CloseCall
  <2>11. CallsFresh'
    <3>1. inflight' # 0 => ~ joinedCalls'[inflight'].done
      BY <2>1, <2>3, <2>6 DEF CacheTypeOK, CallsFresh
    <3>2. ASSUME NEW i \in 1 .. MaxGets, i > gets'
          PROVE  ~ joinedCalls'[i].done /\ ~ joinedCalls'[i].failed
      <4>1. i > gets /\ i # mine[c]
        BY <2>1, <2>6, <3>2 DEF CacheTypeOK, CallsFresh
      <4>2. ~ joinedCalls[i].done /\ ~ joinedCalls[i].failed
        BY <4>1 DEF CallsFresh
      <4> QED
        BY <2>3, <4>1, <4>2
    <3> QED
      BY <2>4, <2>5, <2>6, <3>1, <3>2 DEF CallsFresh
  <2>12. OneFetch'
    BY <2>4, <2>5, <2>6 DEF OneFetch
  <2>13. InOrder'
    BY <2>4, <2>5, <2>6, <2>7, <2>8, <2>9 DEF InOrder
  <2>14. ErrorsInOrder'
    BY <2>4, <2>5, <2>6, <2>7, <2>9 DEF ErrorsInOrder
  <2> QED
    BY <2>10, <2>11, <2>12, <2>13, <2>14
<1>12. ASSUME NEW c \in Callers, CallDone(c) PROVE CacheInv'
  <2>1. mine[c] \in 1 .. MaxGets /\ mine[c] # inflight
    BY <1>0, <1>12 DEF CallsFresh, CallDone
  <2>2. \A d \in Callers : d # c => getAt'[d] = getAt[d] /\ out'[d] = out[d]
    BY <1>12 DEF CacheTypeOK, CallDone, Gives, Fails
  <2>3. getAt'[c] = "returned" /\ getAt[c] = "waiting"
    BY <1>12 DEF CacheTypeOK, CallDone, Gives, Fails
  <2>4. /\ mine' = mine /\ gets' = gets /\ inflight' = inflight /\ list' = list /\ joinedCalls' = joinedCalls
        /\ changes' = changes /\ floor' = floor /\ before' = before /\ errors' = errors
    BY <1>12 DEF CallDone
  <2>5. out'[c] = IF joinedCalls[mine[c]].failed
                  THEN [ok |-> FALSE, list |-> 0, own |-> FALSE]
                  ELSE [ok |-> TRUE, list |-> joinedCalls[mine[c]].list, own |-> FALSE]
    BY <1>12 DEF CacheTypeOK, CallDone, Gives, Fails
  <2>6. seen' \in Nat /\ seen' <= list
    BY <1>0, <1>12, <2>1 DEF CacheTypeOK, InOrder, CallDone, Gives, Fails, Newer
  <2>7. CacheTypeOK'
    <3>1. getAt' \in [Callers -> {"idle", "waiting", "fetching", "fetched", "closing", "returned"}]
      BY <1>12 DEF CacheTypeOK, CallDone, Gives, Fails
    <3>2. out'[c] \in [ok : BOOLEAN, list : Nat, own : BOOLEAN]
      <4>1. CASE joinedCalls[mine[c]].failed
        BY <4>1, <2>5
      <4>2. CASE ~ joinedCalls[mine[c]].failed
        BY <1>0, <1>12, <4>2, <2>5 DEF CallDone
      <4> QED
        BY <4>1, <4>2
    <3>3. out' = [out EXCEPT ![c] = out'[c]]
      BY <1>12 DEF CacheTypeOK, CallDone, Gives, Fails
    <3>4. out' \in [Callers -> [ok : BOOLEAN, list : Nat, own : BOOLEAN]]
      BY <3>2, <3>3 DEF CacheTypeOK
    <3>5. inflight' # 0 =>
            \E d \in Callers : getAt'[d] \in {"fetching", "fetched"} /\ mine'[d] = inflight'
      BY <2>2, <2>3, <2>4 DEF CacheTypeOK
    <3> QED
      BY <1>12, <2>2, <2>3, <2>4, <2>6, <3>1, <3>4, <3>5 DEF CacheTypeOK, CallDone
  <2>8. CallsFresh'
    BY <2>2, <2>3, <2>4 DEF CallsFresh
  <2>9. OneFetch'
    BY <2>2, <2>3, <2>4 DEF OneFetch
  <2>10. InOrder'
    BY <2>1, <2>2, <2>3, <2>4, <2>5, <2>6 DEF InOrder
  <2>11. ErrorsInOrder'
    BY <2>1, <2>2, <2>3, <2>4, <2>5 DEF ErrorsInOrder
  <2> QED
    BY <2>7, <2>8, <2>9, <2>10, <2>11
<1>13. ASSUME NEW c \in Callers, LeaveCall(c) PROVE CacheInv'
  <2>1. CacheTypeOK'
    BY <1>13 DEF CacheTypeOK, OneFetch, LeaveCall, Fails
  <2>2. CallsFresh'
    BY <1>13 DEF CacheTypeOK, CallsFresh, OneFetch, LeaveCall, Fails
  <2>3. OneFetch'
    BY <1>13 DEF CacheTypeOK, CallsFresh, OneFetch, LeaveCall, Fails
  <2>4. InOrder'
    BY <1>13 DEF CacheTypeOK, CallsFresh, OneFetch, InOrder, LeaveCall, Fails
  <2>5. ErrorsInOrder'
    BY <1>13 DEF CacheTypeOK, CallsFresh, OneFetch, ErrorsInOrder, LeaveCall, Fails
  <2> QED
    BY <2>1, <2>2, <2>3, <2>4, <2>5
<1>14. CASE UNCHANGED joinedVars
  BY <1>14 DEF CacheTypeOK, CallsFresh, OneFetch, InOrder, ErrorsInOrder
<1> QED
  BY <1>1, <1>2, <1>3, <1>4, <1>5, <1>6, <1>7, <1>8, <1>9, <1>10, <1>11, <1>12,
     <1>13, <1>14
  DEF CacheNext, Get

\* The invariant holds throughout.
LEMMA CacheInvariant == CacheSpec => []CacheInv
BY CacheInvInit, CacheStep, PTL DEF CacheSpec

\* The call in flight has exactly one owner, who is still to publish it.
THEOREM CacheTypeCorrect == CacheSpec => []CacheTypeOK
<1>1. CacheInv => CacheTypeOK
  BY DEF CacheInv
<1> QED
  BY <1>1, CacheInvariant, PTL

\* A get that began after another returned a listing never returns an older
\* one, however fetches, waits and stores of any number of callers overlap
\* (joinedCache.get).
THEOREM NobodyGoesBack == CacheSpec => []MonotonicReads
<1>1. CacheInv => MonotonicReads
  BY DEF CacheInv, InOrder, MonotonicReads
<1> QED
  BY <1>1, CacheInvariant, PTL

\* An error is shared with those who waited for it and never served to a
\* get that began after it (joinedCache.get).
THEOREM ErrorsAreFresh == CacheSpec => []ErrorIsFresh
<1>1. CacheInv => ErrorIsFresh
  BY DEF CacheInv, CacheTypeOK, ErrorsInOrder, ErrorIsFresh
<1> QED
  BY <1>1, CacheInvariant, PTL

HIDE CacheAssumption DEF joinedVars, envVars, cacheVars, callerVars, histVars

(***************************************************************************)
(* historyPages.load. Why sharing is exact: a page in the map belongs to a *)
(* reader that has chosen its length for good, a page that is done holds   *)
(* the newest messages of that length as of some moment, and the head of a *)
(* page is the shorter page of the same moment.                            *)
(***************************************************************************)
\* A page that may be lent is a reader's whose length is settled.
Settled ==
    /\ entry # NoPage => loadAt[entry] # "idle"
    /\ \A r \in Readers :
         /\ page[r].done => loadAt[r] # "idle"
         /\ loadAt[r] = "waiting" => loadAt[from[r]] # "idle"

\* What the list of messages newest first holds of n messages.
IsPage(msgs, l) == \E n \in Posted0 .. posted : msgs = Newest(n, l)

\* A page that has been read is the one of its length at some moment.
PagesExact ==
    \A r \in Readers :
        loadAt[r] = "closing" \/ page[r].done =>
            page[r].failed \/ IsPage(page[r].msgs, limit[r])

PagesInv == PagesTypeOK /\ Posted0 <= posted /\ Settled /\ PagesExact /\ ExactPage

USE PagesAssumption DEF pagesVars

\* The newest l of the newest L messages are the newest l, when l <= L
\* (head).
LEMMA HeadOfNewest ==
    ASSUME NEW n \in Nat, NEW L \in Nat, NEW l \in Nat, L >= l
    PROVE  Head(Newest(n, L), l) = Newest(n, l)
<1>1. ASSUME NEW i \in Newest(n, L)
      PROVE  Cardinality({j \in Newest(n, L) : j > i}) = n - i
  <2>1. i \in Nat /\ i <= n /\ i > n - L
    BY <1>1 DEF Newest
  <2>2. {j \in Newest(n, L) : j > i} = (i + 1) .. n
    BY <2>1 DEF Newest
  <2>3. Cardinality((i + 1) .. n) = IF i + 1 > n THEN 0 ELSE n - (i + 1) + 1
    BY <2>1, FS_Interval
  <2>4. (IF i + 1 > n THEN 0 ELSE n - (i + 1) + 1) = n - i
    BY <2>1
  <2> QED
    BY <2>2, <2>3, <2>4
<1>2. \A i \in Newest(n, L) : n - i < l <=> i > n - l
  BY DEF Newest
<1>3. Head(Newest(n, L), l) = {i \in Newest(n, L) : i > n - l}
  BY <1>1, <1>2 DEF Head
<1> QED
  BY <1>3 DEF Newest

\* A page is a set of messages.
LEMMA NewestType ==
    ASSUME NEW n \in Nat, NEW l \in Nat
    PROVE  Newest(n, l) \in SUBSET Nat
BY DEF Newest

\* What was a page stays one as messages are posted.
LEMMA StaysPage ==
    ASSUME posted \in Nat, posted' \in Nat, posted <= posted',
           NEW msgs, NEW l, IsPage(msgs, l)
    PROVE  IsPage(msgs, l)'
BY DEF IsPage, Newest

\* The first state satisfies the invariant.
LEMMA PagesInvInit == PagesInit => PagesInv
<1> SUFFICES ASSUME PagesInit PROVE PagesInv
  OBVIOUS
<1>1. PagesTypeOK
  BY DEF PagesInit, PagesTypeOK
<1>2. Posted0 <= posted /\ Settled /\ PagesExact /\ ExactPage
  BY DEF PagesInit, Settled, PagesExact, ExactPage
<1> QED
  BY <1>1, <1>2 DEF PagesInv

\* Every action keeps the invariant.
LEMMA PagesStep == PagesInv /\ [PagesNext]_pagesVars => PagesInv'
<1> SUFFICES ASSUME PagesInv, [PagesNext]_pagesVars PROVE PagesInv'
  OBVIOUS
<1> USE DEF PagesInv
<1>0. \A l \in Nat : IsPage(Newest(posted, l), l)
  BY DEF PagesTypeOK, IsPage
<1>1. CASE Post
  <2>1. posted \in Nat /\ posted' \in Nat /\ posted <= posted'
    BY <1>1 DEF PagesTypeOK, Post
  <2>2. PagesExact' /\ ExactPage'
    BY <1>1, <2>1, StaysPage DEF Post, PagesExact, ExactPage, IsPage
  <2> QED
    BY <1>1, <2>1, <2>2 DEF PagesTypeOK, Settled, Post
<1>2. CASE SweepEnds
  BY <1>2 DEF SweepEnds, PagesTypeOK, Settled, PagesExact, ExactPage, IsPage
<1>3. ASSUME NEW r \in Readers, NEW l \in Limits, WaitForPage(r, l) PROVE PagesInv'
  <2>1. entry \in Readers \ {r} /\ limit[entry] >= l /\ loadAt[entry] # "idle" /\ l \in Nat
    BY <1>3 DEF WaitForPage, LongEnough, PagesTypeOK, Settled
  <2>2. loadAt[r] = "idle" /\ ~ page[r].done
    BY <1>3 DEF WaitForPage, Settled
  <2>3. PagesTypeOK'
    BY <1>3, <2>1, <2>2 DEF WaitForPage, PagesTypeOK, Settled
  <2>4. Settled'
    BY <1>3, <2>1, <2>2 DEF WaitForPage, PagesTypeOK, Settled
  <2>5. PagesExact' /\ ExactPage' /\ posted' = posted
    BY <1>3, <2>1, <2>2 DEF WaitForPage, PagesTypeOK, PagesExact, ExactPage, IsPage
  <2> QED
    BY <2>3, <2>4, <2>5
<1>4. ASSUME NEW r \in Readers, NEW l \in Limits, OwnPage(r, l) PROVE PagesInv'
  <2>1. loadAt[r] = "idle" /\ ~ page[r].done /\ l \in Nat
    BY <1>4 DEF OwnPage, Settled
  <2>2. PagesTypeOK'
    BY <1>4, <2>1 DEF OwnPage, PagesTypeOK, Settled
  <2>3. Settled'
    BY <1>4, <2>1 DEF OwnPage, PagesTypeOK, Settled
  <2>4. PagesExact' /\ ExactPage' /\ posted' = posted
    BY <1>4, <2>1 DEF OwnPage, PagesTypeOK, PagesExact, ExactPage, IsPage
  <2> QED
    BY <2>2, <2>3, <2>4
<1>5. ASSUME NEW r \in Readers, Fetch(r) PROVE PagesInv'
  <2>1. PICK msgs \in SUBSET Nat, failed \in BOOLEAN :
          Fetched(r, msgs, failed) /\ (failed \/ msgs = Newest(posted, limit[r]))
    BY <1>5, NewestType DEF Fetch, PagesTypeOK
  <2>2. loadAt[r] = "fetching"
    BY <1>5 DEF Fetch
  <2>3. PagesTypeOK'
    <3>1. page' = [page EXCEPT ![r] = [msgs |-> msgs, failed |-> failed, done |-> FALSE]]
      BY <2>1 DEF Fetched
    <3>2. page' \in [Readers -> [msgs : SUBSET Nat, failed : BOOLEAN, done : BOOLEAN]]
      BY <3>1 DEF PagesTypeOK
    <3> QED
      BY <2>1, <2>2, <3>2 DEF Fetched, PagesTypeOK
  <2>4. Settled'
    BY <2>1, <2>2 DEF Fetched, PagesTypeOK, Settled
  <2>5. PagesExact'
    BY <1>0, <2>1, <2>2 DEF Fetched, PagesTypeOK, PagesExact, IsPage
  <2>6. ExactPage' /\ posted' = posted
    BY <2>1, <2>2 DEF Fetched, PagesTypeOK, ExactPage
  <2> QED
    BY <2>3, <2>4, <2>5, <2>6
<1>6. ASSUME NEW r \in Readers, ClosePage(r) PROVE PagesInv'
  <2>1. page' = [page EXCEPT ![r] =
                   [msgs |-> page[r].msgs, failed |-> page[r].failed, done |-> TRUE]]
    BY <1>6 DEF ClosePage, Done, PagesTypeOK
  <2>2. loadAt[r] = "closing"
    BY <1>6 DEF ClosePage
  <2>3. PagesTypeOK'
    <3>1. page' \in [Readers -> [msgs : SUBSET Nat, failed : BOOLEAN, done : BOOLEAN]]
      BY <2>1 DEF PagesTypeOK
    <3>2. got' \in [Readers -> SUBSET Nat]
      BY <1>6 DEF ClosePage, PagesTypeOK
    <3> QED
      BY <1>6, <2>2, <3>1, <3>2 DEF ClosePage, PagesTypeOK
  <2>4. Settled'
    BY <1>6, <2>1, <2>2 DEF ClosePage, PagesTypeOK, Settled
  <2>5. PagesExact'
    BY <1>6, <2>1, <2>2 DEF ClosePage, PagesTypeOK, PagesExact, IsPage
  <2>6. ExactPage' /\ posted' = posted
    BY <1>6, <2>2 DEF ClosePage, PagesTypeOK, PagesExact, ExactPage, IsPage
  <2> QED
    BY <2>3, <2>4, <2>5, <2>6
<1>7. ASSUME NEW r \in Readers, Borrow(r) PROVE PagesInv'
  <2>1. from[r] \in Readers /\ limit[from[r]] >= limit[r] /\ loadAt[r] = "waiting"
        /\ limit[r] \in Nat /\ limit[from[r]] \in Nat
    BY <1>7 DEF Borrow, PagesTypeOK
  <2>2. PICK n \in Posted0 .. posted : page[from[r]].msgs = Newest(n, limit[from[r]])
    BY <1>7, <2>1 DEF Borrow, PagesExact, IsPage
  <2>3. n \in Nat
    BY <2>2 DEF PagesTypeOK
  <2>4. Head(page[from[r]].msgs, limit[r]) = Newest(n, limit[r])
    BY <2>1, <2>2, <2>3, HeadOfNewest
  <2>5. PagesTypeOK'
    BY <1>7, <2>1, <2>3, <2>4, NewestType DEF Borrow, PagesTypeOK
  <2>6. Settled' /\ PagesExact' /\ posted' = posted
    BY <1>7, <2>1 DEF Borrow, PagesTypeOK, Settled, PagesExact, IsPage
  <2>7. ExactPage'
    BY <1>7, <2>2, <2>4 DEF Borrow, PagesTypeOK, ExactPage
  <2> QED
    BY <2>5, <2>6, <2>7
<1>8. ASSUME NEW r \in Readers, ReadAlone(r) PROVE PagesInv'
  <2>1. loadAt[r] = "waiting" /\ limit[r] \in Nat /\ posted \in Nat
    BY <1>8 DEF ReadAlone, PagesTypeOK
  <2>2. PagesTypeOK'
    BY <1>8, <2>1, NewestType DEF ReadAlone, PagesTypeOK
  <2>3. Settled' /\ PagesExact' /\ posted' = posted
    BY <1>8, <2>1 DEF ReadAlone, PagesTypeOK, Settled, PagesExact, IsPage
  <2>4. ExactPage'
    BY <1>0, <1>8, <2>1 DEF ReadAlone, PagesTypeOK, ExactPage, IsPage
  <2> QED
    BY <2>2, <2>3, <2>4
<1>9. ASSUME NEW r \in Readers, LeavePage(r) PROVE PagesInv'
  BY <1>9 DEF LeavePage, PagesTypeOK, Settled, PagesExact, ExactPage, IsPage
<1>10. CASE UNCHANGED pagesVars
  BY <1>10 DEF PagesTypeOK, Settled, PagesExact, ExactPage, IsPage
<1> QED
  BY <1>1, <1>2, <1>3, <1>4, <1>5, <1>6, <1>7, <1>8, <1>9, <1>10 DEF PagesNext, Load

\* The invariant holds throughout.
LEMMA PagesInvariant == PagesSpec => []PagesInv
BY PagesInvInit, PagesStep, PTL DEF PagesSpec

\* A reader only ever waits for another's page, one of at least the length
\* it asked for (historyPages.load).
THEOREM PagesTypeCorrect == PagesSpec => []PagesTypeOK
<1>1. PagesInv => PagesTypeOK
  BY DEF PagesInv
<1> QED
  BY <1>1, PagesInvariant, PTL

\* Whatever a reader gets, borrowed or read, is the page of the length it
\* asked for, as Slack held it at some moment of the sweep
\* (historyPages.load, head).
THEOREM SharingIsExact == PagesSpec => []ExactPage
<1>1. PagesInv => ExactPage
  BY DEF PagesInv
<1> QED
  BY <1>1, PagesInvariant, PTL

HIDE PagesAssumption DEF pagesVars

(***************************************************************************)
(* UserService.Name.                                                       *)
(***************************************************************************)
LEMMA UserStep == UserTypeOK /\ [UserNext]_userVars => UserTypeOK'
<1> SUFFICES ASSUME UserTypeOK, [UserNext]_userVars PROVE UserTypeOK'
  OBVIOUS
<1> USE UserNamesAssumption DEF UserTypeOK
<1>1. CASE UserTick
  BY <1>1 DEF UserTick
<1>2. CASE HealthChanges
  BY <1>2 DEF HealthChanges
<1>3. ASSUME NEW a \in Asker, InfoComes(a) PROVE UserTypeOK'
  <2>1. asking[a] \in Person
    BY <1>3 DEF InfoComes
  <2>2. known' \subseteq Person /\ healthy' \in BOOLEAN /\ parity' \in {0, 1}
    BY <1>3, <2>1 DEF InfoComes
  <2>3. coolDown' \in [Person -> 0 .. RetryAfterFail]
    BY <1>3, <2>1 DEF InfoComes
  <2>4. asking' \in [Asker -> Person \cup {Nobody}]
    BY <1>3 DEF InfoComes
  <2> QED
    BY <2>2, <2>3, <2>4
<1>4. ASSUME NEW a \in Asker, InfoFails(a) PROVE UserTypeOK'
  <2>1. coolDown' \in [Person -> 0 .. RetryAfterFail]
    BY <1>4 DEF InfoFails
  <2>2. asking' \in [Asker -> Person \cup {Nobody}]
    BY <1>4 DEF InfoFails
  <2> QED
    BY <1>4, <2>1, <2>2 DEF InfoFails
<1>5. ASSUME NEW a \in Asker, NEW u \in Person, AskName(a, u) PROVE UserTypeOK'
  <2>1. coolDown' \in [Person -> 0 .. RetryAfterFail]
    BY <1>5 DEF AskName, KeepsTheWait
  <2>2. asking' \in [Asker -> Person \cup {Nobody}]
    BY <1>5 DEF AskName
  <2>3. parity' \in {0, 1} /\ UNCHANGED <<known, healthy>>
    BY <1>5 DEF AskName
  <2> QED
    BY <2>1, <2>2, <2>3
<1>6. CASE UNCHANGED userVars
  BY <1>6 DEF userVars
<1> QED
  BY <1>1, <1>2, <1>3, <1>4, <1>5, <1>6 DEF UserNext

LEMMA UserStart == UserInit => UserTypeOK
BY UserNamesAssumption DEF UserInit, UserTypeOK, Nobody

\* Every look-up is of a person and every wait after a failed one is at most
\* userResolveRetryAfter, whoever else asks meanwhile (users.go Name).
THEOREM UserTypeCorrect == UserSpec => []UserTypeOK
BY UserStart, UserStep, PTL DEF UserSpec

(***************************************************************************)
(* The process.                                                            *)
(***************************************************************************)
LEMMA LifeStart == LifeInit => LifeTypeOK
BY DEF LifeInit, LifeTypeOK, Exited, OnNetwork

LEMMA LifeStep == LifeTypeOK /\ [LifeNext]_lifeVars => LifeTypeOK'
<1> SUFFICES ASSUME LifeTypeOK, [LifeNext]_lifeVars PROVE LifeTypeOK'
  OBVIOUS
<1> USE DEF LifeTypeOK, Exited, OnNetwork, Exit
<1>1. CASE ParentDies \/ HostLetsGo \/ SignalComes
  BY <1>1 DEF ParentDies, HostLetsGo, SignalComes
<1>2. ASSUME NEW c \in RemoteCall, CallBegins(c) \/ CallEnds(c) PROVE LifeTypeOK'
  BY <1>2 DEF CallBegins, CallEnds
<1>3. CASE WatchStarts \/ WatchTicks \/ ServeReturns
  BY <1>3 DEF WatchStarts, WatchTicks, ServeReturns, Running
<1>4. CASE SeesSignal \/ SeesServed \/ UnknownTransport
  BY <1>4 DEF SeesSignal, SeesServed, UnknownTransport
<1>5. CASE ShutdownEnds \/ ShutdownTimesOut
  BY <1>5 DEF ShutdownEnds, ShutdownTimesOut
<1>6. CASE UNCHANGED lifeVars
  BY <1>6 DEF lifeVars
<1> QED
  BY <1>1, <1>2, <1>3, <1>4, <1>5, <1>6 DEF LifeNext

\* The process has an exit code exactly when it has ended, and shuts down
\* gracefully only on a network transport that was signalled (main.go).
THEOREM LifeTypeCorrect == LifeSpec => []LifeTypeOK
BY LifeStart, LifeStep, PTL DEF LifeSpec

(***************************************************************************)
(* The five together.                                                      *)
(***************************************************************************)
ClientInv == RetryInv /\ CacheInv /\ PagesInv /\ UserTypeOK /\ LifeTypeOK

\* A step of the client is a step or a stutter of each part.
LEMMA ClientStep ==
    ASSUME [Next]_clientVars
    PROVE  /\ [RetryNext]_retryVars /\ [CacheNext]_joinedVars /\ [PagesNext]_pagesVars
           /\ [UserNext]_userVars /\ [LifeNext]_lifeVars
BY DEF Next, clientVars

LEMMA ClientInvariant == Spec => []ClientInv
<1>1. Init => ClientInv
  BY RetryInvInit, CacheInvInit, PagesInvInit, UserStart, LifeStart DEF Init, ClientInv
<1>2. ClientInv /\ [Next]_clientVars => ClientInv'
  BY ClientStep, RetryStep, CacheStep, PagesStep, UserStep, LifeStep DEF ClientInv
<1> QED
  BY <1>1, <1>2, PTL DEF Spec

\* Whichever part runs, every variable of the client stays in its type.
THEOREM ClientTypeCorrect == Spec => []TypeOK
<1>1. ClientInv => TypeOK
  BY DEF ClientInv, TypeOK, RetryInv, CacheInv, PagesInv
<1> QED
  BY <1>1, ClientInvariant, PTL

\* What each part promises, it promises in the client: waits that fit the
\* deadline and honest outcomes (ratelimit.Do), listings that never go back and
\* failures that are news (joinedCache.get), exact pages (historyPages.load).
THEOREM ClientIsSound ==
    Spec => [](WaitFitsDeadline /\ HonestOutcome /\ MonotonicReads /\ ErrorIsFresh /\ ExactPage)
<1>1. CacheInv => MonotonicReads /\ ErrorIsFresh
  BY DEF CacheInv, CacheTypeOK, InOrder, ErrorsInOrder, MonotonicReads, ErrorIsFresh
<1>2. ClientInv => WaitFitsDeadline /\ HonestOutcome /\ MonotonicReads /\ ErrorIsFresh /\ ExactPage
  BY <1>1 DEF ClientInv, RetryInv, PagesInv
<1> QED
  BY <1>2, ClientInvariant, PTL
=============================================================================
