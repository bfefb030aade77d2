------------------------- MODULE UnreadSweep_proofs -------------------------
(***************************************************************************)
(* Theorems about the delta loop of UnreadSweep, for every set of          *)
(* conversations, phases and bounds.                                       *)
(***************************************************************************)
EXTENDS UnreadSweep, Timestamps_proofs, TLAPS, FiniteSetTheorems

\* Rounding down to a whole second never rounds up.
LEMMA WholeSecondType ==
    ASSUME NEW t \in Nat
    PROVE  WholeSecond(t) \in Nat /\ WholeSecond(t) <= t
BY NumbersAssumption DEF WholeSecond

\* An earlier time lies in the same second or an earlier one.
LEMMA WholeSecondMonotone ==
    ASSUME NEW s \in Nat, NEW t \in Nat, s <= t
    PROVE  WholeSecond(s) <= WholeSecond(t)
<1> DEFINE a == s \div SecondTicks
           b == t \div SecondTicks
<1>1. a \in Nat /\ b \in Nat /\ a <= b
  BY NumbersAssumption
<1>2. a * SecondTicks <= b * SecondTicks
  BY <1>1, NumbersAssumption
<1> QED
  BY <1>2 DEF WholeSecond

-----------------------------------------------------------------------------
(***************************************************************************)
(* The inductive invariant, in named parts.                                *)
(***************************************************************************)

\* Nothing is newer than the clock, and the cursor is never newer than the
\* second the pull in progress, or the clock, stands in.
TimeOK ==
    /\ IsFiniteSet(log)
    /\ \A m \in log : m.ts <= clock
    /\ start <= clock
    /\ after <= WholeSecond(clock)
    /\ stage # "idle" => after <= WholeSecond(start)

\* What a stage leaves untouched: an idle server has no phase under way,
\* and only a probing pull has results.
StageOK ==
    /\ stage = "idle" => cut = {} /\ \A p \in Phases : phase[p] = "ready"
    /\ stage # "probing" => results = {} /\ hidden = {}
    /\ \A m \in results : m.ts > after

\* A phase the deadline stopped is on record in sweep.cut.
CutOnRecord == \A p \in Phases : phase[p] = "cut" => p \in cut

BaseInv == TypeOK /\ TimeOK /\ StageOK /\ CutOnRecord

USE DEF vars, slackVars, callerVars, fetchVars, renderVars, pullVars

\* newestTS over messages that were posted.
LEMMA NewestTSType ==
    ASSUME TypeOK, TimeOK, NEW S \in SUBSET log, S # {}
    PROVE  /\ NewestTS(S) \in Nat
           /\ NewestTS(S) <= clock
           /\ \E m \in S : NewestTS(S) = m.ts
           /\ \A m \in S : m.ts <= NewestTS(S)
<1>1. \A m \in S : m.ts \in Nat /\ m.ts <= clock
  BY DEF TypeOK, TimeOK, Message
<1>2. clock \in Nat
  BY DEF TypeOK
<1> HIDE DEF NewestTS
<1> QED
  BY <1>1, <1>2, NewestTSProperties

\* capCursor never passes the second the sweep began in.
LEMMA CapCursorType ==
    ASSUME start \in Nat, NEW t \in Nat
    PROVE  /\ CapCursor(t) \in Nat
           /\ CapCursor(t) <= t
           /\ CapCursor(t) <= WholeSecond(start)
           /\ CapCursor(t) <= start
<1>1. WholeSecond(start) \in Nat /\ WholeSecond(start) <= start
  BY WholeSecondType
<1> QED
  BY <1>1 DEF CapCursor

\* A pull that moves the cursor moves it forward, at most to the second the
\* pull began in.
LEMMA FinishMovesForward ==
    ASSUME BaseInv, Finish
    PROVE  /\ after' \in Nat
           /\ after <= after'
           /\ after' <= WholeSecond(start)
           /\ after' <= start
<1>1. start \in Nat /\ after \in Nat /\ stage # "idle"
  BY DEF BaseInv, TypeOK, Finish
<1>2. after <= WholeSecond(start) /\ WholeSecond(start) \in Nat /\ WholeSecond(start) <= start
  BY <1>1, WholeSecondType DEF BaseInv, TimeOK
<1>3. CASE after' = after
  BY <1>1, <1>2, <1>3
<1>4. CASE Visible # {} /\ after' = CapCursor(NewestTS(Visible))
  <2>1. Visible \in SUBSET log
    BY DEF BaseInv, TypeOK, Visible
  <2>2. PICK m \in Visible : NewestTS(Visible) = m.ts
    BY <1>4, <2>1, NewestTSType DEF BaseInv
  <2>3. NewestTS(Visible) \in Nat /\ NewestTS(Visible) > after
    BY <1>4, <2>1, <2>2, NewestTSType DEF BaseInv, StageOK, Visible
  <2>4. after <= CapCursor(NewestTS(Visible))
    BY <1>1, <1>2, <2>3 DEF CapCursor
  <2> QED
    BY <1>1, <1>2, <1>4, <2>3, <2>4, CapCursorType
<1> QED
  BY <1>3, <1>4 DEF Finish

-----------------------------------------------------------------------------
(***************************************************************************)
(* Type correctness.                                                       *)
(***************************************************************************)

\* The first state is well typed.
LEMMA TypeInit == Init => TypeOK
<1> SUFFICES ASSUME Init PROVE TypeOK
  OBVIOUS
<1>1. cached \in [convs : SUBSET Conversations, at : Nat]
  BY DEF Init, NoListing
<1>2. /\ lastRead \in [Conversations -> Nat \cup {NoMarker}]
      /\ todo \in [Phases -> SUBSET Conversations]
      /\ got \in [Phases -> SUBSET Message] /\ \A p \in Phases : got[p] \subseteq log
  BY DEF Init, Rest
<1> QED
  BY <1>1, <1>2, ConversationsAssumption DEF Init, Rest, TypeOK

\* Every action keeps the state well typed.
LEMMA TypeStep == BaseInv /\ [Next]_vars => TypeOK'
<1> SUFFICES ASSUME BaseInv, [Next]_vars PROVE TypeOK'
  OBVIOUS
<1> USE ParametersAssumption, ConversationsAssumption DEF BaseInv, TypeOK
<1>1. ASSUME Tick PROVE TypeOK'
  BY <1>1 DEF Tick
<1>2. ASSUME NEW c \in Conversations, Join(c) PROVE TypeOK'
  BY <1>2 DEF Join
<1>3. ASSUME NEW c \in Conversations, NEW k \in AllKinds, Post(c, k) PROVE TypeOK'
  BY <1>3 DEF Post, Message
<1>4. ASSUME NEW c \in Conversations, Open(c) PROVE TypeOK'
  BY <1>4 DEF Open
<1>5. ASSUME NEW m \in log, Index(m) PROVE TypeOK'
  BY <1>5 DEF Index
<1>6. ASSUME Begin PROVE TypeOK'
  BY <1>6 DEF Begin
<1>7. ASSUME Deadline PROVE TypeOK'
  BY <1>7 DEF Deadline
<1>8. ASSUME NEW p \in Phases, Cut(p) PROVE TypeOK'
  BY <1>8 DEF Cut
<1>9. ASSUME NEW p \in Phases, Fail(p) PROVE TypeOK'
  BY <1>9 DEF Fail, PassedOver
<1>10. ASSUME NEW p \in Phases, List(p) PROVE TypeOK'
  BY <1>10 DEF List, PassedOver, Targets, Listing, Reusable
<1>11. ASSUME NEW p \in Phases, Done(p) PROVE TypeOK'
  BY <1>11 DEF Done
<1>12. ASSUME "thread-mentions" \in Phases, SearchMentions PROVE TypeOK'
  BY <1>12 DEF SearchMentions
<1>13. ASSUME "own-threads" \in Phases, FindThreads PROVE TypeOK'
  BY <1>13 DEF FindThreads, PassedOver, Message
<1>14. ASSUME NEW p \in Phases, NEW c \in Conversations, Read(p, c) PROVE TypeOK'
  BY <1>14 DEF Read, ReadBy, NewestPage, UnseenAfterMine, PassedOver
<1>15. ASSUME NEW p \in Phases, NEW c \in Conversations, NEW w, ReadFails(p, c, w) PROVE TypeOK'
  BY <1>15 DEF ReadFails, PassedOver
<1>16. ASSUME GiveUp PROVE TypeOK'
  BY <1>16 DEF GiveUp, Clear
<1>17. ASSUME Merge PROVE TypeOK'
  BY <1>17 DEF Merge, Filtered, Merged, GotBy
<1>18. ASSUME NEW c \in DirectMessages, Probe(c) PROVE TypeOK'
  BY <1>18 DEF Probe
<1>19. ASSUME Finish PROVE TypeOK'
  BY <1>19, FinishMovesForward DEF Finish, Clear, Visible
<1>20. ASSUME UNCHANGED vars PROVE TypeOK'
  BY <1>20
<1> QED
  BY <1>1, <1>2, <1>3, <1>4, <1>5, <1>6, <1>7, <1>8, <1>9, <1>10,
     <1>11, <1>12, <1>13, <1>14, <1>15, <1>16, <1>17, <1>18, <1>19, <1>20
     DEF Next, Environment, Fetch, Render

\* Every action keeps the clock ahead of messages, sweeps and cursor.
LEMMA TimeStep == BaseInv /\ [Next]_vars => TimeOK'
<1> SUFFICES ASSUME BaseInv, [Next]_vars PROVE TimeOK'
  OBVIOUS
<1>a. /\ clock \in Nat /\ start \in Nat /\ after \in Nat
      /\ \A m \in log : m.ts \in Nat
  BY DEF BaseInv, TypeOK, Message
<1>b. /\ WholeSecond(clock) \in Nat /\ WholeSecond(clock + 1) \in Nat
      /\ WholeSecond(clock) <= WholeSecond(clock + 1)
      /\ WholeSecond(start) \in Nat /\ WholeSecond(start) <= WholeSecond(clock)
  BY <1>a, WholeSecondType, WholeSecondMonotone DEF BaseInv, TimeOK
<1> USE DEF BaseInv, TimeOK
<1>1. ASSUME Tick PROVE TimeOK'
  BY <1>1, <1>a, <1>b DEF Tick
<1>2. ASSUME NEW c \in Conversations, Join(c) PROVE TimeOK'
  BY <1>2 DEF Join
<1>3. ASSUME NEW c \in Conversations, NEW k \in AllKinds, Post(c, k) PROVE TimeOK'
  <2>1. IsFiniteSet(log')
    BY <1>3, FS_AddElement DEF Post
  <2>2. \A m \in log' : m.ts <= clock'
    BY <1>3, <1>a DEF Post
  <2> QED
    BY <1>3, <1>a, <1>b, <2>1, <2>2 DEF Post
<1>4. ASSUME NEW c \in Conversations, Open(c) PROVE TimeOK'
  BY <1>4 DEF Open
<1>5. ASSUME NEW m \in log, Index(m) PROVE TimeOK'
  BY <1>5 DEF Index
<1>6. ASSUME Begin PROVE TimeOK'
  BY <1>6, <1>a, <1>b DEF Begin
<1>7. ASSUME Deadline PROVE TimeOK'
  BY <1>7 DEF Deadline
<1>8. ASSUME NEW p \in Phases, Cut(p) PROVE TimeOK'
  BY <1>8 DEF Cut
<1>9. ASSUME NEW p \in Phases, Fail(p) PROVE TimeOK'
  BY <1>9 DEF Fail
<1>10. ASSUME NEW p \in Phases, List(p) PROVE TimeOK'
  BY <1>10 DEF List
<1>11. ASSUME NEW p \in Phases, Done(p) PROVE TimeOK'
  BY <1>11 DEF Done
<1>12. ASSUME "thread-mentions" \in Phases, SearchMentions PROVE TimeOK'
  BY <1>12 DEF SearchMentions
<1>13. ASSUME "own-threads" \in Phases, FindThreads PROVE TimeOK'
  BY <1>13 DEF FindThreads
<1>14. ASSUME NEW p \in Phases, NEW c \in Conversations, Read(p, c) PROVE TimeOK'
  BY <1>14 DEF Read
<1>15. ASSUME NEW p \in Phases, NEW c \in Conversations, NEW w, ReadFails(p, c, w) PROVE TimeOK'
  BY <1>15 DEF ReadFails
<1>16. ASSUME GiveUp PROVE TimeOK'
  BY <1>16, <1>a, <1>b DEF GiveUp, Clear
<1>17. ASSUME Merge PROVE TimeOK'
  BY <1>17 DEF Merge
<1>18. ASSUME NEW c \in DirectMessages, Probe(c) PROVE TimeOK'
  BY <1>18 DEF Probe
<1>19. ASSUME Finish PROVE TimeOK'
  <2>1. after' \in Nat /\ after' <= WholeSecond(start)
    BY <1>19, FinishMovesForward
  <2>2. after' <= WholeSecond(clock)
    BY <1>b, <2>1
  <2>3. log' = log /\ clock' = clock /\ start' = 0 /\ stage' = "idle"
    BY <1>19 DEF Finish, Clear
  <2> QED
    BY <1>a, <2>2, <2>3
<1>20. ASSUME UNCHANGED vars PROVE TimeOK'
  BY <1>20
<1> QED
  BY <1>1, <1>2, <1>3, <1>4, <1>5, <1>6, <1>7, <1>8, <1>9, <1>10,
     <1>11, <1>12, <1>13, <1>14, <1>15, <1>16, <1>17, <1>18, <1>19, <1>20
     DEF Next, Environment, Fetch, Render

\* Every action leaves alone what its stage must not touch.
LEMMA StageStep == BaseInv /\ [Next]_vars => StageOK'
<1> SUFFICES ASSUME BaseInv, [Next]_vars PROVE StageOK'
  OBVIOUS
<1> USE DEF BaseInv, TypeOK, StageOK
<1>1. ASSUME Tick PROVE StageOK'
  BY <1>1 DEF Tick
<1>2. ASSUME NEW c \in Conversations, Join(c) PROVE StageOK'
  BY <1>2 DEF Join
<1>3. ASSUME NEW c \in Conversations, NEW k \in AllKinds, Post(c, k) PROVE StageOK'
  BY <1>3 DEF Post
<1>4. ASSUME NEW c \in Conversations, Open(c) PROVE StageOK'
  BY <1>4 DEF Open
<1>5. ASSUME NEW m \in log, Index(m) PROVE StageOK'
  BY <1>5 DEF Index
<1>6. ASSUME Begin PROVE StageOK'
  BY <1>6 DEF Begin
<1>7. ASSUME Deadline PROVE StageOK'
  BY <1>7 DEF Deadline
<1>8. ASSUME NEW p \in Phases, Cut(p) PROVE StageOK'
  BY <1>8 DEF Cut
<1>9. ASSUME NEW p \in Phases, Fail(p) PROVE StageOK'
  BY <1>9 DEF Fail
<1>10. ASSUME NEW p \in Phases, List(p) PROVE StageOK'
  BY <1>10 DEF List
<1>11. ASSUME NEW p \in Phases, Done(p) PROVE StageOK'
  BY <1>11 DEF Done
<1>12. ASSUME "thread-mentions" \in Phases, SearchMentions PROVE StageOK'
  BY <1>12 DEF SearchMentions
<1>13. ASSUME "own-threads" \in Phases, FindThreads PROVE StageOK'
  BY <1>13 DEF FindThreads
<1>14. ASSUME NEW p \in Phases, NEW c \in Conversations, Read(p, c) PROVE StageOK'
  BY <1>14 DEF Read
<1>15. ASSUME NEW p \in Phases, NEW c \in Conversations, NEW w, ReadFails(p, c, w) PROVE StageOK'
  BY <1>15 DEF ReadFails
<1>16. ASSUME GiveUp PROVE StageOK'
  BY <1>16 DEF GiveUp, Clear
<1>17. ASSUME Merge PROVE StageOK'
  BY <1>17 DEF Merge, Filtered
<1>18. ASSUME NEW c \in DirectMessages, Probe(c) PROVE StageOK'
  BY <1>18 DEF Probe
<1>19. ASSUME Finish PROVE StageOK'
  BY <1>19 DEF Finish, Clear
<1>20. ASSUME UNCHANGED vars PROVE StageOK'
  BY <1>20
<1> QED
  BY <1>1, <1>2, <1>3, <1>4, <1>5, <1>6, <1>7, <1>8, <1>9, <1>10,
     <1>11, <1>12, <1>13, <1>14, <1>15, <1>16, <1>17, <1>18, <1>19, <1>20
     DEF Next, Environment, Fetch, Render

\* A cut phase goes on record in the step that cuts it.
LEMMA CutStep == BaseInv /\ [Next]_vars => CutOnRecord'
BY DEF BaseInv, TypeOK, CutOnRecord, Next, Environment, Fetch, Render, Tick,
       Join, Post, Open, Index, Begin, Deadline, Cut, Fail, List, Done,
       SearchMentions, FindThreads, Read, ReadFails, GiveUp, Merge, Probe,
       Finish, Clear

\* The first state satisfies the base invariant.
LEMMA BaseInit == Init => BaseInv
<1> SUFFICES ASSUME Init PROVE BaseInv
  OBVIOUS
<1>1. WholeSecond(clock) \in Nat
  BY WholeSecondType DEF Init
<1> QED
  BY <1>1, TypeInit, FS_EmptySet
  DEF Init, Rest, BaseInv, TimeOK, StageOK, CutOnRecord

\* The base invariant holds throughout.
LEMMA BaseInvariant == Spec => []BaseInv
<1>1. Init => BaseInv
  BY BaseInit
<1>2. BaseInv /\ [Next]_vars => BaseInv'
  BY TypeStep, TimeStep, StageStep, CutStep DEF BaseInv
<1> QED
  BY <1>1, <1>2, PTL DEF Spec

\* The state of the loop stays well typed: phases and their work lists over
\* conversations that exist, every message held anywhere one that was
\* posted, the cursor a timestamp.
THEOREM TypeCorrect == Spec => []TypeOK
<1>1. BaseInv => TypeOK
  BY DEF BaseInv
<1> QED
  BY <1>1, BaseInvariant, PTL

\* The cursor never moves back, for whatever the phases kept or dropped,
\* and is never ahead of the clock (capCursor, filterAfter).
THEOREM CursorNeverMovesBack == Spec => CursorMonotone
<1>1. BaseInv /\ [Next]_vars => [after <= after' /\ after' <= clock]_after
  <2> SUFFICES ASSUME BaseInv, Next, after' # after
               PROVE  after <= after' /\ after' <= clock
    OBVIOUS
  <2>1. Finish
    BY DEF Next, Environment, Fetch, Render, Tick, Join, Post, Open, Index,
           Begin, Deadline, Cut, Fail, List, Done, SearchMentions, FindThreads,
           Read, ReadFails, GiveUp, Merge, Probe
  <2>2. after <= after' /\ after' <= start /\ after' \in Nat
    BY <2>1, FinishMovesForward
  <2> QED
    BY <2>2 DEF BaseInv, TypeOK, TimeOK
<1> QED
  BY <1>1, BaseInvariant, PTL DEF Spec, CursorMonotone

-----------------------------------------------------------------------------
(***************************************************************************)
(* Nothing is lost: what an owed message can rely on at each stage.        *)
(***************************************************************************)

\* Phase p has read m, reported it missed, or could no longer reach it.
Seen(p, m) == m \in got[p] \/ m \in missed \/ Buried(m)

\* While phases fetch, the one that is there to find m still has to read
\* its conversation, or has seen it.
Fetched(m) ==
    /\ phase[ReaderOf[m.kind]] = "reading" =>
         m.conv \in todo[ReaderOf[m.kind]] \/ Seen(ReaderOf[m.kind], m)
    /\ phase[ReaderOf[m.kind]] \in {"done", "failed"} => Seen(ReaderOf[m.kind], m)

FetchedInv ==
    stage = "fetching" => \A m \in log : Owed(m) /\ m.ts <= start => Fetched(m)

\* A pull that no deadline cut has every owed message among its results,
\* behind the cursor it was given, or on its list of missed ones.
Kept(m) == m \in results \/ m.ts <= after \/ m \in missed \/ Buried(m)

KeptInv ==
    stage = "probing" /\ cut = {} =>
        \A m \in log : Owed(m) /\ m.ts <= start => Kept(m)

LossInv ==
    /\ BaseInv /\ FetchedInv /\ KeptInv
    /\ HiddenIsAnswered /\ NoLoss

\* Which phase is there to find an owed message.
LEMMA Readers ==
    ASSUME BaseInv, NEW m \in log, Owed(m)
    PROVE  /\ ReaderOf[m.kind] \in Phases
           /\ \/ m.kind = "top" /\ ReaderOf[m.kind] = "unread"
              \/ m.kind = "mention" /\ ReaderOf[m.kind] = "thread-mentions"
              \/ m.kind = "reply" /\ ReaderOf[m.kind] = "own-threads"
BY ParametersAssumption
   DEF BaseInv, TypeOK, Message, AllKinds, AllPhases, Owed, ReaderOf

\* Messages are never taken back and the read markers only advance.
LEMMA SlackGrows ==
    ASSUME BaseInv, [Next]_vars
    PROVE  /\ log \subseteq log'
           /\ \A m \in log' \ log : m.ts > clock
           /\ \A c \in Conversations : lastRead[c] <= lastRead'[c]
<1> USE DEF BaseInv, TypeOK
<1>1. CASE log' = log /\ lastRead' = lastRead
  BY <1>1 DEF NoMarker
<1>2. ASSUME NEW c \in Conversations, NEW k \in AllKinds, Post(c, k)
      PROVE  /\ log \subseteq log' /\ lastRead' = lastRead
             /\ \A m \in log' \ log : m.ts > clock
  BY <1>2 DEF Post
<1>3. ASSUME NEW c \in Conversations, Open(c)
      PROVE  log' = log /\ \A d \in Conversations : lastRead[d] <= lastRead'[d]
  <2>1. lastRead[c] < clock
    BY <1>3 DEF Open, TimeOK, Message, NoMarker
  <2> QED
    BY <1>3, <2>1 DEF Open, NoMarker
<1>4. \/ log' = log /\ lastRead' = lastRead
      \/ \E c \in Conversations, k \in AllKinds : Post(c, k)
      \/ \E c \in Conversations : Open(c)
  BY DEF Next, Environment, Fetch, Render, Tick, Join, Index, Begin, Deadline,
         Cut, Fail, List, Done, SearchMentions, FindThreads, Read, ReadFails,
         GiveUp, Merge, Probe, Finish
<1> QED
  BY <1>1, <1>2, <1>3, <1>4 DEF NoMarker

\* What is no longer owed is never owed again.
LEMMA OwedNeverReturns ==
    ASSUME BaseInv, [Next]_vars, NEW m \in log, Owed(m)'
    PROVE  Owed(m)
<1>1. log \subseteq log' /\ lastRead[m.conv] <= lastRead'[m.conv]
  BY SlackGrows DEF BaseInv, TypeOK, Message
<1>2. lastRead[m.conv] \in Int /\ lastRead'[m.conv] \in Int /\ m.ts \in Nat
  BY TypeStep DEF BaseInv, TypeOK, Message, NoMarker
<1>3. Answers(m) \subseteq Answers(m)'
  BY <1>1 DEF Answers
<1>4. m.kind = "top" => OwedTop(m)
  BY <1>1, <1>2 DEF Owed, OwedTop
<1>5. m.kind \in {"mention", "reply"} => OwedMention(m)
  BY <1>3 DEF Owed, OwedReply, OwedMention
<1>6. ASSUME m.kind = "reply" PROVE Answers(m) # {}
  <2>1. OwedMention(m)' /\ Answers(m)' # {}
    BY <1>6 DEF Owed, OwedReply
  <2>2. PICK a \in Answers(m)' : a.ts < m.ts
    BY <2>1 DEF OwedMention
  <2>3. a \in log' /\ a.conv = m.conv /\ a.kind = "answer"
    BY <2>2 DEF Answers
  <2>4. a.ts \in Nat /\ clock \in Nat /\ m.ts <= clock
    BY <2>3, TypeStep DEF BaseInv, TypeOK, TimeOK, Message
  <2>5. a \in log
    BY <1>2, <2>2, <2>3, <2>4, SlackGrows
  <2> QED
    BY <2>3, <2>5 DEF Answers
<1>7. ReaderOf[m.kind] \in Phases
  BY DEF Owed
<1> QED
  BY <1>4, <1>5, <1>6, <1>7 DEF Owed, OwedReply

\* A message pushed off the page stays off it.
LEMMA BuriedStays ==
    ASSUME BaseInv, [Next]_vars, NEW m \in log, Buried(m)
    PROVE  Buried(m)'
<1>1. Newer(m) \subseteq Newer(m)'
  BY SlackGrows DEF Newer
<1>2. IsFiniteSet(Newer(m)')
  <2>1. IsFiniteSet(log') /\ Newer(m)' \in SUBSET log'
    BY TimeStep DEF TimeOK, Newer
  <2> QED
    BY <2>1, FS_Subset
<1>3. Cardinality(Newer(m)) <= Cardinality(Newer(m)')
  BY <1>1, <1>2, FS_Subset
<1>4. Cardinality(Newer(m)) \in Nat /\ Cardinality(Newer(m)') \in Nat
  BY <1>1, <1>2, FS_Subset, FS_CardinalityType
<1>5. PageLimit \in Nat
  BY NumbersAssumption
<1> QED
  BY <1>3, <1>4, <1>5 DEF Buried, OnPage

\* Every action keeps an owed message within reach of its phase.
LEMMA FetchedStep == BaseInv /\ FetchedInv /\ [Next]_vars => FetchedInv'
<1> SUFFICES ASSUME BaseInv, FetchedInv, [Next]_vars, stage' = "fetching",
                    NEW m \in log', Owed(m)', m.ts <= start'
             PROVE  Fetched(m)'
  BY DEF FetchedInv
<1> DEFINE r == ReaderOf[m.kind]
<1> USE DEF Seen
<1>a. ASSUME Begin PROVE Fetched(m)'
  <2>1. \A p \in Phases : phase'[p] = "ready"
    BY <1>a DEF BaseInv, StageOK, Begin
  <2>2. r \in Phases
    BY DEF Owed
  <2> QED
    BY <2>1, <2>2 DEF Fetched
<1> SUFFICES ASSUME ~ Begin PROVE Fetched(m)'
  BY <1>a
<1>b. stage = "fetching" /\ start' = start
  BY DEF BaseInv, TypeOK, Next, Environment, Fetch, Render, Tick, Join, Post, Open, Index,
     Deadline, Cut, Fail, List, Done, SearchMentions, FindThreads, Read,
     ReadFails, GiveUp, Merge, Probe, Finish, Clear
<1>c. m \in log
  BY <1>b, SlackGrows, TypeStep DEF BaseInv, TypeOK, TimeOK, Message
<1>d. Owed(m) /\ Fetched(m)
  BY <1>b, <1>c, OwedNeverReturns DEF FetchedInv
<1>e. /\ r \in Phases
      /\ \/ m.kind = "top" /\ r = "unread"
         \/ m.kind = "mention" /\ r = "thread-mentions"
         \/ m.kind = "reply" /\ r = "own-threads"
  BY <1>c, <1>d, Readers
<1>f. Buried(m) => Buried(m)'
  BY <1>c, BuriedStays
<1>g. m.conv \in Conversations /\ m.ts \in Nat
  BY <1>c DEF BaseInv, TypeOK, Message
<1>h. CASE UNCHANGED <<phase, todo, got, missed>>
  BY <1>d, <1>f, <1>h DEF Fetched
<1>1. ASSUME NEW p \in Phases, Cut(p) PROVE Fetched(m)'
  BY <1>1, <1>d, <1>e, <1>f DEF Cut, Fetched, BaseInv, TypeOK
<1>2. ASSUME NEW p \in Phases, Fail(p) PROVE Fetched(m)'
  BY <1>2, <1>c, <1>d, <1>e, <1>f, <1>g DEF Fail, Fetched, PassedOver, BaseInv, TypeOK
<1>3. ASSUME NEW p \in Phases, List(p) PROVE Fetched(m)'
  <2>1. CASE r # p
    BY <1>3, <1>d, <1>e, <1>f, <2>1 DEF List, Fetched, BaseInv, TypeOK
  <2>2. CASE r = p
    <3>1. r = "unread" /\ m.kind = "top" /\ m.ts > lastRead[m.conv]
      BY <1>3, <1>d, <1>e, <2>2 DEF List, Owed, OwedTop
    <3>2. PICK t \in Targets(p, Listing) : todo' = [todo EXCEPT ![p] = t]
      BY <1>3 DEF List
    <3>3. HasUnreads(m.conv)
      BY <1>c, <3>1 DEF HasUnreads
    <3>4. m.conv \in Listing => m.conv \in t
      BY <2>2, <3>1, <3>2, <3>3 DEF Targets
    <3>5. m.conv \notin Listing => m \in missed'
      BY <1>3, <1>c, <1>g, <2>2 DEF List, PassedOver
    <3> QED
      BY <1>3, <1>e, <2>2, <3>2, <3>4, <3>5 DEF List, Fetched, BaseInv, TypeOK
  <2> QED
    BY <2>1, <2>2
<1>4. ASSUME NEW p \in Phases, Done(p) PROVE Fetched(m)'
  BY <1>4, <1>d, <1>e, <1>f DEF Done, Fetched, BaseInv, TypeOK
<1>5. ASSUME "thread-mentions" \in Phases, SearchMentions PROVE Fetched(m)'
  <2>1. CASE r # "thread-mentions"
    BY <1>5, <1>d, <1>e, <1>f, <2>1 DEF SearchMentions, Fetched, BaseInv, TypeOK
  <2>2. CASE r = "thread-mentions"
    <3>1. m.kind = "mention" /\ \A a \in log :
             a.conv = m.conv /\ a.kind = "answer" => a.ts < m.ts
      BY <1>d, <1>e, <2>2 DEF Owed, OwedMention, Answers
    <3>2. PICK own \in {indexed, {}} :
             got' = [got EXCEPT !["thread-mentions"] =
                       {x \in indexed : x.kind = "mention" /\ ~ AnsweredLater(own, x)}]
      BY <1>5 DEF SearchMentions
    <3>3. ~ AnsweredLater(own, m)
      BY <1>g, <3>1, <3>2 DEF AnsweredLater, BaseInv, TypeOK, Message
    <3>4. m \in indexed => m \in got'["thread-mentions"]
      BY <1>5, <3>1, <3>2, <3>3 DEF BaseInv, TypeOK
    <3>5. m \notin indexed => m \in missed'
      BY <1>5, <1>c, <3>1 DEF SearchMentions
    <3> QED
      BY <1>5, <2>2, <3>4, <3>5 DEF SearchMentions, Fetched, BaseInv, TypeOK
  <2> QED
    BY <2>1, <2>2
<1>6. ASSUME "own-threads" \in Phases, FindThreads PROVE Fetched(m)'
  BY <1>6, <1>c, <1>d, <1>e, <1>f, <1>g
     DEF FindThreads, PassedOver, Fetched, BaseInv, TypeOK
<1>7. ASSUME NEW p \in Phases, NEW c \in Conversations, Read(p, c) PROVE Fetched(m)'
  <2>1. CASE r # p \/ c # m.conv
    BY <1>7, <1>d, <1>e, <1>f, <2>1 DEF Read, Fetched, BaseInv, TypeOK
  <2>2. CASE r = p /\ c = m.conv
    <3>1. m \in ReadBy(p, c) \/ Buried(m) \/ m \in missed'
      <4>1. CASE m.kind = "top" /\ r = "unread" /\ ~ ReadsNoPage(p, c)
        BY <1>c, <1>d, <2>2, <4>1
        DEF ReadBy, NewestPage, Buried, TopLevel, Owed, OwedTop
      <4>0. CASE m.kind = "top" /\ r = "unread" /\ ReadsNoPage(p, c)
        BY <1>7, <1>c, <2>2, <4>0 DEF Read, PassedOver
      <4>2. CASE m.kind = "reply" /\ r = "own-threads"
        BY <1>c, <1>d, <2>2, <4>2
        DEF ReadBy, UnseenAfterMine, Owed, OwedReply, OwedMention, Answers
      <4>3. CASE m.kind = "mention" /\ r = "thread-mentions"
        BY <1>c, <1>d, <2>2, <4>3
        DEF ReadBy, UnseenAfterMine, Owed, OwedMention, Answers
      <4> QED
        BY <1>e, <4>1, <4>0, <4>2, <4>3
    <3> QED
      BY <1>7, <1>f, <2>2, <3>1 DEF Read, Fetched, BaseInv, TypeOK
  <2> QED
    BY <2>1, <2>2
<1>8. ASSUME NEW p \in Phases, NEW c \in Conversations, NEW w, ReadFails(p, c, w)
      PROVE  Fetched(m)'
  BY <1>8, <1>c, <1>d, <1>e, <1>f, <1>g
     DEF ReadFails, PassedOver, Fetched, BaseInv, TypeOK
<1>9. \/ UNCHANGED <<phase, todo, got, missed>>
      \/ \E p \in Phases : \/ Cut(p) \/ Fail(p) \/ List(p) \/ Done(p)
                           \/ \E c \in Conversations :
                                Read(p, c) \/ \E w \in {"error", "rate limit"} : ReadFails(p, c, w)
      \/ "thread-mentions" \in Phases /\ SearchMentions
      \/ "own-threads" \in Phases /\ FindThreads
  BY <1>b DEF Next, Environment, Fetch, Render, Tick, Join, Post, Open, Index,
              Deadline, Merge, Probe, GiveUp, Finish, Clear
<1> QED
  BY <1>h, <1>1, <1>2, <1>3, <1>4, <1>5, <1>6, <1>7, <1>8, <1>9

\* The merge drops no owed message without recording it (Merge).
LEMMA KeptStep == BaseInv /\ FetchedInv /\ KeptInv /\ [Next]_vars => KeptInv'
<1> SUFFICES ASSUME BaseInv, FetchedInv, KeptInv, [Next]_vars,
                    stage' = "probing", cut' = {},
                    NEW m \in log', Owed(m)', m.ts <= start'
             PROVE  Kept(m)'
  BY DEF KeptInv
<1> DEFINE r == ReaderOf[m.kind]
<1>a. start' = start /\ cut' = cut /\ after' = after /\ stage \in {"fetching", "probing"}
  BY DEF BaseInv, TypeOK, Next, Environment, Fetch, Render, Tick, Join, Post, Open, Index,
     Begin, Deadline, Cut, Fail, List, Done, SearchMentions, FindThreads, Read,
     ReadFails, GiveUp, Merge, Probe, Finish, Clear
<1>b. m \in log
  BY <1>a, SlackGrows, TypeStep DEF BaseInv, TypeOK, TimeOK, Message
<1>c. Owed(m) /\ (Buried(m) => Buried(m)')
  BY <1>b, OwedNeverReturns, BuriedStays
<1>1. CASE stage = "probing"
  <2>1. Kept(m)
    BY <1>1, <1>a, <1>b, <1>c DEF KeptInv
  <2>2. results' = results /\ missed' = missed
    BY <1>1 DEF Next, Environment, Fetch, Render, Tick, Join, Post, Open, Index,
       Begin, Deadline, Cut, Fail, List, Done, SearchMentions, FindThreads, Read,
       ReadFails, GiveUp, Merge, Probe, Finish, Clear
  <2> QED
    BY <1>a, <1>c, <2>1, <2>2 DEF Kept
<1>2. CASE stage = "fetching"
  <2>1. Merge
    BY <1>2 DEF Next, Environment, Fetch, Render, Tick, Join, Post, Open, Index,
       Begin, Deadline, Cut, Fail, List, Done, SearchMentions, FindThreads, Read,
       ReadFails, GiveUp, Probe, Finish, Clear
  <2>2. /\ r \in Phases
        /\ \/ m.kind = "top" /\ r = "unread"
           \/ m.kind = "mention" /\ r = "thread-mentions"
           \/ m.kind = "reply" /\ r = "own-threads"
    BY <1>b, <1>c, Readers
  <2>3. phase[r] \in {"done", "failed"}
    BY <1>a, <2>1, <2>2 DEF Merge, AllReturned, BaseInv, CutOnRecord
  <2>4. Seen(r, m)
    BY <1>2, <1>a, <1>b, <1>c, <2>3 DEF FetchedInv, Fetched
  <2>5. ASSUME m \in got[r] PROVE m \in Merged \/ m \in missed'
    <3>1. m \in GotBy(r)
      BY <2>2, <2>5 DEF GotBy
    <3>2. CASE r = "unread"
      BY <2>1, <3>1, <3>2 DEF Merge, Merged, Overridden
    <3>3. CASE r # "unread"
      BY <2>2, <3>1, <3>3 DEF Merged
    <3> QED
      BY <3>2, <3>3
  <2>6. m \in Merged => m \in results' \/ m.ts <= after
    BY <1>b, <2>1 DEF Merge, Filtered, BaseInv, TypeOK, Message
  <2>7. m \in missed => m \in missed'
    BY <2>1 DEF Merge
  <2> QED
    BY <1>a, <1>c, <2>4, <2>5, <2>6, <2>7 DEF Kept, Seen
<1> QED
  BY <1>a, <1>1, <1>2

\* A probe hides a DM only on what the DM holds at that moment.
LEMMA HiddenStep == BaseInv /\ HiddenIsAnswered /\ [Next]_vars => HiddenIsAnswered'
<1> SUFFICES ASSUME BaseInv, HiddenIsAnswered, [Next]_vars,
                    NEW m \in results', m.conv \in hidden', Owed(m)'
             PROVE  FALSE
  BY DEF HiddenIsAnswered
<1>1. results' = results
  <2>1. stage' = "probing"
    BY StageStep DEF StageOK
  <2>2. ~ Merge
    BY DEF BaseInv, StageOK, Merge
  <2> QED
    BY <2>1, <2>2 DEF Next, Environment, Fetch, Render, Tick, Join, Post, Open,
       Index, Begin, Deadline, Cut, Fail, List, Done, SearchMentions,
       FindThreads, Read, ReadFails, GiveUp, Probe, Finish, Clear
<1>2. m \in log /\ Owed(m)
  BY <1>1, OwedNeverReturns DEF BaseInv, TypeOK
<1>3. m.conv \notin hidden
  BY <1>1, <1>2 DEF HiddenIsAnswered
<1>4. PICK c \in DirectMessages : Probe(c) /\ m.conv = c
  BY <1>3 DEF Next, Environment, Fetch, Render, Tick, Join, Post, Open, Index,
     Begin, Deadline, Cut, Fail, List, Done, SearchMentions, FindThreads, Read,
     ReadFails, GiveUp, Merge, Probe, Finish, Clear
<1>5. IsAnsweredDM(c)
  BY <1>3, <1>4 DEF Probe
<1>6. PICK a \in log : /\ a.conv = c /\ a.kind = "mine"
                       /\ \A x \in log : x.conv = c /\ x.kind = "top" => x.ts < a.ts
  BY <1>5 DEF IsAnsweredDM
<1>7. TopLevel(m)
  BY <1>1, <1>4, <1>5 DEF IsAnsweredDM
<1>8. m.kind = "top"
  BY <1>2, <1>7, Readers DEF TopLevel
<1> QED
  BY <1>2, <1>4, <1>6, <1>8 DEF Owed, OwedTop

\* Only Finish moves the cursor, and only over what Kept accounts for.
LEMMA NoLossStep == LossInv /\ [Next]_vars => NoLoss'
<1> SUFFICES ASSUME LossInv, [Next]_vars, NEW m \in log', Owed(m)',
                    ~ (m.ts > after'), ~ Buried(m)'
             PROVE  m \in shown' \/ m \in passed'
  BY DEF NoLoss
<1> USE DEF LossInv
<1>a. /\ after' \in Nat /\ after \in Nat /\ clock \in Nat /\ start \in Nat
      /\ m.ts \in Nat /\ after' <= clock
  <2>1. after' <= clock
    <3>1. WholeSecond(clock) <= clock
      BY WholeSecondType DEF BaseInv, TypeOK
    <3>2. CASE Finish
      BY <3>2, FinishMovesForward DEF BaseInv, TypeOK, TimeOK
    <3>3. CASE after' = after
      BY <3>1, <3>3, WholeSecondType DEF BaseInv, TypeOK, TimeOK
    <3> QED
      BY <3>2, <3>3 DEF Next, Environment, Fetch, Render, Tick, Join, Post, Open,
         Index, Begin, Deadline, Cut, Fail, List, Done, SearchMentions,
         FindThreads, Read, ReadFails, GiveUp, Merge, Probe
  <2> QED
    BY <2>1, TypeStep DEF BaseInv, TypeOK, Message
<1>b. m \in log
  BY <1>a, SlackGrows DEF BaseInv
<1>c. Owed(m) /\ ~ Buried(m)
  BY <1>b, OwedNeverReturns, BuriedStays
<1>d. shown \subseteq shown' /\ passed \subseteq passed'
  BY DEF Next, Environment, Fetch, Render, Tick, Join, Post, Open, Index,
     Begin, Deadline, Cut, Fail, List, Done, SearchMentions, FindThreads, Read,
     ReadFails, GiveUp, Merge, Probe, Finish
<1>1. CASE ~ (m.ts > after)
  BY <1>1, <1>b, <1>c, <1>d DEF NoLoss
<1>2. CASE m.ts > after
  <2>1. Finish /\ after' # after
    BY <1>2, <1>a DEF Next, Environment, Fetch, Render, Tick, Join, Post, Open,
       Index, Begin, Deadline, Cut, Fail, List, Done, SearchMentions,
       FindThreads, Read, ReadFails, GiveUp, Merge, Probe
  <2>2. cut = {} /\ stage = "probing"
    BY <2>1 DEF Finish, Complete
  <2>3. after' <= start
    BY <2>1, FinishMovesForward
  <2>4. Kept(m)
    BY <1>a, <1>b, <1>c, <2>2, <2>3 DEF KeptInv
  <2>5. CASE m \in results
    <3>1. m \in Visible
      BY <1>c, <2>5 DEF Visible, HiddenIsAnswered
    <3>2. PICK omitted \in SUBSET MayBeOmitted :
            LET out == {x \in Visible : x.conv \in omitted}
            IN  /\ shown' = shown \cup (Visible \ out)
                /\ passed' = passed \cup
                     {x \in (missed \cup out) \ shown' : x.ts > after /\ x.ts <= after'}
      BY <2>1 DEF Finish
    <3> QED
      BY <1>2, <1>a, <3>1, <3>2
  <2>6. CASE m \in missed
    BY <1>2, <1>a, <2>1, <2>6 DEF Finish
  <2> QED
    BY <1>2, <1>a, <1>c, <2>4, <2>5, <2>6 DEF Kept
<1> QED
  BY <1>1, <1>2

\* The inductive invariant behind NoLoss holds throughout.
LEMMA LossInvariant == Spec => []LossInv
<1>1. Init => LossInv
  BY BaseInit DEF Init, Rest, LossInv, FetchedInv, KeptInv, HiddenIsAnswered, NoLoss
<1>2. LossInv /\ [Next]_vars => LossInv'
  BY TypeStep, TimeStep, StageStep, CutStep, FetchedStep, KeptStep, HiddenStep,
     NoLossStep
  DEF LossInv, BaseInv
<1> QED
  BY <1>1, <1>2, PTL DEF Spec

\* The delta loop loses nothing: whatever arrives while phases read, and
\* whichever of them fail or are cut, a message the operator is owed was
\* returned, is newer than the cursor, is off the page, or is one a pull
\* could not see (sweepUnread, capCursor, sweep.incomplete).
THEOREM NothingLost == Spec => []NoLoss
<1>1. LossInv => NoLoss
  BY DEF LossInv
<1> QED
  BY <1>1, LossInvariant, PTL

\* A DM the answered-DM probe hides holds nothing that is owed an answer,
\* whatever arrived between its read and the probe (dropAnsweredDMs).
THEOREM OnlyAnsweredHidden == Spec => []HiddenIsAnswered
<1>1. LossInv => HiddenIsAnswered
  BY DEF LossInv
<1> QED
  BY <1>1, LossInvariant, PTL

-----------------------------------------------------------------------------
(***************************************************************************)
(* The loop implements DeltaDelivery.                                      *)
(***************************************************************************)

\* What a pull need not return it never needs to return later.
LEMMA SettledGrows ==
    ASSUME BaseInv, [Next]_vars
    PROVE  Settled \subseteq Settled' /\ Settled' \subseteq log'
BY SlackGrows, OwedNeverReturns, BuriedStays DEF Settled

\* Each step of the loop is a step of the abstract delivery, or none.
LEMMA StepDelivers ==
    ASSUME LossInv, [Next]_vars
    PROVE  [Delivery!Next]_(Delivery!deliveryVars)
<1> USE DEF Delivery!Next, Delivery!deliveryVars
<1>a. BaseInv /\ NoLoss /\ NoLoss'
  BY NoLossStep DEF LossInv
<1>b. Settled \subseteq Settled' /\ Settled' \subseteq log'
  BY <1>a, SettledGrows
<1>c. /\ after \in Nat /\ clock \in Nat /\ WholeSecond(clock) <= clock
      /\ WholeSecond(clock) \in Nat /\ after <= clock
      /\ \A m \in log : m.ts \in Nat
  <2>1. after \in Nat /\ clock \in Nat /\ \A m \in log : m.ts \in Nat
    BY <1>a DEF BaseInv, TypeOK, Message
  <2>2. WholeSecond(clock) <= clock /\ WholeSecond(clock) \in Nat
    BY <2>1, WholeSecondType
  <2> QED
    BY <1>a, <2>1, <2>2 DEF BaseInv, TimeOK
<1>1. CASE UNCHANGED <<log, shown, passed, after>>
  BY <1>1, <1>b DEF Delivery!Deal, Delivery!Settle
<1>2. ASSUME NEW c \in Conversations, NEW k \in AllKinds, Post(c, k)
      PROVE  Delivery!Arrive
  <2>1. \E m \in log' \ log : log' = log \cup {m} /\ m.ts > after
    <3> DEFINE m == [conv |-> c, ts |-> clock + 1, kind |-> k]
    <3>1. log' = log \cup {m} /\ m.ts = clock + 1
      BY <1>2 DEF Post
    <3>2. m \notin log
      BY <1>a, <1>c, <3>1 DEF BaseInv, TimeOK
    <3> QED
      BY <1>c, <3>1, <3>2
  <2> QED
    BY <1>2, <1>b, <2>1 DEF Post, Delivery!Arrive, Delivery!Settle
<1>3. ASSUME Finish PROVE Delivery!Pull
  <2>1. after <= after' /\ log' = log /\ lastRead' = lastRead
    BY <1>3, <1>a, FinishMovesForward DEF Finish
  <2>2. Settled' = Settled
    BY <2>1 DEF Settled, Owed, OwedTop, OwedMention, OwedReply, Answers,
                Buried, OnPage, Newer
  <2>3. shown \subseteq shown' /\ shown' \subseteq log
    BY <1>3, <1>a DEF Finish, Visible, BaseInv, TypeOK
  <2>4. /\ passed \subseteq passed' /\ passed' \subseteq log
        /\ \A m \in passed' \ passed : m.ts > after /\ m.ts <= after' /\ m \notin shown'
    <3>1. PICK omitted \in SUBSET MayBeOmitted :
            passed' = passed \cup
              {x \in (missed \cup {y \in Visible : y.conv \in omitted}) \ shown' :
                 x.ts > after /\ x.ts <= after'}
      BY <1>3 DEF Finish
    <3>2. passed \subseteq log /\ missed \subseteq log /\ Visible \subseteq log
      BY <1>a DEF BaseInv, TypeOK, Visible
    <3> QED
      BY <3>1, <3>2
  <2>5. \A m \in log : m.ts <= after' => m \in Settled \cup shown' \cup passed'
    <3>1. after' \in Nat
      BY <1>3, <1>a, FinishMovesForward
    <3>2. \A m \in log' : m.ts <= after' => m \in Settled' \cup shown' \cup passed'
      BY <1>a, <1>c, <2>1, <3>1 DEF NoLoss, Settled
    <3> QED
      BY <2>1, <2>2, <3>2
  <2> QED
    BY <2>1, <2>2, <2>3, <2>4, <2>5 DEF Delivery!Pull
<1>4. \/ UNCHANGED <<log, shown, passed, after>>
      \/ \E c \in Conversations, k \in AllKinds : Post(c, k)
      \/ Finish
  <2>1. CASE UNCHANGED vars
    BY <2>1
  <2>2. CASE Environment
    BY <2>2 DEF Environment, Tick, Join, Open, Index
  <2>3. CASE Begin \/ Deadline
    BY <2>3 DEF Begin, Deadline
  <2>4. ASSUME NEW p \in Phases, Fetch(p) PROVE UNCHANGED <<log, shown, passed, after>>
    <3>1. CASE Cut(p) \/ Fail(p) \/ List(p) \/ Done(p)
      BY <3>1 DEF Cut, Fail, List, Done
    <3>2. CASE SearchMentions \/ FindThreads
      BY <3>2 DEF SearchMentions, FindThreads
    <3>3. ASSUME NEW c \in Conversations, Read(p, c) PROVE UNCHANGED <<log, shown, passed, after>>
      BY <3>3 DEF Read
    <3>4. ASSUME NEW c \in Conversations, NEW why \in {"error", "rate limit"}, ReadFails(p, c, why)
          PROVE  UNCHANGED <<log, shown, passed, after>>
      BY <3>4 DEF ReadFails
    <3> QED
      BY <2>4, <3>1, <3>2, <3>3, <3>4 DEF Fetch
  <2>5. CASE Render
    BY <2>5 DEF Render, GiveUp, Merge, Probe
  <2> QED
    BY <2>1, <2>2, <2>3, <2>4, <2>5 DEF Next
<1> QED
  BY <1>1, <1>2, <1>3, <1>4

\* The loop, with its phases, merges, failures and deadline, implements the
\* delivery its cursor promises: every step of a pull is one step of the
\* abstract delivery or none.
THEOREM LoopDelivers == Spec => Delivers
<1>1. Init => Delivery!Init
  BY DEF Init, Delivery!Init, Settled
<1>2. LossInv /\ [Next]_vars => [Delivery!Next]_(Delivery!deliveryVars)
  BY StepDelivers
<1> QED
  BY <1>1, <1>2, LossInvariant, PTL DEF Spec, Delivers, Delivery!Spec
=============================================================================
