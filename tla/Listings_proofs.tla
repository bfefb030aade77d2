-------------------------- MODULE Listings_proofs --------------------------
(***************************************************************************)
(* Theorems about the lists the server makes of what Slack returns while   *)
(* everybody goes on writing: mentions, files, actions, the digest of a    *)
(* channel. Each is about the specification of one module, for every value *)
(* of its constants.                                                       *)
(***************************************************************************)
EXTENDS Mentions, ChannelDigest, FileSearch, Actions, FeedDigest, Timestamps_proofs, SequenceTheorems

(***************************************************************************)
(* get_mentions. A page only loses messages, so one that is on it at the   *)
(* end was on it when it was read; and what the operator had written when  *)
(* the call was made was there at every look-up.                           *)
(***************************************************************************)
\* No two messages share a timestamp.
FeedOK ==
    /\ IsFiniteSet(feed)
    /\ \A m \in feed : m.ts <= Cardinality(feed)
    /\ \A m, x \in feed : m.ts = x.ts => m = x

\* What each stage of the sweep leaves for the next.
StagesOK ==
    /\ sweepStep \notin {"pending-check", "done"} =>
         unchecked = {} /\ halfChecked = {} /\ answered = {}
    /\ sweepStep = "done" => unchecked = {} /\ halfChecked = {}
    /\ sweepStep # "done" => listing = {}
    /\ sweepStep \in {"pending-check", "done"} => dmsLeft = {}
    /\ unchecked \cup halfChecked \cup answered # {} => options.pendingOnly /\ identity = "full"
    /\ sweepStep = "done" /\ options.pendingOnly /\ expiredM => lapses

\* An answered message has an answer.
AnswersExist ==
    \A m \in answered : \E x \in feed : x.room = m.room /\ x.kind = "mine" /\ x.ts > m.ts

\* The backstop has read a DM, or will.
BackstopOK ==
    sweepStep \in {"dm-history", "pending-check", "done"} =>
        \A m \in feed : FreshDM(m) => m \in hits \/ m.room \in dmsLeft

\* No answer among messages S that were there when the call was made.
NoAnswerIn(S, m) == ~ \E x \in asOf \cap S : x.kind = "mine" /\ x.ts > m.ts

\* A match that the check has let through was not answered in the channel, one
\* that has passed both look-ups not in its thread either.
ChecksOK ==
    sweepStep \in {"pending-check", "done"} /\ options.pendingOnly /\ ~ lapses /\ ~ expiredM =>
        \A m \in hits : Actionable(m) /\ WorthAnswering(m) =>
            \/ m \in unchecked \cup answered
            \/ NoAnswerIn(HistorySince(m), m) /\ (m \in halfChecked \/ NoAnswerIn(ThreadOf(m), m))

ListedOK == sweepStep = "done" => listing = NewestOf(Kept, MentionLimit)

MentionsInv ==
    MentionsTypeOK /\ FeedOK /\ StagesOK /\ AnswersExist /\ BackstopOK /\ ChecksOK /\ ListedOK

USE MentionsAssumption DEF mentionVars, mSlack, mFound, mCheck, mCall

\* The first state satisfies the invariant.
LEMMA MentionsInvInit == MentionsInit => MentionsInv
<1> SUFFICES ASSUME MentionsInit PROVE MentionsInv
  OBVIOUS
<1>1. MentionsTypeOK
  BY DEF MentionsInit, MentionsTypeOK, CallOptions
<1>2. FeedOK
  BY FS_EmptySet DEF MentionsInit, FeedOK
<1>3. StagesOK /\ AnswersExist /\ BackstopOK /\ ChecksOK /\ ListedOK
  BY DEF MentionsInit, StagesOK, AnswersExist, BackstopOK, ChecksOK, ListedOK
<1> QED
  BY <1>1, <1>2, <1>3 DEF MentionsInv

\* Writing a message: it gets the next timestamp, and no page that showed a
\* message of before did not show it before.
LEMMA WriteKeeps == ASSUME MentionsInv, NEW r \in MentionRoom, NEW k \in MentionKinds, Write(r, k) PROVE MentionsInv'
<1> USE DEF MentionsInv
<1> DEFINE n == Cardinality(feed)
<1>1. n \in Nat /\ \A m \in feed : m \in FeedMessage /\ m.ts \in Nat /\ m.ts <= n
  BY FS_CardinalityType DEF FeedOK, MentionsTypeOK, FeedMessage
<1>2. PICK root \in {0} \cup {m.ts : m \in TopIn(r)} :
        feed' = feed \cup {[room |-> r, ts |-> n + 1, root |-> root, kind |-> k]}
  BY DEF Write
<1> DEFINE new == [room |-> r, ts |-> n + 1, root |-> root, kind |-> k]
<1>3. root \in Nat /\ new \in FeedMessage /\ new \notin feed /\ new.ts = n + 1
  BY <1>1 DEF TopIn, FeedMessage
<1>4. /\ sweepStep' = sweepStep /\ sweepStep # "done" /\ sweepStep # "failed"
      /\ UNCHANGED <<searchable, mCall, expiredM, noted, mFound, mCheck, listing, lapses>>
  BY DEF Write
<1>5. Cardinality(feed') = n + 1 /\ IsFiniteSet(feed')
  BY <1>2, <1>3, FS_AddElement DEF FeedOK
<1> HIDE DEF n, new
<1>6. MentionsTypeOK'
  BY <1>2, <1>3, <1>4 DEF MentionsTypeOK, new
<1>7. FeedOK'
  <2>1. \A m \in feed' : m = new \/ m \in feed
    BY <1>2 DEF new
  <2>2. \A m \in feed' : m.ts <= n + 1 /\ (m \in feed => m.ts < n + 1)
    BY <1>1, <1>3, <2>1
  <2>3. ASSUME NEW m \in feed', NEW x \in feed', m.ts = x.ts PROVE m = x
    <3>1. m \in feed /\ x \in feed => m = x
      BY <2>3 DEF FeedOK
    <3>2. m.ts \in Nat /\ x.ts \in Nat
      BY <1>1, <1>3, <2>1
    <3> QED
      BY <1>1, <1>3, <2>1, <2>2, <2>3, <3>1, <3>2
  <2> QED
    BY <1>5, <2>2, <2>3 DEF FeedOK
<1>8. StagesOK'
  BY <1>4 DEF StagesOK
<1>9. AnswersExist'
  BY <1>2, <1>4 DEF AnswersExist
<1>10. \A q : TopIn(q) \in SUBSET TopIn(q)' /\ Timed(TopIn(q)') /\ \A m \in feed : m \in TopIn(q)' => m \in TopIn(q)
  <2>1. \A m \in feed' : m.ts \in Nat
    BY <1>6 DEF MentionsTypeOK, FeedMessage
  <2>2. \A q : TopIn(q)' \in SUBSET feed'
    BY DEF TopIn
  <2>3. \A q : IsFiniteSet(TopIn(q)')
    BY <1>5, <2>2, FS_Subset
  <2> QED
    BY <1>2, <2>1, <2>2, <2>3 DEF TopIn, Timed
<1>11. BackstopOK'
  <2> SUFFICES ASSUME sweepStep \in {"dm-history", "pending-check"},
                      NEW m \in feed', FreshDM(m)'
               PROVE  m \in hits \/ m.room \in dmsLeft
    BY <1>4 DEF BackstopOK
  <2>1. m \in asOf /\ m \in feed /\ m \in NewestOf(TopIn(m.room)', MentionLimit)
    BY <1>4 DEF FreshDM, MentionsTypeOK
  <2>2. m \in TopIn(m.room)
    BY <1>10, <2>1 DEF NewestOf
  <2>3. m \in NewestOf(TopIn(m.room), MentionLimit)
    BY <1>10, <2>1, <2>2, NewestOfFewer
  <2>4. FreshDM(m)
    BY <1>4, <2>1, <2>3 DEF FreshDM
  <2> QED
    BY <2>1, <2>4 DEF BackstopOK
<1>12. ChecksOK'
  <2>1. ASSUME NEW m \in feed, NEW x \in asOf, x \in HistorySince(m)' PROVE x \in HistorySince(m)
    <3> DEFINE T == {y \in TopIn(m.room)' : y.ts > m.ts}
               S == {y \in TopIn(m.room) : y.ts > m.ts}
    <3>1. x \in feed /\ x \in OldestOf(T, ReplyPage) /\ x \in T
      BY <2>1 DEF MentionsTypeOK, HistorySince, OldestOf
    <3>2. S \in SUBSET T /\ x \in S
      BY <1>10, <3>1
    <3>3. Timed(T)
      BY <1>10, FS_Subset DEF Timed
    <3>4. x \in OldestOf(S, ReplyPage)
      BY <3>1, <3>2, <3>3, OldestOfFewer
    <3> QED
      BY <3>4 DEF HistorySince
  <2>2. ASSUME NEW m \in feed, NEW x \in asOf, x \in ThreadOf(m)' PROVE x \in ThreadOf(m)
    BY <2>2 DEF MentionsTypeOK, ThreadOf
  <2>3. hits \subseteq feed
    BY DEF MentionsTypeOK
  <2> QED
    BY <1>4, <2>1, <2>2, <2>3 DEF ChecksOK, NoAnswerIn, WorthAnswering
<1>13. ListedOK'
  BY <1>4 DEF ListedOK
<1> QED
  BY <1>6, <1>7, <1>8, <1>9, <1>11, <1>12, <1>13 DEF MentionsInv

\* The other steps of Slack's, and the clock.
LEMMA SlackMoves == ASSUME MentionsInv, IndexCatchesUp \/ MentionDeadline PROVE MentionsInv'
<1> USE DEF MentionsInv
<1>1. CASE IndexCatchesUp
  <2>1. /\ searchable' = feed
        /\ UNCHANGED <<feed, sweepStep, mCall, expiredM, noted, mFound, mCheck, listing, lapses>>
    BY <1>1 DEF IndexCatchesUp
  <2>2. MentionsTypeOK'
    BY <2>1 DEF MentionsTypeOK
  <2>3. FeedOK' /\ StagesOK' /\ AnswersExist'
    BY <2>1 DEF FeedOK, StagesOK, AnswersExist
  <2>4. BackstopOK' /\ ChecksOK'
    BY <2>1 DEF BackstopOK, ChecksOK, FreshDM, TopIn, NoAnswerIn, HistorySince, ThreadOf, WorthAnswering
  <2>5. ListedOK'
    BY <2>1 DEF ListedOK, Kept, StrictlyTags, WorthAnswering
  <2> QED
    BY <2>2, <2>3, <2>4, <2>5
<1>2. CASE MentionDeadline
  <2>1. /\ expiredM' = TRUE /\ sweepStep # "done"
        /\ UNCHANGED <<mSlack, sweepStep, mCall, noted, mFound, mCheck, listing, lapses>>
    BY <1>2 DEF MentionDeadline
  <2>2. MentionsTypeOK'
    BY <2>1 DEF MentionsTypeOK
  <2>3. FeedOK' /\ StagesOK' /\ AnswersExist'
    BY <2>1 DEF FeedOK, StagesOK, AnswersExist
  <2>4. BackstopOK' /\ ChecksOK' /\ ListedOK'
    BY <2>1 DEF BackstopOK, ChecksOK, ListedOK, FreshDM, TopIn
  <2> QED
    BY <2>2, <2>3, <2>4
<1> QED
  BY <1>1, <1>2

\* The searches.
LEMMA SearchesKeep ==
    ASSUME MentionsInv, NEW q \in {"search-1", "search-2"},
           SearchStep(q) \/ SearchFails(q) \/ SearchCut(q)
    PROVE  MentionsInv'
<1> USE DEF MentionsInv
<1>1. /\ sweepStep = q /\ sweepStep' \in {"search-2", "dm-history", "failed"}
      /\ UNCHANGED <<mSlack, mCall, expiredM, mCheck, listing, lapses>>
  BY DEF SearchStep, SearchFails, SearchCut, AfterSearch
<1>2. SearchMessages(q) \subseteq feed
  BY DEF SearchMessages, NewestOf, Matches, MentionsTypeOK
<1>3. hits' \subseteq feed /\ dmsLeft' \subseteq MentionDMs
  BY <1>1, <1>2 DEF SearchStep, SearchFails, SearchCut, AfterSearch, FilterOwn, MentionsTypeOK
<1>4. noted' \in BOOLEAN
  BY DEF SearchStep, SearchFails, SearchCut, MentionsTypeOK
<1>5. unchecked = {} /\ halfChecked = {} /\ answered = {} /\ listing = {}
  BY <1>1 DEF StagesOK
<1>6. MentionsTypeOK'
  BY <1>1, <1>3, <1>4, <1>5 DEF MentionsTypeOK
<1>7. FeedOK' /\ StagesOK' /\ AnswersExist' /\ ChecksOK' /\ ListedOK'
  BY <1>1, <1>5 DEF FeedOK, StagesOK, AnswersExist, ChecksOK, ListedOK
<1>8. BackstopOK'
  <2> SUFFICES ASSUME sweepStep' = "dm-history", NEW m \in feed, FreshDM(m)'
               PROVE  m.room \in dmsLeft'
    BY <1>1 DEF BackstopOK
  <2>1. options.dmHistory /\ identity = "full" /\ ~ noted' /\ m.room \in MentionDMs
    BY <1>1 DEF FreshDM
  <2>2. SearchStep(q)
    BY <2>1 DEF SearchFails, SearchCut
  <2> QED
    BY <2>1, <2>2 DEF SearchStep, AfterSearch
<1> QED
  BY <1>6, <1>7, <1>8

\* The backstop.
LEMMA BackstopKeeps ==
    ASSUME MentionsInv, DMsCut \/ \E r \in MentionDMs : ReadDM(r) \/ ReadDMFails(r)
    PROVE  MentionsInv'
<1> USE DEF MentionsInv
<1>1. /\ sweepStep = "dm-history"
      /\ UNCHANGED <<mSlack, sweepStep, mCall, expiredM, mCheck, listing>>
  BY DEF DMsCut, ReadDM, ReadDMFails
<1>2. \A r \in MentionDMs : DMHits(r) \subseteq feed
  BY DEF DMHits, RecentActivity, TopIn, NewestOf
<1>3. hits' \subseteq feed /\ dmsLeft' \subseteq MentionDMs
  BY <1>2 DEF DMsCut, ReadDM, ReadDMFails, MentionsTypeOK
<1>4. noted' \in BOOLEAN /\ lapses' \in BOOLEAN
  BY DEF DMsCut, ReadDM, ReadDMFails, MentionsTypeOK
<1>5. unchecked = {} /\ halfChecked = {} /\ answered = {} /\ listing = {}
  BY <1>1 DEF StagesOK
<1>6. MentionsTypeOK'
  BY <1>1, <1>3, <1>4, <1>5 DEF MentionsTypeOK
<1>7. FeedOK' /\ StagesOK' /\ AnswersExist' /\ ChecksOK' /\ ListedOK'
  BY <1>1, <1>5 DEF FeedOK, StagesOK, AnswersExist, ChecksOK, ListedOK
<1>8. BackstopOK'
  <2> SUFFICES ASSUME NEW m \in feed, FreshDM(m)'
               PROVE  m \in hits' \/ m.room \in dmsLeft'
    BY <1>1 DEF BackstopOK
  <2>1. ~ noted' /\ ~ lapses'
    BY DEF FreshDM
  <2>2. PICK r \in MentionDMs : ReadDM(r)
    BY <2>1 DEF DMsCut, ReadDMFails
  <2>3. /\ dmsLeft' = dmsLeft \ {r} /\ hits' = hits \cup DMHits(r)
        /\ UNCHANGED <<noted, lapses>>
    BY <2>2 DEF ReadDM
  <2>4. FreshDM(m)
    BY <1>1, <2>3 DEF FreshDM, TopIn
  <2>5. m \in hits \/ m.room \in dmsLeft
    BY <1>1, <2>4 DEF BackstopOK
  <2>6. m.room = r => m \in DMHits(r)
    BY <2>4 DEF FreshDM, DMHits, RecentActivity
  <2> QED
    BY <2>3, <2>5, <2>6
<1> QED
  BY <1>6, <1>7, <1>8

\* The call, its refusal, and the start of the check.
LEMMA StagesKeep ==
    ASSUME MentionsInv, StartCheck \/ RefuseCall \/ \E o \in MentionCalls : CallMentions(o)
    PROVE  MentionsInv'
<1> USE DEF MentionsInv
<1>1. CASE \E o \in MentionCalls : CallMentions(o)
  <2>1. /\ sweepStep = "idle" /\ sweepStep' = "search-1" /\ options' \in CallOptions
        /\ identity' \in {"none", "handle", "full"} /\ asOf' = feed
        /\ expiredM' = FALSE /\ noted' = FALSE
        /\ UNCHANGED <<mSlack, mFound, mCheck, listing, lapses>>
    BY <1>1 DEF CallMentions
  <2>2. unchecked = {} /\ halfChecked = {} /\ answered = {} /\ listing = {}
    BY <2>1 DEF StagesOK
  <2>3. MentionsTypeOK'
    BY <2>1 DEF MentionsTypeOK
  <2>4. FeedOK' /\ StagesOK' /\ AnswersExist' /\ BackstopOK' /\ ChecksOK' /\ ListedOK'
    BY <2>1, <2>2 DEF FeedOK, StagesOK, AnswersExist, BackstopOK, ChecksOK, ListedOK
  <2> QED
    BY <2>3, <2>4
<1>2. CASE StartCheck
  <2>1. /\ sweepStep = "dm-history" /\ sweepStep' = "pending-check" /\ dmsLeft = {}
        /\ ~ (options.pendingOnly /\ identity # "full")
        /\ unchecked' = IF options.pendingOnly /\ ~ expiredM
                          THEN {m \in hits : Actionable(m) /\ WorthAnswering(m)} ELSE {}
        /\ UNCHANGED <<mSlack, mCall, expiredM, noted, mFound, halfChecked, answered, listing, lapses>>
    BY <1>2 DEF StartCheck
  <2>2. halfChecked = {} /\ answered = {} /\ listing = {} /\ unchecked' \subseteq hits
    BY <2>1 DEF StagesOK
  <2>3. MentionsTypeOK'
    BY <2>1, <2>2 DEF MentionsTypeOK
  <2>4. StagesOK'
    BY <2>1, <2>2 DEF StagesOK, MentionsTypeOK
  <2>5. FeedOK' /\ AnswersExist' /\ ListedOK'
    BY <2>1, <2>2 DEF FeedOK, AnswersExist, ListedOK
  <2>6. BackstopOK'
    BY <2>1 DEF BackstopOK, FreshDM, TopIn
  <2>7. ChecksOK'
    BY <2>1 DEF ChecksOK, Actionable, WorthAnswering
  <2> QED
    BY <2>3, <2>4, <2>5, <2>6, <2>7
<1>3. CASE RefuseCall
  <2>1. /\ sweepStep \in {"dm-history", "pending-check"} /\ identity # "full"
        /\ sweepStep' = "failed" /\ hits' = {}
        /\ UNCHANGED <<mSlack, mCall, expiredM, noted, dmsLeft, mCheck, listing, lapses>>
    BY <1>3 DEF RefuseCall
  <2>2. unchecked = {} /\ halfChecked = {} /\ answered = {} /\ listing = {}
    BY <2>1 DEF StagesOK
  <2>3. MentionsTypeOK'
    BY <2>1, <2>2 DEF MentionsTypeOK
  <2>4. FeedOK' /\ StagesOK' /\ AnswersExist' /\ BackstopOK' /\ ChecksOK' /\ ListedOK'
    BY <2>1, <2>2 DEF FeedOK, StagesOK, AnswersExist, BackstopOK, ChecksOK, ListedOK
  <2> QED
    BY <2>3, <2>4
<1> QED
  BY <1>1, <1>2, <1>3

\* The reply check.
LEMMA ReplyCheckKeeps ==
    ASSUME MentionsInv, NEW m \in feed, CheckHistory(m) \/ CheckThread(m) \/ CheckFails(m)
    PROVE  MentionsInv'
<1> USE DEF MentionsInv
<1>1. /\ m \in unchecked \cup halfChecked
      /\ UNCHANGED <<mSlack, sweepStep, mCall, expiredM, noted, mFound, listing>>
  BY DEF CheckHistory, CheckThread, CheckFails
<1>2. sweepStep = "pending-check" /\ dmsLeft = {} /\ options.pendingOnly /\ identity = "full" /\ m \in hits
  BY <1>1 DEF StagesOK, MentionsTypeOK
<1>3. /\ unchecked' \subseteq unchecked /\ halfChecked' \subseteq halfChecked \cup {m}
      /\ answered' \in {answered, answered \cup {m}}
      /\ lapses' \in BOOLEAN /\ (lapses => lapses')
  BY DEF CheckHistory, CheckThread, CheckFails, MentionsTypeOK
<1>4. MentionsTypeOK'
  BY <1>1, <1>2, <1>3 DEF MentionsTypeOK
<1>5. FeedOK' /\ StagesOK' /\ ListedOK'
  BY <1>1, <1>2, <1>3 DEF FeedOK, StagesOK, ListedOK
<1>6. AnswersExist'
  <2>1. ASSUME answered' # answered
        PROVE  \E x \in feed : x.room = m.room /\ x.kind = "mine" /\ x.ts > m.ts
    BY <2>1 DEF CheckHistory, CheckThread, CheckFails, OperatorTextSince, HistorySince,
                OldestOf, TopIn, ThreadReplies, ThreadOf
  <2> QED
    BY <1>1, <1>3, <2>1 DEF AnswersExist
<1>7. BackstopOK'
  BY <1>1, <1>3 DEF BackstopOK, FreshDM, TopIn
<1>8. ChecksOK'
  <2> SUFFICES ASSUME ~ lapses', ~ expiredM, NEW x \in hits, Actionable(x), WorthAnswering(x)
               PROVE  \/ x \in unchecked' \cup answered'
                      \/ /\ NoAnswerIn(HistorySince(x), x)
                         /\ x \in halfChecked' \/ NoAnswerIn(ThreadOf(x), x)
    <3>1. \A x \in hits : HistorySince(x)' = HistorySince(x) /\ ThreadOf(x)' = ThreadOf(x)
      BY <1>1 DEF HistorySince, ThreadOf, TopIn
    <3>2. \A x \in hits : /\ NoAnswerIn(HistorySince(x), x)' <=> NoAnswerIn(HistorySince(x), x)
                          /\ NoAnswerIn(ThreadOf(x), x)' <=> NoAnswerIn(ThreadOf(x), x)
      BY <1>1, <3>1 DEF NoAnswerIn
    <3>3. \A x \in hits : WorthAnswering(x)' <=> WorthAnswering(x)
      BY <1>1 DEF WorthAnswering
    <3> QED
      BY <1>1, <3>2, <3>3 DEF ChecksOK
  <2>1. ~ lapses
    BY <1>3
  <2>2. \/ x \in unchecked \cup answered
        \/ NoAnswerIn(HistorySince(x), x) /\ (x \in halfChecked \/ NoAnswerIn(ThreadOf(x), x))
    BY <1>2, <2>1 DEF ChecksOK
  <2>3. CASE CheckHistory(m)
    <3>1. /\ unchecked' = unchecked \ {m}
          /\ \/ answered' = answered \cup {m} /\ halfChecked' = halfChecked
             \/ /\ ~ OperatorTextSince(HistorySince(m), m)
                /\ halfChecked' = halfChecked \cup {m} /\ answered' = answered
      BY <2>3 DEF CheckHistory
    <3>2. ~ OperatorTextSince(HistorySince(m), m) => NoAnswerIn(HistorySince(m), m)
      BY DEF OperatorTextSince, NoAnswerIn
    <3> QED
      BY <2>2, <3>1, <3>2
  <2>4. CASE CheckThread(m)
    <3>1. /\ halfChecked' = halfChecked \ {m} /\ unchecked' = unchecked
          /\ \/ answered' = answered \cup {m}
             \/ ~ OperatorTextSince(ThreadOf(m), m) /\ answered' = answered
      BY <2>4 DEF CheckThread, ThreadReplies
    <3>2. ~ OperatorTextSince(ThreadOf(m), m) => NoAnswerIn(ThreadOf(m), m)
      BY DEF OperatorTextSince, NoAnswerIn
    <3> QED
      BY <2>2, <3>1, <3>2
  <2>5. CASE CheckFails(m)
    BY <2>5 DEF CheckFails
  <2> QED
    BY <2>3, <2>4, <2>5
<1> QED
  BY <1>4, <1>5, <1>6, <1>7, <1>8

\* The list.
LEMMA ListMentionsKeeps == ASSUME MentionsInv, ListMentions PROVE MentionsInv'
<1> USE DEF MentionsInv
<1>1. /\ sweepStep = "pending-check" /\ sweepStep' = "done" /\ unchecked = {} /\ halfChecked = {}
      /\ listing' = NewestOf(Kept, MentionLimit)
      /\ lapses' = (lapses \/ (options.pendingOnly /\ expiredM))
      /\ UNCHANGED <<mSlack, mCall, expiredM, noted, mFound, mCheck>>
  BY DEF ListMentions
<1>2. listing' \subseteq hits /\ lapses' \in BOOLEAN
  BY <1>1 DEF NewestOf, Kept, MentionsTypeOK
<1>3. MentionsTypeOK'
  BY <1>1, <1>2 DEF MentionsTypeOK
<1>4. FeedOK' /\ StagesOK' /\ AnswersExist'
  BY <1>1 DEF FeedOK, StagesOK, AnswersExist
<1>5. BackstopOK' /\ ChecksOK'
  BY <1>1 DEF BackstopOK, ChecksOK, FreshDM, TopIn, NoAnswerIn, HistorySince, ThreadOf, WorthAnswering
<1>6. ListedOK'
  <2>1. Kept' = Kept
    BY <1>1 DEF Kept, StrictlyTags, WorthAnswering
  <2> QED
    BY <1>1, <2>1 DEF ListedOK
<1> QED
  BY <1>3, <1>4, <1>5, <1>6

LEMMA MentionsStep == MentionsInv /\ [MentionsNext]_mentionVars => MentionsInv'
<1> SUFFICES ASSUME MentionsInv, [MentionsNext]_mentionVars PROVE MentionsInv'
  OBVIOUS
<1>1. CASE UNCHANGED mentionVars
  BY <1>1 DEF MentionsInv, MentionsTypeOK, FeedOK, StagesOK, AnswersExist, BackstopOK, FreshDM,
              ChecksOK, ListedOK, NoAnswerIn, HistorySince, ThreadOf, TopIn, Kept, StrictlyTags, WorthAnswering
<1>2. CASE MentionsNext
  BY <1>2, WriteKeeps, SlackMoves, SearchesKeep, BackstopKeeps, StagesKeep, ReplyCheckKeeps,
     ListMentionsKeeps DEF MentionsNext
<1> QED
  BY <1>1, <1>2

LEMMA MentionsInvariant == MentionsSpec => []MentionsInv
BY MentionsInvInit, MentionsStep, PTL DEF MentionsSpec

\* Every variable of a sweep for mentions stays in its type; what is listed was
\* found, what was found is on Slack (unread.go, sweepMentions).
THEOREM MentionsTypeCorrect == MentionsSpec => []MentionsTypeOK
<1>1. MentionsInv => MentionsTypeOK
  BY DEF MentionsInv
<1> QED
  BY <1>1, MentionsInvariant, PTL

\* For any rooms, calls and bounds: nothing is listed as pending that the operator
\* had answered when the call was made, in the thread or within the messages the
\* check reads, unless a look-up failed or was cut (unread.go, operatorRepliedSince).
THEOREM PendingMeansUnanswered == MentionsSpec => []PendingIsUnanswered
<1>1. ASSUME MentionsInv PROVE PendingIsUnanswered
  <2> SUFFICES ASSUME sweepStep = "done", options.pendingOnly, ~ lapses, NEW m \in listing,
                      NEW x \in asOf \cap (ThreadOf(m) \cup HistorySince(m)), x.kind = "mine", x.ts > m.ts
               PROVE  FALSE
    BY DEF PendingIsUnanswered
  <2>1. m \in hits /\ m \notin answered /\ Actionable(m) /\ WorthAnswering(m)
    BY <1>1 DEF MentionsInv, ListedOK, NewestOf, Kept
  <2>2. ~ expiredM /\ unchecked = {} /\ halfChecked = {}
    BY <1>1 DEF MentionsInv, StagesOK
  <2>3. NoAnswerIn(HistorySince(m), m) /\ NoAnswerIn(ThreadOf(m), m)
    BY <1>1, <2>1, <2>2 DEF MentionsInv, ChecksOK
  <2> QED
    BY <2>3 DEF NoAnswerIn
<1> QED
  BY <1>1, MentionsInvariant, PTL

\* For any rooms, calls and bounds: what a sweep found, or what was waiting on a
\* DM's page when the call was made, is listed, unless the operator has written
\* after it, a filter of the call removes it or newer asks fill the list
\* (unread.go, sweepMentions and the filters it calls).
THEOREM NoAskIsDropped == MentionsSpec => []EveryAskAccounted
<1>1. ASSUME MentionsInv PROVE EveryAskAccounted
  <2> SUFFICES ASSUME sweepStep = "done", NEW m \in feed, m \in hits \/ FreshDM(m),
                      m \notin listing, ~ LeftOutFor(m)
               PROVE  FALSE
    BY DEF EveryAskAccounted
  <2> USE <1>1 DEF MentionsInv
  <2>1. m \in hits
    BY DEF BackstopOK, StagesOK
  <2>2. Actionable(m) /\ StrictlyTags(m) /\ (options.pendingOnly => WorthAnswering(m))
    BY DEF LeftOutFor
  <2>3. m \notin answered
    BY DEF StagesOK, AnswersExist, LeftOutFor
  <2>4. m \in Kept \ NewestOf(Kept, MentionLimit)
    BY <2>1, <2>2, <2>3 DEF ListedOK, Kept
  <2>5. /\ Timed(Kept) /\ \A x, y \in Kept : x.ts = y.ts => x = y
    <3>1. Kept \in SUBSET feed
      BY DEF Kept, MentionsTypeOK
    <3>2. IsFiniteSet(Kept)
      BY <3>1, FS_Subset DEF FeedOK
    <3> QED
      BY <3>1, <3>2 DEF Timed, FeedOK, MentionsTypeOK, FeedMessage
  <2>6. Cardinality(listing) = MentionLimit
    BY <2>4, <2>5, ShortPageIsAll DEF ListedOK
  <2>7. \A x \in listing : x.ts > m.ts
    BY <2>4, <2>5, LeftOutIsOlder DEF ListedOK
  <2> QED
    BY <2>6, <2>7 DEF LeftOutFor
<1> QED
  BY <1>1, MentionsInvariant, PTL

-----------------------------------------------------------------------------
(***************************************************************************)
(* get_channel_digest. Whoever is still on a page was on it when the page  *)
(* was read, with the replies that the thread had when the call began.     *)
(***************************************************************************)
\* Posts are numbered, and a reply has a top-level post before it.
WallOK ==
    /\ IsFiniteSet(wall) /\ askedAt <= Cardinality(wall)
    /\ \A p \in wall : p.ts <= Cardinality(wall) /\ (p.root # 0 => p.root < p.ts)
    /\ \A p, q \in wall : p.ts = q.ts => p = q

\* Messages of a page know their threads as these were when the call began.
KnowsReplies(m) == \A p \in wall : p.root = m.ts /\ p.ts <= askedAt => p.ts <= m.last

WindowRead ==
    digestAt \in {"paged", "reading", "given"} =>
        /\ \A m \in inWindow : KnowsReplies(m)
        /\ \A p \in Tops : p.ts <= askedAt /\ OnWindowPage(p.ts) =>
              \E m \in inWindow : m.ts = p.ts /\ m.body = p.body

\* A reply the answer is about.
ReplyInReach(p) ==
    /\ p.root # 0 /\ p.ts <= askedAt /\ InReach(p.root)
    /\ InWindow(p.ts) /\ ~ InBoundSecond(p.ts)

\* Its thread was found, and has been read, or will be.
ThreadsFound ==
    digestAt \in {"reading", "given"} /\ ~ troubled /\ (ask.replies \/ inWindow = {}) =>
        \A p \in wall : ReplyInReach(p) =>
            /\ \E m \in inWindow \cup earlier : m.ts = p.root /\ Moved(m)
            /\ ask.replies => p.root \in toRead \/ p \in fetchedReps

AllRead == digestAt = "given" => toRead = {}

DigestInv == DigestTypeOK /\ WallOK /\ WindowRead /\ ThreadsFound /\ AllRead

USE DigestAssumption DEF digestVars

\* A later post lies in the same second or a later one.
LEMMA WholeSecMonotone ==
    ASSUME NEW s \in Nat, NEW t \in Nat, s <= t
    PROVE  WholeSec(s) \in Nat /\ WholeSec(s) <= s /\ WholeSec(s) <= WholeSec(t)
<1> DEFINE a == s \div TickSecond
           b == t \div TickSecond
<1>1. a \in Nat /\ b \in Nat /\ a <= b
  OBVIOUS
<1>2. a * TickSecond <= b * TickSecond /\ a * TickSecond \in Nat /\ a * TickSecond <= s
  BY <1>1
<1> QED
  BY <1>2 DEF WholeSec

\* What lies in the window, and not in its bound's second, passes the filter.
LEMMA WindowPassesFilter ==
    ASSUME DigestTypeOK, NEW t \in Nat, InWindow(t), ~ InBoundSecond(t)
    PROVE  WholeSec(t) \in Nat /\ WholeSec(t) >= ask.oldest /\ WithinTS(t, ask.oldest, ask.latest)
<1>1. WholeSec(t) \in Nat /\ WholeSec(t) <= t
  BY WholeSecMonotone
<1>2. ask.oldest \in Nat /\ ask.latest \in Nat
  BY DEF DigestTypeOK
<1> QED
  BY <1>1, <1>2 DEF InWindow, InBoundSecond, WithinTS

\* The latest reply of a thread is none of its earlier ones.
LEMMA LatestReplyIs ==
    ASSUME DigestTypeOK, NEW t
    PROVE  LatestReply(t) \in 0 .. MaxPosts /\ \A p \in RepliesIn(t) : p.ts <= LatestReply(t)
<1> DEFINE S == {p.ts : p \in RepliesIn(t)}
<1>1. \A p \in RepliesIn(t) : p.ts \in 1 .. MaxPosts
  BY DEF RepliesIn, DigestTypeOK
<1>2. CASE RepliesIn(t) = {}
  BY <1>2 DEF LatestReply
<1>3. CASE RepliesIn(t) # {}
  <2>1. S \in SUBSET Nat /\ S # {} /\ \A x \in S : x <= MaxPosts
    BY <1>1, <1>3
  <2>2. IsFiniteSet(S)
    <3> HIDE DEF S
    <3> QED
      BY <2>1, FS_BoundedSetOfNaturals
  <2>3. PICK k \in S : \A l \in S : l <= k
    <3> HIDE DEF S
    <3> QED
      BY <2>1, <2>2, Largest
  <2>4. \E x \in S : \A p \in RepliesIn(t) : p.ts <= x
    BY <2>3
  <2>5. LatestReply(t) \in S /\ \A p \in RepliesIn(t) : p.ts <= LatestReply(t)
    BY <1>3, <2>4 DEF LatestReply
  <2> QED
    BY <1>1, <2>5
<1> QED
  BY <1>2, <1>3

\* A page of what Slack knows now, as messages of the digest.
LEMMA OnPageIs ==
    ASSUME DigestTypeOK, NEW S \in SUBSET Tops
    PROVE  /\ OnPage(S) \subseteq [ts : 1 .. MaxPosts, body : BOOLEAN, last : 0 .. MaxPosts]
           /\ \A m \in OnPage(S) : KnowsReplies(m)
           /\ \A p \in S : \E m \in OnPage(S) : m.ts = p.ts /\ m.body = p.body
<1>1. \A p \in S : p.ts \in 1 .. MaxPosts /\ p.body \in BOOLEAN
  BY DEF Tops, DigestTypeOK
<1>2. \A t : LatestReply(t) \in 0 .. MaxPosts
  BY LatestReplyIs
<1>3. OnPage(S) \subseteq [ts : 1 .. MaxPosts, body : BOOLEAN, last : 0 .. MaxPosts]
  BY <1>1, <1>2 DEF OnPage
<1>4. ASSUME NEW m \in OnPage(S) PROVE KnowsReplies(m)
  <2>1. m.last = LatestReply(m.ts)
    BY DEF OnPage
  <2> QED
    BY <2>1, LatestReplyIs DEF KnowsReplies, RepliesIn
<1>5. ASSUME NEW p \in S PROVE \E m \in OnPage(S) : m.ts = p.ts /\ m.body = p.body
  <2>1. [ts |-> p.ts, body |-> p.body, last |-> LatestReply(p.ts)] \in OnPage(S)
    BY DEF OnPage
  <2> QED
    BY <2>1
<1> QED
  BY <1>3, <1>4, <1>5

\* The first state satisfies the invariant.
LEMMA DigestInvInit == DigestInit => DigestInv
<1> SUFFICES ASSUME DigestInit PROVE DigestInv
  OBVIOUS
<1>1. DigestTypeOK
  <2>1. 0 \in 0 .. MaxPosts
    OBVIOUS
  <2> QED
    BY <2>1, Zenon DEF DigestInit, DigestTypeOK
<1>2. WallOK
  BY FS_EmptySet DEF DigestInit, WallOK
<1> QED
  BY <1>1, <1>2 DEF DigestInit, DigestInv, WindowRead, ThreadsFound, AllRead

\* Somebody posts: what is on a page was on it before, and the post is newer
\* than the call.
LEMMA PostKeeps ==
    ASSUME DigestInv, NEW root \in 0 .. MaxPosts, NEW body \in BOOLEAN, PostOnWall(root, body)
    PROVE  DigestInv'
<1> USE DEF DigestInv
<1> DEFINE n == Cardinality(wall)
           new == [ts |-> n + 1, root |-> root, body |-> body]
<1>1. /\ n < MaxPosts /\ digestAt \notin {"given", "error"} /\ wall' = wall \cup {new}
      /\ root = 0 \/ (body /\ \E p \in Tops : p.ts = root)
      /\ UNCHANGED <<digestAt, ask, askedAt, inWindow, earlier, toRead, fetchedReps, troubled>>
  BY DEF PostOnWall
<1>2. n \in Nat /\ \A p \in wall : p.ts \in 1 .. MaxPosts /\ p.root \in 0 .. MaxPosts /\ p.ts <= n
  BY FS_CardinalityType DEF WallOK, DigestTypeOK
<1>3. /\ new \in [ts : 1 .. MaxPosts, root : 0 .. MaxPosts, body : BOOLEAN]
      /\ new.ts = n + 1 /\ new.root = root /\ new \notin wall
  BY <1>1, <1>2
<1>4. Cardinality(wall') = n + 1 /\ IsFiniteSet(wall')
  BY <1>1, <1>3, FS_AddElement DEF WallOK
<1> HIDE DEF n, new
<1>5. DigestTypeOK'
  BY <1>1, <1>3 DEF DigestTypeOK
<1>6. WallOK'
  <2>1. \A p \in wall' : p = new \/ p \in wall
    BY <1>1
  <2>2. root # 0 => root < n + 1
    BY <1>1, <1>2 DEF Tops
  <2>3. \A p \in wall' : p.ts <= n + 1 /\ (p.root # 0 => p.root < p.ts) /\ (p \in wall => p.ts < n + 1)
    BY <1>2, <1>3, <2>1, <2>2 DEF WallOK
  <2>4. ASSUME NEW p \in wall', NEW q \in wall', p.ts = q.ts PROVE p = q
    <3>1. p \in wall /\ q \in wall => p = q
      BY <2>4 DEF WallOK
    <3>2. p \in wall => p.ts < n + 1
      BY <2>3
    <3>3. q \in wall => q.ts < n + 1
      BY <2>3
    <3> QED
      BY <1>2, <1>3, <2>1, <2>4, <3>1, <3>2, <3>3
  <2>5. askedAt <= n + 1
    BY <1>2 DEF WallOK, DigestTypeOK, n
  <2> QED
    BY <1>1, <1>4, <2>3, <2>4, <2>5 DEF WallOK
<1>7. \A p \in wall' : p.ts <= askedAt => p \in wall
  BY <1>1, <1>2, <1>3 DEF WallOK, DigestTypeOK, n
<1>8. ASSUME NEW S \in SUBSET Tops, NEW T \in SUBSET Tops', S = T \cap wall,
             NEW p \in wall, p.ts \in {x.ts : x \in NewestOf(T, DigestPage)}
      PROVE  p.ts \in {x.ts : x \in NewestOf(S, DigestPage)}
  <2>1. PICK x \in NewestOf(T, DigestPage) : x.ts = p.ts
    BY <1>8
  <2>2. x = p
    <3>1. x \in wall' /\ p \in wall'
      BY <1>1 DEF NewestOf, Tops
    <3> QED
      BY <1>6, <2>1, <3>1 DEF WallOK
  <2>3. S \in SUBSET T /\ x \in S
    BY <1>8, <2>2 DEF NewestOf
  <2>4. Timed(T)
    <3>1. T \in SUBSET wall'
      BY DEF Tops
    <3>2. IsFiniteSet(T)
      BY <1>4, <3>1, FS_Subset
    <3> QED
      BY <1>5, <3>1, <3>2 DEF Timed, DigestTypeOK
  <2>5. x \in NewestOf(S, DigestPage)
    BY <2>3, <2>4, NewestOfFewer
  <2> QED
    BY <2>1, <2>5
<1>9. \A p \in wall : OnWindowPage(p.ts)' => OnWindowPage(p.ts)
  <2> DEFINE S == UpTo(WholeSec(ask.latest))
  <2>1. S \in SUBSET Tops /\ S' \in SUBSET Tops' /\ S = S' \cap wall
    BY <1>1 DEF UpTo, Tops
  <2>2. \A p \in wall : p.ts \in {x.ts : x \in NewestOf(S', DigestPage)} =>
                       p.ts \in {x.ts : x \in NewestOf(S, DigestPage)}
    BY <1>8, <2>1
  <2> QED
    BY <1>1, <2>2 DEF OnWindowPage, InWindow, InBoundSecond, NewestOf
<1>10. \A p \in wall : OnParentsPage(p.ts)' => OnParentsPage(p.ts)
  <2> DEFINE S == {x \in Tops : x.ts <= WholeSec(ask.oldest)}
  <2>1. S \in SUBSET Tops /\ S' \in SUBSET Tops' /\ S = S' \cap wall
    BY <1>1 DEF Tops, WholeSec
  <2>2. \A p \in wall : p.ts \in {x.ts : x \in NewestOf(S', DigestPage)} =>
                       p.ts \in {x.ts : x \in NewestOf(S, DigestPage)}
    BY <1>8, <2>1
  <2> QED
    BY <1>1, <2>2 DEF OnParentsPage, NewestOf
<1>11. WindowRead'
  BY <1>1, <1>7, <1>9 DEF WindowRead, KnowsReplies, Tops
<1>12. ThreadsFound'
  <2>1. ASSUME NEW p \in wall', ReplyInReach(p)' PROVE p \in wall /\ ReplyInReach(p)
    <3>1. /\ p.root # 0 /\ p.ts <= askedAt /\ InReach(p.root)'
          /\ InWindow(p.ts) /\ ~ InBoundSecond(p.ts)
      BY <1>1, <2>1 DEF ReplyInReach, InWindow, InBoundSecond
    <3>2. p \in wall /\ p.root < p.ts
      BY <1>7, <3>1 DEF WallOK
    <3>3. PICK r \in wall' : r.ts = p.root
      BY <3>1 DEF InReach, OnWindowPage, OnParentsPage, NewestOf, UpTo, Tops
    <3>4. r \in wall
      <4>1. r.ts <= askedAt
        BY <1>2, <3>1, <3>2, <3>3 DEF DigestTypeOK
      <4> QED
        BY <1>7, <4>1
    <3>5. InReach(r.ts)
      BY <1>9, <1>10, <3>1, <3>3, <3>4 DEF InReach
    <3> QED
      BY <3>1, <3>2, <3>3, <3>5 DEF ReplyInReach
  <2> QED
    BY <1>1, <2>1 DEF ThreadsFound, Moved
<1>13. AllRead'
  BY <1>1 DEF AllRead
<1> QED
  BY <1>5, <1>6, <1>11, <1>12, <1>13

\* The window's page.
LEMMA WindowKeeps == ASSUME DigestInv, AskDigest \/ ReadWindow PROVE DigestInv'
<1> USE DEF DigestInv
<1>1. CASE AskDigest
  <2>1. /\ digestAt = "idle" /\ digestAt' = "asked" /\ askedAt' = Cardinality(wall)
        /\ UNCHANGED <<wall, ask, inWindow, earlier, toRead, fetchedReps, troubled>>
    BY <1>1 DEF AskDigest
  <2>2. Cardinality(wall) \in Nat /\ Cardinality(wall) <= MaxPosts
    <3>1. \A p \in wall : p.ts \in 1 .. MaxPosts
      BY DEF DigestTypeOK
    <3> QED
      BY <3>1, AsManyAsTimestamps DEF WallOK
  <2>3. DigestTypeOK'
    BY <2>1, <2>2 DEF DigestTypeOK
  <2>4. WallOK'
    BY <2>1, <2>2 DEF WallOK
  <2> QED
    BY <2>1, <2>3, <2>4 DEF WindowRead, ThreadsFound, AllRead
<1>2. CASE ReadWindow
  <2>1. /\ digestAt = "asked"
        /\ \/ digestAt' = "paged" /\ inWindow' = RecentPage
           \/ digestAt' = "error" /\ UNCHANGED inWindow
        /\ UNCHANGED <<wall, ask, askedAt, earlier, toRead, fetchedReps, troubled>>
    BY <1>2 DEF ReadWindow
  <2> DEFINE S == NewestOf(UpTo(WholeSec(ask.latest)), DigestPage)
  <2>2. S \in SUBSET Tops
    BY DEF NewestOf, UpTo
  <2>3. /\ OnPage(S) \subseteq [ts : 1 .. MaxPosts, body : BOOLEAN, last : 0 .. MaxPosts]
        /\ \A m \in OnPage(S) : KnowsReplies(m)
        /\ \A p \in S : \E m \in OnPage(S) : m.ts = p.ts /\ m.body = p.body
    BY <2>2, OnPageIs
  <2>4. RecentPage = {m \in OnPage(S) : WithinTS(m.ts, ask.oldest, ask.latest)}
    BY DEF RecentPage
  <2>5. DigestTypeOK'
    BY <2>1, <2>3, <2>4 DEF DigestTypeOK
  <2>6. WallOK' /\ ThreadsFound' /\ AllRead'
    BY <2>1 DEF WallOK, ThreadsFound, AllRead
  <2>7. WindowRead'
    <3> SUFFICES ASSUME digestAt' = "paged" PROVE WindowRead'
      BY <2>1 DEF WindowRead
    <3>1. \A m \in inWindow' : KnowsReplies(m)
      BY <2>1, <2>3, <2>4
    <3>2. ASSUME NEW p \in Tops, OnWindowPage(p.ts)
          PROVE  \E m \in inWindow' : m.ts = p.ts /\ m.body = p.body
      <4>1. PICK q \in S : q.ts = p.ts
        BY <3>2 DEF OnWindowPage
      <4>2. q = p
        BY <4>1, <2>2 DEF WallOK, Tops
      <4>3. PICK m \in OnPage(S) : m.ts = p.ts /\ m.body = p.body
        BY <2>3, <4>2
      <4>4. m \in RecentPage
        <5>1. p.ts \in Nat
          BY DEF Tops, DigestTypeOK
        <5> QED
          BY <2>4, <3>2, <4>3, <5>1, WindowPassesFilter DEF OnWindowPage
      <4> QED
        BY <2>1, <4>3, <4>4
    <3>3. Tops' = Tops /\ \A p \in Tops : OnWindowPage(p.ts)' <=> OnWindowPage(p.ts)
      BY <2>1 DEF Tops, OnWindowPage, UpTo, InWindow, InBoundSecond
    <3>4. \A m \in inWindow' : KnowsReplies(m)'
      BY <2>1, <3>1 DEF KnowsReplies
    <3> QED
      BY <2>1, <3>2, <3>3, <3>4 DEF WindowRead
  <2> QED
    BY <2>5, <2>6, <2>7
<1> QED
  BY <1>1, <1>2

\* What decides which threads are in reach stays as it is while nobody posts.
LEMMA ReachStays ==
    ASSUME UNCHANGED <<wall, ask, askedAt>>
    PROVE  /\ \A p : ReplyInReach(p)' <=> ReplyInReach(p)
           /\ Tops' = Tops /\ \A t : OnWindowPage(t)' <=> OnWindowPage(t)
           /\ \A m : (Moved(m)' <=> Moved(m)) /\ (KnowsReplies(m)' <=> KnowsReplies(m))
<1>1. Tops' = Tops
  BY DEF Tops
<1>2. \A t : OnWindowPage(t)' <=> OnWindowPage(t)
  BY <1>1 DEF OnWindowPage, UpTo, InWindow, InBoundSecond
<1>3. \A t : OnParentsPage(t)' <=> OnParentsPage(t)
  BY <1>1 DEF OnParentsPage
<1>4. \A p : ReplyInReach(p)' <=> ReplyInReach(p)
  BY <1>2, <1>3 DEF ReplyInReach, InReach, InWindow, InBoundSecond
<1>5. \A m : (Moved(m)' <=> Moved(m)) /\ (KnowsReplies(m)' <=> KnowsReplies(m))
  BY DEF Moved, KnowsReplies
<1> QED
  BY <1>1, <1>2, <1>4, <1>5

\* The page below the window: every thread in reach is found.
LEMMA FindParentsKeeps == ASSUME DigestInv, FindParents PROVE DigestInv'
<1> USE DEF DigestInv
<1>1. /\ digestAt = "paged" /\ digestAt' = "reading"
      /\ \/ earlier' = ParentsBefore /\ troubled' = troubled
         \/ earlier' = {} /\ troubled' \in BOOLEAN
      /\ ask.replies \/ inWindow = {} => earlier' = ParentsBefore \/ troubled'
      /\ toRead' = IF ask.replies THEN {m.ts : m \in {x \in inWindow \cup earlier' : Moved(x)}} ELSE {}
      /\ UNCHANGED <<wall, ask, askedAt, inWindow, fetchedReps>>
  BY DEF FindParents, DigestTypeOK
<1> DEFINE S == NewestOf({p \in Tops : p.ts <= WholeSec(ask.oldest)}, DigestPage)
<1>2. S \in SUBSET Tops
  BY DEF NewestOf
<1>3. /\ OnPage(S) \subseteq [ts : 1 .. MaxPosts, body : BOOLEAN, last : 0 .. MaxPosts]
      /\ \A m \in OnPage(S) : KnowsReplies(m)
      /\ \A p \in S : \E m \in OnPage(S) : m.ts = p.ts /\ m.body = p.body
  BY <1>2, OnPageIs
<1>4. ParentsBefore = {m \in OnPage(S) : /\ m.ts \notin {x.ts : x \in inWindow}
                                         /\ WholeSec(m.ts) + Lookback >= ask.oldest /\ Moved(m)}
  BY DEF ParentsBefore
<1> HIDE DEF S
<1>5. earlier' \subseteq [ts : 1 .. MaxPosts, body : BOOLEAN, last : 0 .. MaxPosts] /\ troubled' \in BOOLEAN
  BY <1>1, <1>3, <1>4 DEF DigestTypeOK
<1>6. DigestTypeOK'
  <2>1. toRead' \subseteq 1 .. MaxPosts
    BY <1>1, <1>5 DEF DigestTypeOK
  <2> QED
    BY <1>1, <1>5, <2>1 DEF DigestTypeOK
<1>7. WallOK' /\ AllRead'
  BY <1>1 DEF WallOK, AllRead
<1>8. WindowRead'
  BY <1>1, ReachStays DEF WindowRead
<1>9. ThreadsFound'
  <2> SUFFICES ASSUME ~ troubled', ask.replies \/ inWindow = {}, NEW p \in wall, ReplyInReach(p)
               PROVE  \E m \in inWindow \cup earlier' : m.ts = p.root /\ Moved(m)
    <3>1. \A p \in wall : (\E m \in inWindow \cup earlier' : m.ts = p.root /\ Moved(m)) =>
                             (ask.replies => p.root \in toRead')
      BY <1>1
    <3> QED
      BY <1>1, <3>1, ReachStays DEF ThreadsFound
  <2>1. earlier' = ParentsBefore
    BY <1>1
  <2>2. p.root # 0 /\ p.ts <= askedAt /\ p.root < p.ts /\ InReach(p.root)
    BY DEF ReplyInReach, WallOK
  <2>3. p.ts \in Nat /\ p.ts > 0 /\ ask.oldest \in Nat /\ askedAt \in Nat /\ p.root \in Nat
    BY DEF DigestTypeOK
  <2>s. WholeSec(p.ts) >= ask.oldest
    BY <2>3, WindowPassesFilter DEF ReplyInReach
  <2>4. ASSUME NEW m \in [ts : 1 .. MaxPosts, body : BOOLEAN, last : 0 .. MaxPosts],
               KnowsReplies(m), m.ts = p.root
        PROVE  Moved(m)
    <3>1. p.ts <= m.last /\ m.last \in Nat
      BY <2>2, <2>4 DEF KnowsReplies
    <3>2. WholeSec(p.ts) <= WholeSec(m.last) /\ WholeSec(p.ts) \in Nat /\ WholeSec(m.last) \in Nat
      BY <2>3, <3>1, WholeSecMonotone
    <3> QED
      BY <2>3, <2>s, <3>1, <3>2 DEF Moved
  <2>5. ASSUME NEW m \in inWindow, m.ts = p.root PROVE Moved(m)
    BY <1>1, <2>4, <2>5 DEF WindowRead, DigestTypeOK
  <2>6. CASE OnWindowPage(p.root)
    <3>1. PICK r \in Tops : r.ts = p.root
      BY <2>6 DEF OnWindowPage, NewestOf, UpTo
    <3>2. r.ts <= askedAt
      BY <2>2, <2>3, <3>1
    <3>3. PICK m \in inWindow : m.ts = r.ts
      BY <1>1, <2>6, <3>1, <3>2 DEF WindowRead
    <3> QED
      BY <2>5, <3>1, <3>3
  <2>7. CASE OnParentsPage(p.root)
    <3>1. WholeSec(p.root) + Lookback >= ask.oldest /\ \E r \in S : r.ts = p.root
      BY <2>7 DEF OnParentsPage, S
    <3>2. PICK m \in OnPage(S) : m.ts = p.root
      BY <1>3, <3>1
    <3>3. Moved(m)
      BY <1>3, <2>4, <3>2
    <3>4. WholeSec(m.ts) + Lookback >= ask.oldest
      BY <3>1, <3>2
    <3>5. m \in earlier' \/ \E x \in inWindow : x.ts = p.root
      BY <1>4, <2>1, <3>2, <3>3, <3>4
    <3> QED
      BY <2>5, <3>2, <3>3, <3>5
  <2> QED
    BY <2>2, <2>6, <2>7 DEF InReach
<1> QED
  BY <1>6, <1>7, <1>8, <1>9

\* The threads are read, and the digest is given.
LEMMA ReadingKeepsDigest ==
    ASSUME DigestInv, GiveDigest \/ \E t \in toRead : ReadReplies(t)
    PROVE  DigestInv'
<1> USE DEF DigestInv
<1>1. CASE GiveDigest
  <2>1. /\ digestAt = "reading" /\ toRead = {} /\ digestAt' = "given"
        /\ UNCHANGED <<wall, ask, askedAt, inWindow, earlier, toRead, fetchedReps, troubled>>
    BY <1>1 DEF GiveDigest
  <2>2. DigestTypeOK' /\ WallOK' /\ AllRead'
    BY <2>1 DEF DigestTypeOK, WallOK, AllRead
  <2>3. WindowRead' /\ ThreadsFound'
    BY <2>1, ReachStays DEF WindowRead, ThreadsFound
  <2> QED
    BY <2>2, <2>3
<1>2. CASE \E t \in toRead : ReadReplies(t)
  <2>1. PICK t \in toRead : ReadReplies(t)
    BY <1>2
  <2>2. /\ digestAt = "reading" /\ toRead' = toRead \ {t}
        /\ \/ /\ fetchedReps' = fetchedReps \cup {p \in RepliesIn(t) : WithinTS(p.ts, ask.oldest, ask.latest)}
              /\ troubled' = troubled
           \/ fetchedReps' = fetchedReps /\ troubled' = TRUE
        /\ UNCHANGED <<wall, digestAt, ask, askedAt, inWindow, earlier>>
    BY <2>1 DEF ReadReplies
  <2>3. fetchedReps' \subseteq wall /\ troubled' \in BOOLEAN
    BY <2>2 DEF RepliesIn, DigestTypeOK
  <2>4. DigestTypeOK' /\ WallOK' /\ AllRead'
    BY <2>2, <2>3 DEF DigestTypeOK, WallOK, AllRead
  <2>5. WindowRead'
    BY <2>2, ReachStays DEF WindowRead
  <2>6. ThreadsFound'
    <3> SUFFICES ASSUME ~ troubled', ask.replies \/ inWindow = {}, NEW p \in wall, ReplyInReach(p)
                 PROVE  /\ \E m \in inWindow \cup earlier : m.ts = p.root /\ Moved(m)
                        /\ ask.replies => p.root \in toRead' \/ p \in fetchedReps'
      BY <2>2, ReachStays DEF ThreadsFound
    <3>1. /\ ~ troubled
          /\ fetchedReps' = fetchedReps \cup {q \in RepliesIn(t) : WithinTS(q.ts, ask.oldest, ask.latest)}
      BY <2>2
    <3>2. /\ \E m \in inWindow \cup earlier : m.ts = p.root /\ Moved(m)
          /\ ask.replies => p.root \in toRead \/ p \in fetchedReps
      BY <2>2, <3>1 DEF ThreadsFound
    <3>3. p.root = t => p \in fetchedReps'
      <4>1. p.ts \in Nat
        BY DEF DigestTypeOK
      <4>2. WithinTS(p.ts, ask.oldest, ask.latest)
        BY <4>1, WindowPassesFilter DEF ReplyInReach
      <4> QED
        BY <3>1, <4>2 DEF RepliesIn
    <3> QED
      BY <2>2, <3>1, <3>2, <3>3
  <2> QED
    BY <2>4, <2>5, <2>6
<1> QED
  BY <1>1, <1>2

LEMMA DigestStep == DigestInv /\ [DigestNext]_digestVars => DigestInv'
<1> SUFFICES ASSUME DigestInv, [DigestNext]_digestVars PROVE DigestInv'
  OBVIOUS
<1>1. CASE UNCHANGED digestVars
  <2>1. DigestTypeOK' /\ WallOK' /\ AllRead'
    BY <1>1 DEF DigestInv, DigestTypeOK, WallOK, AllRead
  <2>2. WindowRead' /\ ThreadsFound'
    BY <1>1, ReachStays DEF DigestInv, WindowRead, ThreadsFound
  <2> QED
    BY <2>1, <2>2 DEF DigestInv
<1>2. CASE DigestNext
  BY <1>2, PostKeeps, WindowKeeps, FindParentsKeeps, ReadingKeepsDigest DEF DigestNext
<1> QED
  BY <1>1, <1>2

LEMMA DigestInvariant == DigestSpec => []DigestInv
BY DigestInvInit, DigestStep, PTL DEF DigestSpec

\* Every variable of a digest stays in its type (digest.go, history.go).
THEOREM DigestTypeCorrect == DigestSpec => []DigestTypeOK
<1>1. DigestInv => DigestTypeOK
  BY DEF DigestInv
<1> QED
  BY <1>1, DigestInvariant, PTL

\* For any page, look-back, window, length of a second and caps: what was posted
\* in the window before the call, not in its lower bound's own second, and is in
\* reach, is a line, a reply, a number in a count or a thread in the note, unless
\* a read failed and was skipped (digest.go, format.ParseTS, format.ChannelDigest).
THEOREM NoSilentGap == DigestSpec => []WindowIsCovered
<1>1. ASSUME DigestInv PROVE WindowIsCovered
  <2> SUFFICES ASSUME digestAt = "given", ~ troubled, NEW p \in wall,
                      p.ts <= askedAt, InWindow(p.ts), ~ InBoundSecond(p.ts)
               PROVE  /\ p.root = 0 /\ p.body /\ OnWindowPage(p.ts) =>
                           \E m \in LinesShown \cup LinesHidden : m.ts = p.ts
                      /\ p.root # 0 /\ InReach(p.root) /\ ask.replies =>
                           \/ p \in RepliesShown \cup MoreReplies
                           \/ \E m \in LinesHidden : m.ts = p.root
                      /\ p.root # 0 /\ InReach(p.root) /\ inWindow = {} /\ ~ ask.replies => MovedNote # {}
    BY DEF WindowIsCovered
  <2> USE <1>1 DEF DigestInv
  <2>1. ASSUME p.root = 0, p.body, OnWindowPage(p.ts)
        PROVE  \E m \in LinesShown \cup LinesHidden : m.ts = p.ts
    <3>1. PICK m \in inWindow : m.ts = p.ts /\ m.body = p.body
      BY <2>1 DEF WindowRead, Tops
    <3>2. m \in Lines
      BY <2>1, <3>1 DEF Lines
    <3> QED
      BY <3>1, <3>2 DEF LinesHidden
  <2>2. ASSUME p.root # 0, InReach(p.root), ask.replies, \A m \in LinesHidden : m.ts # p.root
        PROVE  p \in RepliesShown \cup MoreReplies
    <3>1. p \in fetchedReps
      BY <2>2 DEF ThreadsFound, ReplyInReach, AllRead
    <3>2. p.root \in ThreadsShown
      BY <2>2, <3>1 DEF ThreadsShown, Orphans, LinesHidden
    <3>3. p \in RepsOf(p.root)
      BY <3>1 DEF RepsOf
    <3> QED
      BY <3>2, <3>3 DEF MoreReplies
  <2>3. ASSUME p.root # 0, InReach(p.root), inWindow = {}, ~ ask.replies
        PROVE  MovedNote # {}
    <3>1. \E m \in inWindow \cup earlier : m.ts = p.root /\ Moved(m)
      BY <2>3 DEF ThreadsFound, ReplyInReach
    <3> QED
      BY <2>3, <3>1 DEF MovedNote
  <2> QED
    BY <2>1, <2>2, <2>3
<1> QED
  BY <1>1, DigestInvariant, PTL

-----------------------------------------------------------------------------
(***************************************************************************)
(* The search for a file. What must be weighed when the tool answers had   *)
(* to be weighed at every earlier step, so it was on the page when that    *)
(* was read, and its thread was among those that are opened.               *)
(***************************************************************************)
NotesOK ==
    /\ IsFiniteSet(notes)
    /\ \A m \in notes : m.ts > 0 /\ m.ts <= Cardinality(notes) /\ (m.root # 0 => m.root < m.ts)
    /\ \A m, x \in notes : m.ts = x.ts => m = x

\* What has been found carries a file that is asked for.
MatchesOK ==
    /\ scanStep \in {"idle", "channel"} => matches = {}
    /\ \A m \in matches : Accepted(m)

\* Between the reads, a message to be weighed is found or its thread is still to
\* be opened; for the latest file alone, something as new is found.
WeighedSoFar ==
    scanStep = "threads" => \A m \in notes : Weighed(m) =>
        /\ Mode = "recent" => m \in matches \/ (m.root # 0 /\ m.root \in roots)
        /\ Mode = "latest" => m.root # 0 /\ (m.root \in roots \/ \E x \in matches : x.ts >= m.ts)

FilesFoundInv == SearchTypeOK /\ NotesOK /\ MatchesOK /\ WeighedSoFar /\ NothingPassedOver

USE FileSearchAssumption DEF searchVars

\* The same messages and the same call: the same is asked for and to be weighed.
LEMMA SameQuestion ==
    ASSUME UNCHANGED <<notes, request>>
    PROVE  /\ Mode' = Mode
           /\ \A m : (Accepted(m)' <=> Accepted(m)) /\ WantedIn(m)' = WantedIn(m)
           /\ UNCHANGED <<before, unopened>> => \A m : Weighed(m)' <=> Weighed(m)
<1>1. Mode' = Mode /\ \A m : (Accepted(m)' <=> Accepted(m)) /\ WantedIn(m)' = WantedIn(m)
  BY DEF Mode, Accepted, Acceptable, WantedIn, Wanted
<1>2. ASSUME UNCHANGED <<before, unopened>> PROVE \A m : Weighed(m)' <=> Weighed(m)
  BY <1>1, <1>2 DEF Weighed, StillOnPage, TopNotes
<1> QED
  BY <1>1, <1>2

\* Messages of the conversation are finitely many, with timestamps of their own.
LEMMA NotesTimed ==
    ASSUME SearchTypeOK, NotesOK, NEW ms \in SUBSET notes
    PROVE  /\ Timed(ms) /\ \A x, y \in ms : x.ts = y.ts => x = y
           /\ \A m \in ms : m.ts \in Nat /\ m.files \in Seq(Attachment)
<1>1. IsFiniteSet(ms)
  BY FS_Subset DEF NotesOK
<1> QED
  BY <1>1 DEF Timed, NotesOK, SearchTypeOK, NoteMessage

\* The newest of some messages is as new as each of them.
LEMMA NewestIsNewest ==
    ASSUME SearchTypeOK, NotesOK, NEW ms \in SUBSET notes, NEW m \in ms
    PROVE  /\ NewestOf(ms, 1) # {}
           /\ \A x \in NewestOf(ms, 1) : x \in ms /\ x.ts >= m.ts
<1>1. Timed(ms) /\ \A x \in ms : x.ts \in Nat
  BY NotesTimed
<1>2. NewestOf(ms, 1) # {}
  BY <1>1, NewestOfNonempty
<1>3. ASSUME NEW x \in NewestOf(ms, 1) PROVE x \in ms /\ x.ts >= m.ts
  <2>1. x \in ms /\ x.ts \in Nat /\ m.ts \in Nat
    BY <1>1 DEF NewestOf
  <2>2. IsFiniteSet({y \in ms : y.ts > x.ts}) /\ Cardinality({y \in ms : y.ts > x.ts}) < 1
    BY <1>1, FS_Subset DEF Timed, NewestOf
  <2>3. {y \in ms : y.ts > x.ts} = {}
    BY <2>2, FS_EmptySet, FS_CardinalityType
  <2> QED
    BY <2>1, <2>3
<1> QED
  BY <1>2, <1>3

\* What FilesOf holds: the wanted files of those messages and no other.
LEMMA WhatFilesOfHolds ==
    ASSUME NEW ms
    PROVE  /\ \A c \in FilesOf(ms) : /\ c.note \in ms /\ c.nth \in WantedIn(c.note)
                                     /\ c = [note |-> c.note, nth |-> c.nth]
           /\ \A m \in ms : \A i \in WantedIn(m) : [note |-> m, nth |-> i] \in FilesOf(ms)
<1>1. ASSUME NEW c \in FilesOf(ms)
      PROVE  c.note \in ms /\ c.nth \in WantedIn(c.note) /\ c = [note |-> c.note, nth |-> c.nth]
  <2>1. PICK m \in ms : \E i \in WantedIn(m) : c = [note |-> m, nth |-> i]
    BY DEF FilesOf
  <2>2. PICK i \in WantedIn(m) : c = [note |-> m, nth |-> i]
    BY <2>1
  <2> QED
    BY <2>2
<1>2. \A m \in ms : \A i \in WantedIn(m) : [note |-> m, nth |-> i] \in FilesOf(ms)
  BY DEF FilesOf
<1> QED
  BY <1>1, <1>2

\* The wanted files of some messages are finitely many.
LEMMA FilesFinite ==
    ASSUME SearchTypeOK, NotesOK, NEW ms \in SUBSET notes
    PROVE  IsFiniteSet(FilesOf(ms))
<1> DEFINE Of(m) == {[note |-> m, nth |-> i] : i \in WantedIn(m)}
           All == {Of(m) : m \in ms}
<1>1. ASSUME NEW m \in ms PROVE IsFiniteSet(Of(m))
  <2> DEFINE f == [i \in WantedIn(m) |-> [note |-> m, nth |-> i]]
  <2>1. m.files \in Seq(Attachment)
    BY NotesTimed
  <2>2. IsFiniteSet(WantedIn(m))
    <3>1. Len(m.files) \in Int /\ 1 \in Int /\ WantedIn(m) \in SUBSET (1 .. Len(m.files))
      BY <2>1 DEF WantedIn
    <3>2. IsFiniteSet(1 .. Len(m.files))
      BY <3>1, FS_Interval
    <3> QED
      BY <3>1, <3>2, FS_Subset
  <2>3. f \in Surjection(WantedIn(m), Of(m))
    BY Fun_IsSurj
  <2> QED
    BY <2>2, <2>3, FS_Surjection
<1>2. IsFiniteSet(All)
  <2> DEFINE f == [m \in ms |-> Of(m)]
  <2>1. f \in Surjection(ms, All)
    <3> HIDE DEF Of
    <3> QED
      BY Fun_IsSurj
  <2> QED
    BY <2>1, NotesTimed, FS_Surjection DEF Timed
<1>3. \A T \in All : IsFiniteSet(T)
  BY <1>1
<1>4. IsFiniteSet(UNION All)
  <2> HIDE DEF All
  <2> QED
    BY <1>2, <1>3, FS_UNION
<1> QED
  BY <1>4 DEF FilesOf

\* Taking the first n files passes over none that comes before one it takes.
LEMMA FirstFilesPassNone ==
    ASSUME SearchTypeOK, NotesOK, NEW ms \in SUBSET notes, NEW n \in Nat,
           NEW c \in FilesOf(ms), c \notin FirstFiles(FilesOf(ms), n)
    PROVE  /\ Cardinality(FirstFiles(FilesOf(ms), n)) = n
           /\ \A d \in FirstFiles(FilesOf(ms), n) : ComesBefore(d, c)
<1> DEFINE S == FilesOf(ms)
           B == [e \in S |-> {d \in S : ComesBefore(d, e)}]
<1>1. \A d \in S : d.note \in ms /\ d.nth \in Nat /\ d = [note |-> d.note, nth |-> d.nth]
  <2>1. \A m \in ms : WantedIn(m) \subseteq Nat
    BY NotesTimed DEF WantedIn
  <2> QED
    BY <2>1, WhatFilesOfHolds
<1>2. /\ \A d \in S : d.note.ts \in Nat
      /\ \A d, e \in S : d.note.ts = e.note.ts => d.note = e.note
  <2>1. /\ \A x, y \in ms : x.ts = y.ts => x = y
        /\ \A x \in ms : x.ts \in Nat
    BY NotesTimed
  <2> HIDE DEF S
  <2> QED
    BY <1>1, <2>1
<1>3. IsFiniteSet(S)
  BY FilesFinite
<1> HIDE DEF S
<1>4. B \in [S -> SUBSET S] /\ \A e \in S : e \notin B[e]
  BY <1>1, <1>2 DEF ComesBefore
<1>5. \A d, e \in S : e \in B[d] => B[e] \subseteq B[d]
  <2> SUFFICES ASSUME NEW d \in S, NEW e \in B[d], NEW x \in B[e] PROVE x \in B[d]
    OBVIOUS
  <2>1. e \in S /\ x \in S /\ ComesBefore(x, e) /\ ComesBefore(e, d)
    OBVIOUS
  <2>2. \A y \in {d, e, x} : y.note.ts \in Nat /\ y.nth \in Nat
    BY <1>1, <1>2, <2>1
  <2>3. ComesBefore(x, d)
    BY <2>1, <2>2 DEF ComesBefore
  <2> QED
    BY <2>1, <2>3
<1>6. \A d, e \in S : d = e \/ d \in B[e] \/ e \in B[d]
  <2> SUFFICES ASSUME NEW d \in S, NEW e \in S, d \notin B[e], e \notin B[d] PROVE d = e
    OBVIOUS
  <2>1. d.note.ts = e.note.ts /\ d.nth = e.nth
    BY <1>1, <1>2 DEF ComesBefore
  <2> QED
    BY <1>1, <1>2, <2>1
<1>7. FirstFiles(S, n) = {d \in S : Cardinality(B[d]) < n}
  BY DEF FirstFiles
<1>8. c \in S /\ c \notin FirstFiles(S, n)
  BY DEF S
<1> HIDE DEF B
<1>9. /\ Cardinality(FirstFiles(S, n)) = n
      /\ \A d \in FirstFiles(S, n) : d \in B[c]
  <2>1. /\ \A e \in S : e \notin B[e]
        /\ \A d, e \in S : e \in B[d] => B[e] \subseteq B[d]
        /\ \A d, e \in S : d = e \/ d \in B[e] \/ e \in B[d]
    BY <1>4, <1>5, <1>6
  <2>2. B \in [S -> SUBSET S] /\ c \in S /\ ~ (Cardinality(B[c]) < n)
    BY <1>4, <1>7, <1>8
  <2>3. LET First == {d \in S : Cardinality(B[d]) < n}
        IN  Cardinality(First) = n /\ \A d \in First : d \in B[c]
    BY <1>3, <2>1, <2>2, FirstInOrder
  <2> QED
    BY <1>7, <2>3
<1> QED
  BY <1>8, <1>9 DEF S, B

\* The first state satisfies the invariant.
LEMMA FilesFoundInit == SearchInit => FilesFoundInv
<1> SUFFICES ASSUME SearchInit PROVE FilesFoundInv
  OBVIOUS
<1>1. SearchTypeOK
  BY DEF SearchInit, SearchTypeOK
<1>2. NotesOK
  BY FS_EmptySet DEF SearchInit, NotesOK
<1> QED
  BY <1>1, <1>2 DEF SearchInit, FilesFoundInv, MatchesOK, WeighedSoFar, NothingPassedOver

\* A message is written: what must be weighed then had to be weighed before.
LEMMA NoteKeeps ==
    ASSUME FilesFoundInv, NEW k \in NoteKind, WriteNote(k)
    PROVE  FilesFoundInv'
<1> USE DEF FilesFoundInv
<1> DEFINE n == Cardinality(notes)
<1>1. n \in Nat /\ \A m \in notes : m \in NoteMessage /\ m.ts \in Nat /\ m.ts <= n
  BY FS_CardinalityType DEF NotesOK, SearchTypeOK, NoteMessage
<1>2. PICK root \in {0} \cup {m.ts : m \in TopNotes} :
        notes' = notes \cup {[ts |-> n + 1, root |-> root, by |-> k.by, files |-> k.files]}
  BY DEF WriteNote
<1> DEFINE new == [ts |-> n + 1, root |-> root, by |-> k.by, files |-> k.files]
<1>3. root \in Nat /\ new \in NoteMessage /\ new \notin notes /\ new.ts = n + 1 /\ new.root = root
  <2>1. k.by \in Author /\ k.files \in Seq(Attachment)
    OBVIOUS
  <2> QED
    BY <1>1, <2>1 DEF TopNotes, NoteMessage
<1>4. scanStep # "done" /\ UNCHANGED <<request, scanStep, fromTop, roots, matches, result, before, unopened>>
  BY DEF WriteNote
<1>5. Cardinality(notes') = n + 1 /\ IsFiniteSet(notes')
  BY <1>2, <1>3, FS_AddElement DEF NotesOK
<1> HIDE DEF n, new
<1>6. \A m \in notes' : m = new \/ m \in notes
  BY <1>2 DEF new
<1>7. SearchTypeOK'
  <2>1. {m.ts : m \in TopNotes} \subseteq {m.ts : m \in TopNotes'}
    BY <1>2 DEF TopNotes
  <2> QED
    BY <1>2, <1>3, <1>4, <1>6, <2>1 DEF SearchTypeOK
<1>8. NotesOK'
  <2>1. root # 0 => root < n + 1
    BY <1>1 DEF TopNotes
  <2>2. \A m \in notes' : /\ m.ts > 0 /\ m.ts <= n + 1 /\ (m.root # 0 => m.root < m.ts)
                         /\ (m \in notes => m.ts < n + 1)
    BY <1>1, <1>3, <1>6, <2>1 DEF NotesOK
  <2>3. ASSUME NEW m \in notes', NEW x \in notes', m.ts = x.ts PROVE m = x
    <3>1. m \in notes /\ x \in notes => m = x
      BY <2>3 DEF NotesOK
    <3>2. (m \in notes => m.ts < n + 1) /\ (x \in notes => x.ts < n + 1)
      BY <2>2
    <3> QED
      BY <1>1, <1>3, <1>6, <2>3, <3>1, <3>2
  <2> QED
    BY <1>5, <2>2, <2>3 DEF NotesOK
<1>9. TopNotes \in SUBSET TopNotes' /\ Timed(TopNotes') /\ \A m \in notes : m \in TopNotes' => m \in TopNotes
  <2>1. TopNotes' \in SUBSET notes'
    BY DEF TopNotes
  <2>2. IsFiniteSet(TopNotes')
    BY <1>5, <2>1, FS_Subset
  <2> QED
    BY <1>2, <1>7, <2>1, <2>2 DEF TopNotes, Timed, SearchTypeOK, NoteMessage
<1>10. \A m \in notes : m \in StillOnPage' => m \in StillOnPage
  <2> SUFFICES ASSUME NEW m \in notes, m \in StillOnPage' PROVE m \in StillOnPage
    OBVIOUS
  <2>1. m \in NewestOf(TopNotes', FilePage) /\ m \in TopNotes
    BY <1>9 DEF StillOnPage, NewestOf
  <2> QED
    BY <1>9, <2>1, NewestOfFewer DEF StillOnPage
<1>11. ASSUME NEW m \in notes', Weighed(m)' PROVE m \in notes /\ Weighed(m)
  <2>1. m \in notes /\ m \in before /\ Accepted(m)
    BY <1>4, <1>11 DEF Weighed, SearchTypeOK, Accepted, Acceptable
  <2>2. CASE m.root = 0
    BY <1>4, <1>10, <1>11, <2>1, <2>2 DEF Weighed
  <2>3. CASE m.root # 0
    <3> DEFINE T == {p \in StillOnPage' : \E y \in notes' : y.root = p.ts}
               S == {p \in StillOnPage : \E y \in notes : y.root = p.ts}
    <3>1. m.root \in {x.ts : x \in NewestOf(T, ThreadScan)} /\ m.root \notin unopened
      BY <1>4, <1>11, <2>3 DEF Weighed, StillOnPage
    <3>2. PICK x \in NewestOf(T, ThreadScan) : x.ts = m.root
      BY <3>1
    <3>3. x \in StillOnPage' /\ x \in T /\ x \in notes' /\ x \in TopNotes'
      BY DEF NewestOf, StillOnPage, TopNotes
    <3>4. x \in notes
      <4>1. x.ts < m.ts /\ m.ts <= n /\ x.ts \in Nat /\ m.ts \in Nat
        BY <1>1, <1>7, <2>1, <2>3, <3>2, <3>3 DEF NotesOK, SearchTypeOK, NoteMessage
      <4> QED
        BY <1>1, <1>3, <1>6, <3>3, <4>1
    <3>5. x \in S
      BY <1>10, <2>1, <3>2, <3>3, <3>4
    <3>6. ASSUME NEW y \in S, y.ts > x.ts PROVE y \in T
      <4>1. y \in TopNotes' /\ y \in notes
        BY <1>9, <3>6 DEF StillOnPage, NewestOf, TopNotes
      <4>2. x.ts \in Nat /\ y.ts \in Nat
        BY <1>1, <3>4, <4>1
      <4>3. y \in NewestOf(TopNotes', FilePage)
        <5>1. x \in NewestOf(TopNotes', FilePage)
          BY <3>3 DEF StillOnPage
        <5>2. y \notin NewestOf(TopNotes', FilePage) => x.ts > y.ts
          BY <1>9, <4>1, <5>1, LeftOutIsOlder
        <5> QED
          BY <3>6, <4>2, <5>2
      <4> QED
        BY <1>2, <4>3 DEF StillOnPage
    <3> DEFINE A == {y \in S : y.ts > x.ts}
               B == {y \in T : y.ts > x.ts}
    <3>7. A \in SUBSET B
      BY <3>6
    <3>8. IsFiniteSet(B) /\ IsFiniteSet(A)
      <4>1. B \in SUBSET notes' /\ A \in SUBSET notes
        BY DEF StillOnPage, NewestOf, TopNotes
      <4> QED
        BY <1>5, <4>1, FS_Subset DEF NotesOK
    <3>9. Cardinality(A) <= Cardinality(B) /\ Cardinality(A) \in Nat /\ Cardinality(B) \in Nat
      BY <3>7, <3>8, FS_Subset, FS_CardinalityType
    <3>10. Cardinality(B) < ThreadScan
      BY DEF NewestOf
    <3>11. Cardinality(A) < ThreadScan
      <4> HIDE DEF A, B
      <4> QED
        BY <3>9, <3>10
    <3>12. x \in NewestOf(S, ThreadScan)
      BY <3>5, <3>11 DEF NewestOf
    <3> QED
      BY <2>1, <2>3, <3>1, <3>2, <3>12 DEF Weighed
  <2> QED
    BY <2>2, <2>3
<1>12. MatchesOK' /\ WeighedSoFar' /\ NothingPassedOver'
  <2>1. Mode' = Mode /\ \A m : Accepted(m)' <=> Accepted(m)
    BY <1>4 DEF Mode, Accepted, Acceptable
  <2> QED
    BY <1>4, <1>11, <2>1 DEF MatchesOK, WeighedSoFar, NothingPassedOver
<1> QED
  BY <1>7, <1>8, <1>12

\* The call, and the read of one message.
LEMMA AskingKeeps ==
    ASSUME FilesFoundInv, ReadAt \/ \E r \in FileAsk : AskForFiles(r)
    PROVE  FilesFoundInv'
<1> USE DEF FilesFoundInv
<1>1. CASE \E r \in FileAsk : AskForFiles(r)
  <2>1. /\ scanStep = "idle" /\ scanStep' = "channel" /\ request' \in FileAsk /\ before' = notes
        /\ UNCHANGED <<notes, fromTop, roots, matches, result, unopened>>
    BY <1>1 DEF AskForFiles
  <2>2. SearchTypeOK' /\ NotesOK' /\ MatchesOK'
    BY <2>1 DEF SearchTypeOK, NotesOK, MatchesOK, TopNotes
  <2> QED
    BY <2>1, <2>2 DEF WeighedSoFar, NothingPassedOver
<1>2. CASE ReadAt
  <2>1. /\ Mode = "at" /\ scanStep = "channel" /\ scanStep' = "done"
        /\ UNCHANGED <<notes, request, fromTop, roots, matches, before, unopened>>
    BY <1>2 DEF ReadAt, Done
  <2>2. \A c \in result' : c.note \in notes /\ c.nth \in DOMAIN c.note.files
    <3>1. PICK own \in MessageAt(request.at) :
            result' = FilesOf(IF \E m \in own : Accepted(m) THEN own
                      ELSE NewestOf({x \in UNION {Thread(RootOf(m)) : m \in own} : Accepted(x)}, 1))
      BY <1>2 DEF ReadAt, Done
    <3>2. own \subseteq notes
      BY DEF MessageAt
    <3>3. NewestOf({x \in UNION {Thread(RootOf(m)) : m \in own} : Accepted(x)}, 1) \subseteq notes
      BY DEF Thread, NewestOf
    <3>4. PICK ms \in SUBSET notes : result' = FilesOf(ms)
      BY <3>1, <3>2, <3>3
    <3>5. \A c \in FilesOf(ms) : c.note \in ms /\ c.nth \in WantedIn(c.note)
      BY WhatFilesOfHolds
    <3> QED
      BY <3>4, <3>5 DEF WantedIn
  <2>3. SearchTypeOK' /\ NotesOK'
    BY <2>1, <2>2 DEF SearchTypeOK, NotesOK, TopNotes
  <2>4. Mode' = "at" /\ MatchesOK'
    BY <2>1, SameQuestion DEF MatchesOK
  <2> QED
    BY <2>1, <2>3, <2>4 DEF WeighedSoFar, NothingPassedOver, PassesNoneOver, LatestOfItsKind
<1> QED
  BY <1>1, <1>2

\* The channel's page, for several documents.
LEMMA RecentPageKeeps == ASSUME FilesFoundInv, ReadRecent PROVE FilesFoundInv'
<1> USE DEF FilesFoundInv
<1> DEFINE page == NewestOf(TopNotes, FilePage)
<1>1. /\ scanStep = "channel" /\ Mode = "recent" /\ scanStep' = "threads"
      /\ fromTop' = page /\ roots' = ThreadRoots(page) /\ matches' = {m \in page : Accepted(m)}
      /\ UNCHANGED <<notes, request, result, before, unopened>>
  BY DEF ReadRecent
<1>2. page \subseteq TopNotes /\ TopNotes \subseteq notes /\ page = StillOnPage
  BY DEF NewestOf, TopNotes, StillOnPage
<1>3. ThreadRoots(page) \subseteq {m.ts : m \in TopNotes}
  BY <1>2 DEF ThreadRoots, NewestOf
<1>4. SearchTypeOK' /\ NotesOK'
  <2>1. TopNotes' = TopNotes
    BY <1>1 DEF TopNotes
  <2> QED
    BY <1>1, <1>2, <1>3, <2>1 DEF SearchTypeOK, NotesOK
<1>5. Mode' = "recent" /\ MatchesOK' /\ \A m \in notes : Weighed(m)' <=> Weighed(m)
  BY <1>1, SameQuestion DEF MatchesOK
<1>6. \A m \in notes : Weighed(m) => m \in matches' \/ (m.root # 0 /\ m.root \in roots')
  BY <1>1, <1>2 DEF Weighed, ThreadRoots
<1> QED
  BY <1>1, <1>4, <1>5, <1>6 DEF WeighedSoFar, NothingPassedOver

\* The channel's page, for the latest file alone.
LEMMA LatestPageKeeps == ASSUME FilesFoundInv, ReadLatest PROVE FilesFoundInv'
<1> USE DEF FilesFoundInv
<1> DEFINE page == NewestOf(TopNotes, FilePage)
           own == {m \in page : Accepted(m)}
<1>1. /\ scanStep = "channel" /\ Mode = "latest" /\ fromTop' = page
      /\ UNCHANGED <<notes, request, matches, before, unopened>>
      /\ \/ own # {} /\ scanStep' = "done" /\ result' = FilesOf(NewestOf(own, 1)) /\ roots' = roots
         \/ own = {} /\ roots' = ThreadRoots(page) /\ scanStep' = "threads" /\ result' = result
  BY DEF ReadLatest, Done
<1>2. page \subseteq TopNotes /\ TopNotes \subseteq notes /\ page = StillOnPage
  BY DEF NewestOf, TopNotes, StillOnPage
<1>3. ThreadRoots(page) \subseteq {m.ts : m \in TopNotes}
  BY <1>2 DEF ThreadRoots, NewestOf
<1>4. own \in SUBSET notes
  BY <1>2
<1>5. \A c \in FilesOf(NewestOf(own, 1)) :
        c.note \in NewestOf(own, 1) /\ c.note \in own /\ c.nth \in DOMAIN c.note.files
  <2>1. \A c \in FilesOf(NewestOf(own, 1)) : c.note \in NewestOf(own, 1) /\ c.nth \in WantedIn(c.note)
    BY WhatFilesOfHolds
  <2> QED
    BY <2>1 DEF WantedIn, NewestOf
<1>6. SearchTypeOK' /\ NotesOK'
  <2>1. TopNotes' = TopNotes
    BY <1>1 DEF TopNotes
  <2>2. /\ fromTop' \cup matches' \cup before' \subseteq notes'
        /\ \A c \in result' : c.note \in notes' /\ c.nth \in DOMAIN c.note.files
        /\ roots' \cup unopened' \subseteq {m.ts : m \in TopNotes}
    BY <1>1, <1>2, <1>3, <1>4, <1>5 DEF SearchTypeOK
  <2> QED
    BY <1>1, <2>1, <2>2 DEF SearchTypeOK, NotesOK
<1>7. Mode' = "latest" /\ MatchesOK' /\ \A m \in notes : Weighed(m)' <=> Weighed(m)
  <2>1. matches = {} /\ matches' = {}
    BY <1>1 DEF MatchesOK
  <2> QED
    BY <1>1, <2>1, SameQuestion DEF MatchesOK
<1>8. \A m \in notes : Weighed(m) /\ m.root = 0 => m \in own
  BY <1>2 DEF Weighed
<1>9. CASE own = {}
  <2>1. \A m \in notes : Weighed(m) => m.root # 0 /\ m.root \in roots'
    BY <1>1, <1>2, <1>8, <1>9 DEF Weighed, ThreadRoots
  <2> QED
    BY <1>1, <1>6, <1>7, <1>9, <2>1 DEF WeighedSoFar, NothingPassedOver
<1>10. CASE own # {}
  <2>1. /\ NewestOf(own, 1) # {}
        /\ \A x \in NewestOf(own, 1) : \A m \in own : x.ts >= m.ts
    <3> HIDE DEF own
    <3> QED
      BY <1>4, <1>10, NewestIsNewest
  <2>2. result' # {} /\ \A c \in result' : c.note \in own /\ c.note.root = 0
    <3>1. PICK x \in NewestOf(own, 1) : TRUE
      BY <2>1
    <3>2. Accepted(x)
      BY DEF NewestOf
    <3>3. WantedIn(x) # {}
      BY <1>1, <3>2 DEF Accepted, WantedIn, Wanted, Mode
    <3>4. FilesOf(NewestOf(own, 1)) # {}
      BY <3>1, <3>3, WhatFilesOfHolds
    <3> QED
      BY <1>1, <1>2, <1>5, <1>10, <3>4 DEF TopNotes
  <2>3. ASSUME NEW m \in notes, Weighed(m), NEW c \in result', c.note.ts < m.ts
        PROVE  m.root # 0
    <3>1. \A x \in notes : x.ts \in Nat
      BY DEF SearchTypeOK, NoteMessage
    <3>2. \A x \in own : c.note.ts >= x.ts
      BY <1>1, <1>5, <1>10, <2>1
    <3>3. c.note.ts \in Nat /\ m.ts \in Nat
      BY <1>4, <2>2, <3>1
    <3>4. m \notin own
      BY <2>3, <3>2, <3>3
    <3> QED
      BY <1>8, <2>3, <3>4
  <2>4. LatestOfItsKind' /\ PassesNoneOver'
    BY <1>1, <1>7, <2>2, <2>3 DEF LatestOfItsKind, PassesNoneOver
  <2> QED
    BY <1>1, <1>6, <1>7, <1>10, <2>4 DEF WeighedSoFar, NothingPassedOver
<1> QED
  BY <1>9, <1>10

\* The threads.
LEMMA ThreadsKeep ==
    ASSUME FilesFoundInv, NEW r \in roots, OpenThread(r) \/ OpenThreadFails(r)
    PROVE  FilesFoundInv'
<1> USE DEF FilesFoundInv
<1>1. /\ scanStep = "threads" /\ roots' = roots \ {r}
      /\ \/ matches' = matches \cup FoundIn(r) /\ unopened' = unopened
         \/ matches' = matches /\ unopened' = unopened \cup {r}
      /\ UNCHANGED <<notes, request, scanStep, fromTop, result, before>>
  BY DEF OpenThread, OpenThreadFails
<1>2. FoundIn(r) \subseteq notes
  BY DEF FoundIn, NewestOf, Thread
<1>3. SearchTypeOK' /\ NotesOK'
  <2>1. TopNotes' = TopNotes
    BY <1>1 DEF TopNotes
  <2> QED
    BY <1>1, <1>2, <2>1 DEF SearchTypeOK, NotesOK
<1>4. ASSUME NEW m \in notes, Weighed(m)'
      PROVE  /\ Weighed(m) /\ Accepted(m)
             /\ m.root = r => /\ matches' = matches \cup FoundIn(r) /\ m \in {x \in Thread(r) : Accepted(x)}
  <2>1. Weighed(m) /\ Accepted(m) /\ (m.root # 0 => m.root \notin unopened')
    BY <1>1, <1>4, SameQuestion DEF Weighed, StillOnPage, TopNotes
  <2>2. r # 0
    BY DEF SearchTypeOK, TopNotes, NotesOK, NoteMessage
  <2> QED
    BY <1>1, <2>1, <2>2 DEF Thread
<1>5. WeighedSoFar'
  <2> SUFFICES ASSUME NEW m \in notes, Weighed(m)'
               PROVE  /\ Mode = "recent" => m \in matches' \/ (m.root # 0 /\ m.root \in roots')
                      /\ Mode = "latest" =>
                           m.root # 0 /\ (m.root \in roots' \/ \E x \in matches' : x.ts >= m.ts)
    BY <1>1, SameQuestion DEF WeighedSoFar
  <2>1. /\ Mode = "recent" => m \in matches \/ (m.root # 0 /\ m.root \in roots)
        /\ Mode = "latest" =>
             m.root # 0 /\ (m.root \in roots \/ \E x \in matches : x.ts >= m.ts)
    BY <1>1, <1>4 DEF WeighedSoFar
  <2>2. CASE m.root # r
    BY <1>1, <2>1, <2>2
  <2>3. CASE m.root = r
    <3> DEFINE all == {x \in Thread(r) : Accepted(x)}
    <3>1. m \in all /\ matches' = matches \cup FoundIn(r)
      BY <1>4, <2>3
    <3>2. Mode = "recent" => m \in FoundIn(r)
      BY <3>1 DEF FoundIn
    <3>3. \E y \in NewestOf(all, 1) : y.ts >= m.ts
      <4>1. Timed(all)
        <5>1. all \in SUBSET notes
          BY DEF Thread
        <5>2. IsFiniteSet(all)
          BY <5>1, FS_Subset DEF NotesOK
        <5> QED
          BY <5>1, <5>2 DEF Timed, SearchTypeOK, NoteMessage
      <4>2. NewestOf(all, 1) # {}
        BY <3>1, <4>1, NewestOfNonempty
      <4>3. PICK x \in NewestOf(all, 1) : TRUE
        BY <4>2
      <4>4. x.ts \in Nat /\ m.ts \in Nat
        BY <3>1, <4>1 DEF Timed, NewestOf
      <4> HIDE DEF all
      <4>5. CASE m \in NewestOf(all, 1)
        <5>1. m.ts >= m.ts
          BY <4>4
        <5> QED
          BY <4>5, <5>1
      <4>6. CASE m \notin NewestOf(all, 1)
        <5>1. x.ts > m.ts
          BY <3>1, <4>1, <4>6, LeftOutIsOlder
        <5>2. x.ts >= m.ts
          BY <4>4, <5>1
        <5> QED
          BY <4>3, <5>2
      <4> QED
        BY <4>5, <4>6
    <3>4. Mode = "latest" => \E x \in FoundIn(r) : x.ts >= m.ts
      BY <3>3 DEF FoundIn
    <3> QED
      BY <2>1, <3>1, <3>2, <3>4
  <2> QED
    BY <2>2, <2>3
<1>6. MatchesOK'
  <2>1. \A m \in FoundIn(r) : Accepted(m)
    BY DEF FoundIn, NewestOf
  <2> QED
    BY <1>1, <2>1, SameQuestion DEF MatchesOK
<1> QED
  BY <1>1, <1>3, <1>5, <1>6 DEF NothingPassedOver

\* The answer.
LEMMA ThreadsDoneKeeps == ASSUME FilesFoundInv, ThreadsDone PROVE FilesFoundInv'
<1> USE DEF FilesFoundInv
<1> DEFINE kept == NewestOf(matches, ScanLimit)
<1>1. /\ scanStep = "threads" /\ scanStep' = "done" /\ roots = {}
      /\ result' = IF Mode = "latest" THEN FilesOf(NewestOf(matches, 1)) ELSE Selected
      /\ UNCHANGED <<notes, request, fromTop, roots, matches, before, unopened>>
  BY DEF ThreadsDone, Done
<1>2. matches \in SUBSET notes /\ kept \in SUBSET notes /\ request.limit \in Nat
  BY DEF SearchTypeOK, Asks, NewestOf
<1>3. \A c \in result' : c.note \in notes /\ c.nth \in DOMAIN c.note.files
  <2>1. Selected \subseteq FilesOf(kept)
    BY DEF Selected, FirstFiles
  <2>2. \A ms \in SUBSET notes : \A c \in FilesOf(ms) : c.note \in notes /\ c.nth \in DOMAIN c.note.files
    <3>1. \A ms \in SUBSET notes : \A c \in FilesOf(ms) : c.note \in ms /\ c.nth \in WantedIn(c.note)
      BY WhatFilesOfHolds
    <3> QED
      BY <3>1 DEF WantedIn
  <2>3. NewestOf(matches, 1) \in SUBSET notes
    BY <1>2 DEF NewestOf
  <2> QED
    BY <1>1, <1>2, <2>1, <2>2, <2>3
<1>4. SearchTypeOK' /\ NotesOK'
  <2>1. TopNotes' = TopNotes
    BY <1>1 DEF TopNotes
  <2> QED
    BY <1>1, <1>3, <2>1 DEF SearchTypeOK, NotesOK
<1>5. Mode' = Mode /\ MatchesOK' /\ \A m \in notes : (Weighed(m)' <=> Weighed(m)) /\ WantedIn(m)' = WantedIn(m)
  BY <1>1, SameQuestion DEF MatchesOK
<1>6. PassesNoneOver'
  <2> SUFFICES ASSUME Mode = "recent", NEW m \in notes, Weighed(m), NEW i \in WantedIn(m),
                      ~ BeyondTheScan(m), [note |-> m, nth |-> i] \notin result'
               PROVE  /\ ~ request.list /\ Cardinality(result') = request.limit
                      /\ \A c \in result' : ComesBefore(c, [note |-> m, nth |-> i])
    BY <1>1, <1>5 DEF PassesNoneOver, BeyondTheScan
  <2> DEFINE c == [note |-> m, nth |-> i]
  <2>1. m \in matches
    BY <1>1 DEF WeighedSoFar
  <2>2. m \in kept
    <3>1. IsFiniteSet({x \in matches : x.ts > m.ts})
      BY <1>2, NotesTimed, FS_Subset DEF Timed
    <3>2. Cardinality({x \in matches : x.ts > m.ts}) \in Nat
      BY <3>1, FS_CardinalityType
    <3>3. Cardinality({x \in matches : x.ts > m.ts}) < ScanLimit
      BY <3>2 DEF BeyondTheScan
    <3> QED
      BY <2>1, <3>3 DEF NewestOf
  <2>3. c \in FilesOf(kept)
    BY <2>2 DEF FilesOf
  <2>4. result' = Selected /\ ~ request.list /\ Selected = FirstFiles(FilesOf(kept), request.limit)
    BY <1>1, <2>3 DEF Selected
  <2> HIDE DEF kept, c
  <2>5. c \notin FirstFiles(FilesOf(kept), request.limit)
    BY <2>4 DEF c
  <2>6. /\ Cardinality(FirstFiles(FilesOf(kept), request.limit)) = request.limit
        /\ \A d \in FirstFiles(FilesOf(kept), request.limit) : ComesBefore(d, c)
    BY <1>2, <2>3, <2>5, FirstFilesPassNone
  <2> QED
    BY <2>4, <2>6 DEF c
<1>7. LatestOfItsKind'
  <2> SUFFICES ASSUME Mode = "latest", NEW m \in notes, Weighed(m)
               PROVE  result' # {} /\ \A c \in result' : ~ (c.note.ts < m.ts)
    BY <1>1, <1>5 DEF LatestOfItsKind
  <2>1. PICK x \in matches : x.ts >= m.ts
    BY <1>1 DEF WeighedSoFar
  <2>2. /\ NewestOf(matches, 1) # {}
        /\ \A y \in NewestOf(matches, 1) : y \in matches /\ y.ts >= x.ts
    BY <1>2, NewestIsNewest
  <2>3. result' = FilesOf(NewestOf(matches, 1))
    BY <1>1
  <2>4. \A y \in NewestOf(matches, 1) : WantedIn(y) # {}
    <3>1. \A y \in NewestOf(matches, 1) : Accepted(y)
      BY <2>2 DEF MatchesOK
    <3> QED
      BY <3>1 DEF Accepted, WantedIn, Wanted, Mode
  <2>5. result' # {} /\ \A c \in result' : c.note \in NewestOf(matches, 1)
    <3>1. PICK y \in NewestOf(matches, 1) : TRUE
      BY <2>2
    <3>2. PICK i \in WantedIn(y) : TRUE
      BY <2>4
    <3>3. [note |-> y, nth |-> i] \in FilesOf(NewestOf(matches, 1))
      BY WhatFilesOfHolds
    <3> QED
      BY <2>3, <3>3, WhatFilesOfHolds
  <2>6. \A y \in notes : y.ts \in Nat
    BY DEF SearchTypeOK, NoteMessage
  <2>7. ASSUME NEW c \in result' PROVE ~ (c.note.ts < m.ts)
    <3>1. c.note \in matches /\ c.note.ts >= x.ts
      BY <2>2, <2>5
    <3>2. c.note.ts \in Nat /\ x.ts \in Nat /\ m.ts \in Nat
      BY <1>2, <2>6, <3>1
    <3> QED
      BY <2>1, <3>1, <3>2
  <2> QED
    BY <2>5, <2>7
<1> QED
  BY <1>1, <1>4, <1>5, <1>6, <1>7 DEF WeighedSoFar, NothingPassedOver

LEMMA FilesFoundStep == FilesFoundInv /\ [SearchNext]_searchVars => FilesFoundInv'
<1> SUFFICES ASSUME FilesFoundInv, [SearchNext]_searchVars PROVE FilesFoundInv'
  OBVIOUS
<1>1. CASE UNCHANGED searchVars
  <2>1. SearchTypeOK' /\ NotesOK'
    BY <1>1 DEF FilesFoundInv, SearchTypeOK, NotesOK, TopNotes
  <2>2. Mode' = Mode /\ \A m \in notes : (Weighed(m)' <=> Weighed(m)) /\ WantedIn(m)' = WantedIn(m)
    BY <1>1, SameQuestion
  <2>3. MatchesOK' /\ WeighedSoFar' /\ NothingPassedOver'
    BY <1>1, <2>2, SameQuestion
       DEF FilesFoundInv, MatchesOK, WeighedSoFar, NothingPassedOver, PassesNoneOver, LatestOfItsKind, BeyondTheScan
  <2> QED
    BY <2>1, <2>3 DEF FilesFoundInv
<1>2. CASE SearchNext
  BY <1>2, NoteKeeps, AskingKeeps, RecentPageKeeps, LatestPageKeeps, ThreadsKeep, ThreadsDoneKeeps
     DEF SearchNext
<1> QED
  BY <1>1, <1>2

LEMMA FilesFoundInvariant == SearchSpec => []FilesFoundInv
BY FilesFoundInit, FilesFoundStep, PTL DEF SearchSpec

\* Every variable of a search for files stays in its type; what a tool takes is a
\* message of the conversation (audio.go fetchFilesIn, messages.go).
THEOREM FileSearchTypeCorrect == SearchSpec => []SearchTypeOK
<1>1. FilesFoundInv => SearchTypeOK
  BY DEF FilesFoundInv
<1> QED
  BY <1>1, FilesFoundInvariant, PTL

\* For any page, number of threads and length of the scan: asked for documents by
\* name, by number or for a list a tool passes over none it asks for that lies
\* within the scan, and asked for the latest it takes an older one only where the
\* channel wins over its threads (document.go readRecentDocuments, messages.go
\* LatestFileMessage).
THEOREM NoFileIsPassedOver == SearchSpec => []NothingPassedOver
<1>1. FilesFoundInv => NothingPassedOver
  BY DEF FilesFoundInv
<1> QED
  BY <1>1, FilesFoundInvariant, PTL

HIDE FileSearchAssumption

-----------------------------------------------------------------------------
(***************************************************************************)
(* get_my_actions. An item is judged by what followed it up to the next    *)
(* item of the same side; a ping the judgement left open had no reply of   *)
(* the operator's in that stretch.                                         *)
(***************************************************************************)
TurnsOK ==
    /\ IsFiniteSet(turns)
    /\ \A m \in turns : m.ts <= TurnNow
    /\ \A m, n \in turns : m.ts = n.ts => m = n

\* Only the operator's own messages are searched for page by page; nothing is
\* judged before the list is made.
ItemsOK ==
    /\ \A h \in ownFound : IsOwnTurn(h.note)
    /\ \A n \in toMe : ~ IsOwnTurn(n)
    /\ \A c \in commitments : IsOwnTurn(c.note) \/ c.copy = 1
    /\ actionAt # "listed" => \A c \in commitments : ~ c.checked

ActionsInv == ActionsTypeOK /\ TurnsOK /\ ItemsOK /\ PingsAreUnanswered

USE ActionsAssumption DEF actionVars, turnVars, callVars

\* What Resolve finds, and when it leaves a ping open.
LEMMA ResolveIs ==
    ASSUME ActionsTypeOK, TurnsOK, NEW c \in commitments, NEW msgs \in SUBSET turns
    PROVE  /\ Resolve(c, msgs).status \in {"open", "acked", "answered", "closed"}
           /\ Resolve(c, msgs).at \in 0 .. MaxTurns
           /\ Resolve(c, msgs).status = "open" => \A m \in InTurn(c, msgs) : ~ Responsible(c, m)
<1> DEFINE replies == {m \in InTurn(c, msgs) : Responsible(c, m)}
           finish == {m \in replies : Says(m) \cap {"done", "file"} # {}}
           others == {m \in InTurn(c, msgs) : m.kind.by \notin {"me", c.note.kind.by}}
<1>1. ASSUME NEW S \in SUBSET turns, S # {}
      PROVE  FirstOf(S).ts \in 0 .. MaxTurns /\ LastOf(S).ts \in 0 .. MaxTurns
  <2>1. Timed(S)
    <3>1. IsFiniteSet(S)
      BY FS_Subset DEF TurnsOK
    <3> QED
      BY <3>1 DEF Timed, ActionsTypeOK
  <2>2. \E m \in S : \A x \in S : m.ts <= x.ts
    BY <1>1, <2>1, NewestAndOldest
  <2>3. \E m \in S : \A x \in S : x.ts <= m.ts
    BY <1>1, <2>1, NewestAndOldest
  <2>4. \E m \in S : \A x \in S : m.ts >= x.ts
    BY <2>1, <2>3 DEF Timed
  <2>5. FirstOf(S) \in S /\ LastOf(S) \in S
    BY <2>2, <2>4 DEF FirstOf, LastOf
  <2> QED
    BY <2>5 DEF ActionsTypeOK
<1>2. replies \in SUBSET turns /\ finish \in SUBSET turns /\ others \in SUBSET turns
  BY DEF InTurn
<1>3. Resolve(c, msgs) =
        IF c.note \in msgs /\ c.note.ts \in marked THEN [status |-> "closed", at |-> 0]
        ELSE IF CommitmentKind(c.note) = "question" /\ replies # {} /\ FirstOf(replies) \notin finish
             THEN [status |-> "answered", at |-> FirstOf(replies).ts]
        ELSE IF finish # {} THEN [status |-> "closed", at |-> FirstOf(finish).ts]
        ELSE IF replies # {} THEN [status |-> "acked", at |-> LastOf(replies).ts]
        ELSE IF ~ DirectTo(c.note) /\ CommitmentKind(c.note) \in {"ask", "question"} /\ others # {}
             THEN [status |-> "answered", at |-> FirstOf(others).ts]
        ELSE [status |-> "open", at |-> 0]
  BY DEF Resolve
<1>4. replies = {} => \A m \in InTurn(c, msgs) : ~ Responsible(c, m)
  OBVIOUS
<1>5. 0 \in 0 .. MaxTurns
  OBVIOUS
<1> HIDE DEF replies, finish, others
<1> QED
  BY <1>1, <1>2, <1>3, <1>4, <1>5

\* The first state satisfies the invariant.
LEMMA ActionsInvInit == ActionsInit => ActionsInv
<1> SUFFICES ASSUME ActionsInit PROVE ActionsInv
  OBVIOUS
<1>1. ActionsTypeOK
  <2>1. 0 \in 0 .. MaxTurns /\ 0 \in 0 .. SearchPages
    OBVIOUS
  <2> QED
    BY <2>1, Zenon DEF ActionsInit, ActionsTypeOK
<1>2. TurnsOK
  BY FS_EmptySet DEF ActionsInit, TurnsOK
<1> QED
  BY <1>1, <1>2 DEF ActionsInit, ActionsInv, ItemsOK, PingsAreUnanswered

\* People write and react.
LEMMA TurnsKeep ==
    ASSUME ActionsInv, (\E k \in TurnKind : WriteTurn(k)) \/ \E n \in turns : React(n)
    PROVE  ActionsInv'
<1> USE DEF ActionsInv
<1>1. CASE \E k \in TurnKind : WriteTurn(k)
  <2> DEFINE n == Cardinality(turns)
  <2>1. PICK k \in TurnKind : WriteTurn(k)
    BY <1>1
  <2> DEFINE new == [ts |-> n + 1, kind |-> k]
  <2>2. /\ n < MaxTurns /\ actionAt # "listed" /\ turns' = turns \cup {new}
        /\ UNCHANGED <<place, marked, callVars>>
    BY <2>1 DEF WriteTurn, TurnNow
  <2>3. n \in Nat /\ \A m \in turns : m.ts \in 1 .. MaxTurns /\ m.ts <= n
    BY FS_CardinalityType DEF TurnsOK, TurnNow, ActionsTypeOK
  <2>4. new \in [ts : 1 .. MaxTurns, kind : TurnKind] /\ new.ts = n + 1 /\ new \notin turns
    BY <2>2, <2>3
  <2>5. Cardinality(turns') = n + 1 /\ IsFiniteSet(turns')
    BY <2>2, <2>4, FS_AddElement DEF TurnsOK
  <2> HIDE DEF n, new
  <2>6. ActionsTypeOK'
    BY <2>2, <2>4 DEF ActionsTypeOK
  <2>7. TurnsOK'
    <3>1. \A m \in turns' : m = new \/ m \in turns
      BY <2>2
    <3>2. \A m \in turns' : m.ts <= n + 1 /\ (m \in turns => m.ts < n + 1)
      BY <2>3, <2>4, <3>1
    <3>3. ASSUME NEW m \in turns', NEW x \in turns', m.ts = x.ts PROVE m = x
      <4>1. m \in turns /\ x \in turns => m = x
        BY <3>3 DEF TurnsOK
      <4>2. (m \in turns => m.ts < n + 1) /\ (x \in turns => x.ts < n + 1)
        BY <3>2
      <4> QED
        BY <2>3, <2>4, <3>1, <3>3, <4>1, <4>2
    <3> QED
      BY <2>5, <3>2, <3>3 DEF TurnsOK, TurnNow
  <2>8. ItemsOK' /\ PingsAreUnanswered'
    BY <2>2 DEF ItemsOK, PingsAreUnanswered
  <2> QED
    BY <2>6, <2>7, <2>8
<1>2. CASE \E n \in turns : React(n)
  <2>1. PICK n \in turns : React(n)
    BY <1>2
  <2>2. actionAt # "listed" /\ marked' = marked \cup {n.ts} /\ UNCHANGED <<place, turns, callVars>>
    BY <2>1 DEF React
  <2>3. ActionsTypeOK'
    BY <2>2 DEF ActionsTypeOK
  <2>4. TurnsOK' /\ ItemsOK' /\ PingsAreUnanswered'
    BY <2>2 DEF TurnsOK, TurnNow, ItemsOK, PingsAreUnanswered
  <2> QED
    BY <2>3, <2>4
<1> QED
  BY <1>1, <1>2

\* The searches.
LEMMA SearchingKeeps ==
    ASSUME ActionsInv,
           SearchOwn \/ SearchToMe \/ SearchBreaks \/ OutOfTime \/ Searched
             \/ \E v \in DueView : CallActions(v)
    PROVE  ActionsInv'
<1> USE DEF ActionsInv
<1>1. actionAt' # "listed" /\ actionAt # "listed" /\ UNCHANGED turnVars
  BY DEF SearchOwn, SearchToMe, SearchBreaks, OutOfTime, Searched, CallActions
<1>2. TurnsOK' /\ PingsAreUnanswered'
  BY <1>1 DEF TurnsOK, TurnNow, PingsAreUnanswered
<1>3. TurnNow \in 0 .. MaxTurns
  BY AsManyAsTimestamps DEF TurnsOK, TurnNow, ActionsTypeOK
<1>4. CASE SearchOwn
  <2> DEFINE mine == {n \in turns : IsOwnTurn(n)}
             page == NewestOf(mine, (ownPages + 1) * ActionPage) \ NewestOf(mine, ownPages * ActionPage)
  <2>1. /\ ownPages < SearchPages
        /\ ownFound' = ownFound \cup {[note |-> n, copy |-> ownPages + 1] : n \in page}
        /\ ownPages' \in {SearchPages, ownPages + 1}
        /\ UNCHANGED <<turnVars, actionAt, view, cutShort, toMe, toMeRead, commitments, startedAt>>
    BY <1>4 DEF SearchOwn
  <2>2. page \subseteq mine
    BY DEF NewestOf
  <2> HIDE DEF page
  <2>3. ownPages + 1 \in 1 .. SearchPages
    BY <2>1 DEF ActionsTypeOK
  <2>4. \A h \in ownFound' \ ownFound : h \in [note : turns, copy : 1 .. SearchPages] /\ IsOwnTurn(h.note)
    BY <2>1, <2>2, <2>3
  <2>5. ActionsTypeOK'
    BY <2>1, <2>3, <2>4 DEF ActionsTypeOK
  <2>6. ItemsOK'
    BY <2>1, <2>4 DEF ItemsOK
  <2> QED
    BY <1>2, <2>5, <2>6
<1>5. CASE SearchToMe
  <2>1. /\ \A n \in toMe' : n \in turns /\ ~ IsOwnTurn(n)
        /\ toMeRead' = TRUE
        /\ UNCHANGED <<turnVars, actionAt, view, cutShort, ownPages, ownFound, commitments, startedAt>>
    BY <1>5 DEF SearchToMe, NewestOf
  <2> QED
    BY <1>2, <2>1 DEF ActionsTypeOK, ItemsOK
<1>6. CASE SearchBreaks \/ OutOfTime \/ \E v \in DueView : CallActions(v)
  <2>1. /\ UNCHANGED <<turnVars, ownPages, ownFound, toMe, toMeRead, commitments>>
        /\ actionAt' \in {"failed", "searching", actionAt} /\ view' \in DueView \cup {view}
        /\ cutShort' \in BOOLEAN /\ startedAt' \in {startedAt, TurnNow}
    BY <1>6 DEF SearchBreaks, OutOfTime, CallActions, ActionsTypeOK
  <2>2. ActionsTypeOK'
    BY <1>3, <2>1 DEF ActionsTypeOK
  <2>3. ItemsOK'
    BY <1>1, <2>1 DEF ItemsOK
  <2> QED
    BY <1>2, <2>2, <2>3
<1>7. CASE Searched
  <2>1. /\ actionAt' = "read"
        /\ commitments' = {[note |-> h.note, copy |-> h.copy, status |-> "open", at |-> 0,
                            checked |-> FALSE] : h \in FoundItems}
        /\ UNCHANGED <<turnVars, view, cutShort, ownPages, ownFound, toMe, toMeRead, startedAt>>
    BY <1>7 DEF Searched
  <2>2. \A h \in FoundItems : /\ h.note \in turns /\ h.copy \in 1 .. SearchPages
                              /\ IsOwnTurn(h.note) \/ h.copy = 1
    <3>1. FoundItems \subseteq ownFound \cup {[note |-> n, copy |-> 1] : n \in toMe}
      BY DEF FoundItems
    <3> QED
      BY <3>1 DEF ItemsOK, ActionsTypeOK
  <2>3. /\ commitments' \subseteq [note : turns, copy : 1 .. SearchPages, checked : BOOLEAN, at : 0 .. MaxTurns,
                                   status : {"open", "acked", "answered", "closed"}]
        /\ \A c \in commitments' : (IsOwnTurn(c.note) \/ c.copy = 1) /\ ~ c.checked
    <3> SUFFICES ASSUME NEW c \in commitments'
                 PROVE  /\ c \in [note : turns, copy : 1 .. SearchPages, checked : BOOLEAN, at : 0 .. MaxTurns,
                                  status : {"open", "acked", "answered", "closed"}]
                        /\ IsOwnTurn(c.note) \/ c.copy = 1
                        /\ ~ c.checked
      OBVIOUS
    <3>1. PICK h \in FoundItems : c = [note |-> h.note, copy |-> h.copy, status |-> "open", at |-> 0,
                                      checked |-> FALSE]
      BY <2>1
    <3>2. 0 \in 0 .. MaxTurns
      OBVIOUS
    <3> QED
      BY <2>2, <3>1, <3>2
  <2> QED
    BY <1>2, <2>1, <2>3 DEF ActionsTypeOK, ItemsOK
<1> QED
  BY <1>4, <1>5, <1>6, <1>7

\* The judgement.
LEMMA ListActionsKeeps == ASSUME ActionsInv, NEW read \in BOOLEAN, ListActions(read) PROVE ActionsInv'
<1> USE DEF ActionsInv
<1>1. /\ actionAt' = "listed"
      /\ UNCHANGED <<turnVars, view, cutShort, ownPages, ownFound, toMe, toMeRead, startedAt>>
  BY DEF ListActions
<1>2. FollowUps \in SUBSET turns
  BY DEF FollowUps, OldestOf
<1>3. ASSUME NEW d \in commitments'
      PROVE  \E c \in commitments :
               /\ d.note = c.note /\ d.copy = c.copy
               /\ \/ d = c /\ ~ read
                  \/ /\ d.checked /\ d.status = Resolve(c, FollowUps).status
                     /\ d = [note |-> c.note, copy |-> c.copy, checked |-> TRUE,
                             at |-> Resolve(c, FollowUps).at, status |-> Resolve(c, FollowUps).status]
  <2>1. CASE ~ read
    BY <2>1 DEF ListActions
  <2>2. CASE read
    <3>1. PICK c \in commitments :
            d = [c EXCEPT !.status = Resolve(c, FollowUps).status, !.at = Resolve(c, FollowUps).at,
                          !.checked = TRUE]
      BY <2>2 DEF ListActions
    <3>2. c \in [note : turns, copy : 1 .. SearchPages, checked : BOOLEAN, at : 0 .. MaxTurns,
                 status : {"open", "acked", "answered", "closed"}]
      BY DEF ActionsTypeOK
    <3> QED
      BY <3>1, <3>2
  <2> QED
    BY <2>1, <2>2
<1>4. ActionsTypeOK'
  <2>1. ASSUME NEW d \in commitments'
        PROVE  d \in [note : turns, copy : 1 .. SearchPages, checked : BOOLEAN, at : 0 .. MaxTurns,
                      status : {"open", "acked", "answered", "closed"}]
    <3>1. PICK c \in commitments :
            /\ d.note = c.note /\ d.copy = c.copy
            /\ \/ d = c /\ ~ read
               \/ /\ d.checked /\ d.status = Resolve(c, FollowUps).status
                  /\ d = [note |-> c.note, copy |-> c.copy, checked |-> TRUE,
                          at |-> Resolve(c, FollowUps).at, status |-> Resolve(c, FollowUps).status]
      BY <1>3
    <3>2. c \in [note : turns, copy : 1 .. SearchPages, checked : BOOLEAN, at : 0 .. MaxTurns,
                 status : {"open", "acked", "answered", "closed"}]
      BY DEF ActionsTypeOK
    <3>3. CASE d = c
      BY <3>2, <3>3
    <3>4. CASE d # c
      <4>1. /\ Resolve(c, FollowUps).at \in 0 .. MaxTurns
            /\ Resolve(c, FollowUps).status \in {"open", "acked", "answered", "closed"}
        BY <1>2, <3>2, ResolveIs
      <4> QED
        <5> DEFINE r == Resolve(c, FollowUps)
        <5> HIDE DEF r
        <5>1. d = [note |-> c.note, copy |-> c.copy, checked |-> TRUE, at |-> r.at, status |-> r.status]
          BY <3>1, <3>4 DEF r
        <5>2. r.at \in 0 .. MaxTurns /\ r.status \in {"open", "acked", "answered", "closed"}
          BY <4>1 DEF r
        <5>3. c.note \in turns /\ c.copy \in 1 .. SearchPages
          BY <3>2
        <5> QED
          BY <5>1, <5>2, <5>3
    <3> QED
      BY <3>3, <3>4
  <2> QED
    BY <1>1, <2>1 DEF ActionsTypeOK
<1>5. TurnsOK'
  BY <1>1 DEF TurnsOK, TurnNow
<1>6. ItemsOK'
  BY <1>1, <1>3 DEF ItemsOK
<1>7. PingsAreUnanswered'
  <2> SUFFICES ASSUME Cardinality(turns) <= FollowPage, NEW d \in commitments',
                      CommitmentKind(d.note) \in {"ask", "question"}, d.checked, d.status = "open",
                      NEW m \in turns, IsOwnTurn(m), d.note.ts < m.ts,
                      \A n \in turns : n.kind.by = d.note.kind.by /\ d.note.ts < n.ts /\ n.ts <= m.ts =>
                                          FamilyOf(CommitmentKind(n)) # "ask"
               PROVE  FALSE
    <3>1. \A n : CommitmentKind(n)' = CommitmentKind(n)
      BY <1>1 DEF CommitmentKind, AddressedTo
    <3> QED
      BY <1>1, <3>1 DEF PingsAreUnanswered, ListedItems
  <2>1. PICK c \in commitments :
          /\ d.note = c.note /\ d.copy = c.copy
          /\ \/ d = c /\ ~ read
             \/ d.checked /\ d.status = Resolve(c, FollowUps).status
    BY <1>3
  <2>2. d.status = Resolve(c, FollowUps).status
    BY <2>1 DEF ListActions, ItemsOK
  <2>3. \A x \in InTurn(c, FollowUps) : ~ IsOwnTurn(x)
    <3>1. \A x \in InTurn(c, FollowUps) : ~ Responsible(c, x)
      BY <1>2, <2>2, ResolveIs
    <3> QED
      BY <2>1, <3>1 DEF Responsible
  <2>4. \A x \in turns : x.ts \in Nat
    BY DEF ActionsTypeOK
  <2>5. m \in FollowUps
    <3>1. ASSUME NEW S \in SUBSET turns, m \in S PROVE m \in OldestOf(S, FollowPage)
      <4> DEFINE A == {x \in S : x.ts < m.ts}
      <4>1. A \in SUBSET turns /\ m \notin A
        BY <2>4
      <4>2. IsFiniteSet(A) /\ Cardinality(A) <= Cardinality(turns) /\ Cardinality(A) # Cardinality(turns)
        BY <4>1, FS_Subset DEF TurnsOK
      <4>3. Cardinality(A) \in Nat /\ Cardinality(turns) \in Nat
        BY <4>2, FS_CardinalityType DEF TurnsOK
      <4>4. Cardinality(A) < FollowPage
        <5> HIDE DEF A
        <5> QED
          BY <4>2, <4>3
      <4> QED
        BY <3>1, <4>4 DEF OldestOf
    <3>2. m \in {x \in turns : \E e \in commitments : e.note.ts <= x.ts}
      <4>1. c.note \in turns
        BY DEF ActionsTypeOK
      <4> QED
        BY <2>1, <2>4, <4>1
    <3> QED
      BY <3>1, <3>2 DEF FollowUps
  <2>6. ASSUME NEW e \in NextTurns(c) PROVE m.ts < e.note.ts
    <3>1. /\ e \in commitments /\ IsBefore(c, e) /\ e.note.kind.by = c.note.kind.by
          /\ FamilyOf(CommitmentKind(e.note)) = FamilyOf(CommitmentKind(c.note))
      BY DEF NextTurns
    <3>2. FamilyOf(CommitmentKind(e.note)) = "ask"
      BY <2>1, <3>1 DEF FamilyOf
    <3>3. ~ IsOwnTurn(c.note) /\ ~ IsOwnTurn(e.note)
      <4>1. ~ IsOwnTurn(c.note)
        BY <2>1 DEF CommitmentKind
      <4> QED
        BY <3>1, <4>1 DEF IsOwnTurn
    <3>4. c.copy = 1 /\ e.copy = 1
      BY <3>1, <3>3 DEF ItemsOK
    <3>5. c.note.ts < e.note.ts
      BY <3>1, <3>4 DEF IsBefore
    <3>6. e.note \in turns /\ c.note \in turns
      BY <3>1 DEF ActionsTypeOK
    <3>7. ~ (e.note.ts <= m.ts)
      BY <2>1, <3>1, <3>2, <3>5, <3>6
    <3> QED
      BY <2>4, <3>6, <3>7
  <2>7. m \in InTurn(c, FollowUps)
    <3>1. c.note \in turns
      BY DEF ActionsTypeOK
    <3> QED
      BY <2>1, <2>4, <2>5, <2>6, <3>1 DEF InTurn
  <2> QED
    BY <2>3, <2>7
<1> QED
  BY <1>4, <1>5, <1>6, <1>7

LEMMA ActionsStep == ActionsInv /\ [ActionsNext]_actionVars => ActionsInv'
<1> SUFFICES ASSUME ActionsInv, [ActionsNext]_actionVars PROVE ActionsInv'
  OBVIOUS
<1>1. CASE UNCHANGED actionVars
  <2>1. ActionsTypeOK' /\ TurnsOK' /\ ItemsOK'
    BY <1>1 DEF ActionsInv, ActionsTypeOK, TurnsOK, TurnNow, ItemsOK
  <2>2. PingsAreUnanswered'
    <3>1. \A n : CommitmentKind(n)' = CommitmentKind(n)
      BY <1>1 DEF CommitmentKind, AddressedTo
    <3>2. ListedItems' = ListedItems
      BY <1>1, <3>1 DEF ListedItems, Folded
    <3>3. \A c : DueNow(c)' = DueNow(c)
      BY <1>1, <3>1 DEF DueNow, Overtaken, Stale, Horizon, DirectTo
    <3> QED
      BY <1>1, <3>1, <3>2, <3>3 DEF ActionsInv, PingsAreUnanswered
  <2> QED
    BY <2>1, <2>2 DEF ActionsInv
<1>2. CASE ActionsNext
  BY <1>2, TurnsKeep, SearchingKeeps, ListActionsKeeps DEF ActionsNext
<1> QED
  BY <1>1, <1>2

LEMMA ActionsInvariant == ActionsSpec => []ActionsInv
BY ActionsInvInit, ActionsStep, PTL DEF ActionsSpec

\* Every variable of a listing of actions stays in its type; an item is about a
\* message of the conversation (actions.go).
THEOREM ActionsTypeCorrect == ActionsSpec => []ActionsTypeOK
<1>1. ActionsInv => ActionsTypeOK
  BY DEF ActionsInv
<1> QED
  BY <1>1, ActionsInvariant, PTL

\* For any messages, pages and limits: what the list shows as an unanswered ping
\* was not replied to by the operator before the same person asked again
\* (actions.go Resolve, nextTurnCutoffs).
THEOREM PingsStayHonest == ActionsSpec => []PingsAreUnanswered
<1>1. ActionsInv => PingsAreUnanswered
  BY DEF ActionsInv
<1> QED
  BY <1>1, ActionsInvariant, PTL

-----------------------------------------------------------------------------
(***************************************************************************)
(* Feeds of bots. A pattern stands for the posts of its severity and text  *)
(* read so far: the newest of them is its sample, and it counts them all.  *)
(***************************************************************************)
Alike(band, k, n) == {j \in 1 .. n : Severity(feedPosts[j]) = band /\ SameText(j, k)}

StandsFor(x, band, n) ==
    /\ x \in [sample : 1 .. n, count : Nat] /\ Severity(feedPosts[x.sample]) = band
    /\ x.count = Cardinality(Alike(band, x.sample, n))
    /\ \A j \in Alike(band, x.sample, n) : x.sample <= j

FeedRead == feedPosts \in Seq(FeedPost) /\ Len(feedPosts) <= MaxFeedPosts /\ digested \in 0 .. Len(feedPosts)

PatternsOK ==
    /\ DOMAIN patterns = Bands
    /\ \A band \in Bands :
          /\ \A x \in patterns[band] : StandsFor(x, band, digested)
          /\ \A i \in 1 .. digested :
                Severity(feedPosts[i]) = band => \E x \in patterns[band] : SameText(x.sample, i)

FeedInv == FeedRead /\ PatternsOK

LEMMA UpToFinite ==
    ASSUME NEW n \in Nat
    PROVE  IsFiniteSet(1 .. n) /\ 1 .. n \subseteq Nat
<1>1. 1 \in Int /\ n \in Int OBVIOUS
<1>2. IsFiniteSet(1 .. n) BY <1>1, FS_Interval, Zenon
<1>3. 1 .. n \subseteq Nat OBVIOUS
<1> QED BY <1>2, <1>3

\* Every post has a severity.
LEMMA SeverityType == \A p : Severity(p) \in Bands
<1> SUFFICES ASSUME NEW p PROVE Severity(p) \in Bands OBVIOUS
<1> DEFINE found == {n \in DOMAIN Severities : Severities[n] \in p.terms}
<1>1. CASE "passed" \in p.terms \/ found = {} BY <1>1 DEF Severity, Bands
<1>2. CASE ~ ("passed" \in p.terms \/ found = {})
  <2>1. DOMAIN Severities = 1 .. 4 BY DEF Severities
  <2>2. found \in SUBSET Nat /\ IsFiniteSet(found)
    <3>1. IsFiniteSet(1 .. 4) BY UpToFinite
    <3> QED BY <2>1, <3>1, FS_Subset
  <2>3. \E n \in found : \A m \in found : n <= m
    <3> HIDE DEF found
    <3> QED BY <1>2, <2>2, Smallest
  <2>4. PICK n \in found : Severity(p) = Severities[n] BY <1>2, <2>3 DEF Severity
  <2> QED BY <2>4 DEF Bands, Range
<1> QED BY <1>1, <1>2

\* The posts like one are so many as are counted.
LEMMA AlikeFinite ==
    ASSUME NEW n \in Nat, NEW band, NEW k
    PROVE  /\ IsFiniteSet(Alike(band, k, n)) /\ Cardinality(Alike(band, k, n)) \in 0 .. n
           /\ \A j \in Alike(band, k, n) : j \in 1 .. n
<1>1. IsFiniteSet(1 .. n) /\ Cardinality(1 .. n) = n BY FS_Interval
<1>2. Alike(band, k, n) \subseteq 1 .. n BY DEF Alike
<1> QED BY <1>1, <1>2, FS_Subset, FS_CardinalityType

\* One post more is one more of those like it, and none of the others.
LEMMA AlikeGrows ==
    ASSUME NEW n \in Nat, NEW band, NEW k
    PROVE  Alike(band, k, n + 1) =
              IF Severity(feedPosts[n + 1]) = band /\ SameText(n + 1, k)
              THEN Alike(band, k, n) \cup {n + 1} ELSE Alike(band, k, n)
<1>1. 1 .. (n + 1) = (1 .. n) \cup {n + 1} OBVIOUS
<1> QED BY <1>1 DEF Alike

LEMMA FeedInvInit == FeedInit => FeedInv
<1> SUFFICES ASSUME FeedInit PROVE FeedInv OBVIOUS
<1>1. feedPosts = <<>> /\ digested = 0 /\ patterns = [b \in Bands |-> {}] BY DEF FeedInit
<1>2. FeedRead
  <2>1. feedPosts \in Seq(FeedPost) /\ Len(feedPosts) = 0 BY <1>1, EmptySeq
  <2> QED BY <1>1, <2>1, FeedAssumption DEF FeedRead
<1>3. PatternsOK BY <1>1 DEF PatternsOK
<1> QED BY <1>2, <1>3 DEF FeedInv

LEMMA FeedPostKeeps == ASSUME FeedInv, NEW p \in FeedPost, PostToFeed(p) PROVE FeedInv'
<1>1. /\ digested = 0 /\ digested' = 0 /\ Len(feedPosts) < MaxFeedPosts
      /\ feedPosts' = <<p>> \o feedPosts /\ patterns' = patterns
      BY DEF PostToFeed
<1>2. feedPosts \in Seq(FeedPost) /\ DOMAIN patterns = Bands BY DEF FeedInv, FeedRead, PatternsOK
<1>3. \A band \in Bands : patterns[band] = {}
  <2>1. \A band \in Bands : \A x \in patterns[band] : x.sample \in 1 .. 0
        BY <1>1 DEF FeedInv, PatternsOK, StandsFor
  <2> QED BY <2>1
<1>4. FeedRead'
  <2>1. <<p>> \in Seq(FeedPost) /\ Len(<<p>>) = 1 OBVIOUS
  <2>2. feedPosts' \in Seq(FeedPost) /\ Len(feedPosts') = 1 + Len(feedPosts)
        BY <1>1, <1>2, <2>1, ConcatProperties
  <2> QED BY <1>1, <1>2, <2>2, LenProperties, FeedAssumption DEF FeedRead
<1>5. PatternsOK' BY <1>1, <1>2, <1>3 DEF PatternsOK
<1> QED BY <1>4, <1>5 DEF FeedInv

\* What a pattern stands for, when a post that is not like it is read.
LEMMA StillStands ==
    ASSUME FeedRead, NEW n \in Nat, NEW band, NEW x, StandsFor(x, band, n),
           ~ (Severity(feedPosts[n + 1]) = band /\ SameText(x.sample, n + 1))
    PROVE  StandsFor(x, band, n + 1)
<1>1. Alike(band, x.sample, n + 1) = Alike(band, x.sample, n) BY AlikeGrows DEF SameText
<1>2. x \in [sample : 1 .. (n + 1), count : Nat] BY DEF StandsFor
<1> QED BY <1>1, <1>2 DEF StandsFor

\* And when one is.
LEMMA CountsOneMore ==
    ASSUME FeedRead, NEW n \in Nat, NEW x, StandsFor(x, Severity(feedPosts[n + 1]), n), SameText(x.sample, n + 1)
    PROVE  StandsFor([x EXCEPT !.count = @ + 1], Severity(feedPosts[n + 1]), n + 1)
<1> DEFINE band == Severity(feedPosts[n + 1])
           y == [x EXCEPT !.count = @ + 1]
           A == Alike(band, x.sample, n)
           B == Alike(band, x.sample, n + 1)
<1>1. x \in [sample : 1 .. n, count : Nat] /\ x.count = Cardinality(A) BY DEF StandsFor
<1>2. y \in [sample : 1 .. (n + 1), count : Nat] /\ y.sample = x.sample /\ y.count = x.count + 1 BY <1>1
<1>3. B = A \cup {n + 1} BY AlikeGrows DEF SameText
<1>4. IsFiniteSet(A) /\ n + 1 \notin A BY AlikeFinite
<1>5. Cardinality(B) = Cardinality(A) + 1
  <2> HIDE DEF A, B
  <2> QED BY <1>3, <1>4, FS_AddElement
<1>6. \A j \in B : x.sample <= j
  <2>1. \A j \in A : x.sample <= j BY DEF StandsFor
  <2>2. x.sample <= n + 1 BY <1>1
  <2> QED BY <1>3, <2>1, <2>2
<1>7. Severity(feedPosts[y.sample]) = band BY <1>2 DEF StandsFor
<1> QED BY <1>1, <1>2, <1>5, <1>6, <1>7 DEF StandsFor

\* A post like none before it makes a pattern of its own.
LEMMA NewPattern ==
    ASSUME NEW n \in Nat,
           \A i \in 1 .. n : Severity(feedPosts[i]) = Severity(feedPosts[n + 1]) => ~ SameText(i, n + 1)
    PROVE  StandsFor([sample |-> n + 1, count |-> 1], Severity(feedPosts[n + 1]), n + 1)
<1> DEFINE band == Severity(feedPosts[n + 1])
           x == [sample |-> n + 1, count |-> 1]
<1>1. Alike(band, n + 1, n) = {} BY DEF Alike
<1>2. Alike(band, n + 1, n + 1) = {n + 1} BY <1>1, AlikeGrows DEF SameText
<1>3. Cardinality({n + 1}) = 1 BY FS_Singleton
<1>4. x.sample = n + 1 /\ x.count = 1 /\ x \in [sample : 1 .. (n + 1), count : Nat] OBVIOUS
<1>5. \A i \in Alike(band, n + 1, n + 1) : x.sample <= i BY <1>2, <1>4
<1> HIDE DEF x, band
<1> QED BY <1>2, <1>3, <1>4, <1>5 DEF StandsFor, x, band

LEMMA DigestKeeps == ASSUME FeedInv, DigestPost PROVE FeedInv'
<1> DEFINE n == digested
           b == Severity(feedPosts[n + 1])
           found == patterns[b]
           same == {x \in found : SameText(x.sample, n + 1)}
<1>1. /\ n < Len(feedPosts) /\ digested' = n + 1 /\ feedPosts' = feedPosts
      /\ patterns' = [patterns EXCEPT ![b] = AddToPatterns(@, n + 1)]
      BY DEF DigestPost
<1>2. FeedRead /\ PatternsOK /\ n \in Nat /\ Len(feedPosts) \in Nat /\ b \in Bands
      BY LenProperties, SeverityType DEF FeedInv, FeedRead
<1>3. FeedRead' BY <1>1, <1>2 DEF FeedRead
<1>4. /\ DOMAIN patterns' = Bands /\ patterns'[b] = AddToPatterns(found, n + 1)
      /\ \A band \in Bands \ {b} : patterns'[band] = patterns[band]
      BY <1>1, <1>2 DEF PatternsOK
<1>5. \A band \in Bands : \A x \in patterns[band] : StandsFor(x, band, n) BY <1>2 DEF PatternsOK
<1>6. ASSUME NEW x \in AddToPatterns(found, n + 1)
      PROVE  StandsFor(x, b, n + 1)
  <2>1. CASE same = {}
    <3>1. \A i \in 1 .. n : Severity(feedPosts[i]) = b => ~ SameText(i, n + 1)
          BY <1>2, <2>1 DEF PatternsOK, SameText
    <3>2. CASE x = [sample |-> n + 1, count |-> 1] BY <1>2, <3>1, <3>2, NewPattern
    <3>3. CASE x \in found BY <1>2, <1>5, <2>1, <3>3, StillStands
    <3> QED BY <1>6, <2>1, <3>2, <3>3 DEF AddToPatterns
  <2>2. CASE same # {}
    <3>1. CASE x \in found \ same BY <1>2, <1>5, <3>1, StillStands
    <3>2. ASSUME NEW y \in same, x = [y EXCEPT !.count = @ + 1]
          PROVE  StandsFor(x, b, n + 1)
          BY <1>2, <1>5, <3>2, CountsOneMore
    <3> QED BY <1>6, <2>2, <3>1, <3>2 DEF AddToPatterns
  <2> QED BY <2>1, <2>2
<1>7. ASSUME NEW band \in Bands, NEW x \in patterns'[band]
      PROVE  StandsFor(x, band, n + 1)
  <2>1. CASE band = b BY <1>4, <1>6, <1>7, <2>1
  <2>2. CASE band # b BY <1>2, <1>4, <1>5, <1>7, <2>2, StillStands
  <2> QED BY <2>1, <2>2
<1>8. ASSUME NEW band \in Bands, NEW i \in 1 .. (n + 1), Severity(feedPosts[i]) = band
      PROVE  \E x \in patterns'[band] : SameText(x.sample, i)
  <2>1. CASE band # b
    <3>1. i \in 1 .. n BY <1>2, <1>8, <2>1
    <3> QED BY <1>2, <1>4, <1>8, <2>1, <3>1 DEF PatternsOK
  <2>2. CASE band = b
    <3>1. \A x \in found : \E y \in AddToPatterns(found, n + 1) : y.sample = x.sample
      <4>1. ASSUME NEW x \in found
            PROVE  \E y \in AddToPatterns(found, n + 1) : y.sample = x.sample
        <5>1. CASE x \in same
          <6> DEFINE y == [x EXCEPT !.count = @ + 1]
          <6>1. y \in AddToPatterns(found, n + 1) BY <5>1 DEF AddToPatterns
          <6>2. x \in [sample : 1 .. n, count : Nat] BY <1>2, <1>5 DEF StandsFor
          <6>3. y.sample = x.sample BY <6>2
          <6> QED BY <6>1, <6>3
        <5>2. CASE x \notin same BY <5>2 DEF AddToPatterns
        <5> QED BY <5>1, <5>2
      <4> QED BY <4>1
    <3>2. CASE i \in 1 .. n
      <4>1. PICK x \in found : SameText(x.sample, i) BY <1>2, <1>8, <2>2, <3>2 DEF PatternsOK
      <4>2. PICK y \in AddToPatterns(found, n + 1) : y.sample = x.sample BY <3>1
      <4> QED BY <1>4, <2>2, <4>1, <4>2
    <3>3. CASE i = n + 1
      <4>1. CASE same = {}
        <5>1. [sample |-> n + 1, count |-> 1] \in AddToPatterns(found, n + 1) BY <4>1 DEF AddToPatterns
        <5> QED BY <1>4, <2>2, <3>3, <5>1 DEF SameText
      <4>2. CASE same # {}
        <5>1. PICK x \in found : SameText(x.sample, n + 1) BY <4>2
        <5>2. PICK y \in AddToPatterns(found, n + 1) : y.sample = x.sample BY <3>1
        <5> QED BY <1>4, <2>2, <3>3, <5>1, <5>2
      <4> QED BY <4>1, <4>2
    <3> QED BY <1>2, <3>2, <3>3
  <2> QED BY <2>1, <2>2
<1>9. PatternsOK'
  <2>1. \A x, band : StandsFor(x, band, n + 1) => StandsFor(x, band, digested)'
        BY <1>1 DEF StandsFor, Alike, SameText
  <2> QED BY <1>1, <1>4, <1>7, <1>8, <2>1 DEF PatternsOK, SameText
<1> QED BY <1>3, <1>9 DEF FeedInv

LEMMA FeedStep == FeedInv /\ [FeedNext]_feedVars => FeedInv'
<1> SUFFICES ASSUME FeedInv, [FeedNext]_feedVars PROVE FeedInv' OBVIOUS
<1>1. CASE DigestPost BY <1>1, DigestKeeps
<1>2. CASE \E p \in FeedPost : PostToFeed(p) BY <1>2, FeedPostKeeps
<1>3. CASE UNCHANGED feedVars
  <2>1. UNCHANGED <<feedPosts, digested, patterns>> BY <1>3 DEF feedVars
  <2>2. \A x, band, n : StandsFor(x, band, n) => StandsFor(x, band, n)'
        BY <2>1 DEF StandsFor, Alike, SameText
  <2>3. PatternsOK' BY <2>1, <2>2 DEF FeedInv, PatternsOK, SameText
  <2> QED BY <2>1, <2>3 DEF FeedInv, FeedRead
<1> QED BY <1>1, <1>2, <1>3 DEF FeedNext

LEMMA FeedInvariant == FeedSpec => []FeedInv
BY FeedInvInit, FeedStep, PTL DEF FeedSpec

\* As many as may be shown are, when one is not: of a finite set in order,
\* where A[x] is what comes before x, n members have fewer than n before them.
LEMMA Foremost ==
    ASSUME NEW S, IsFiniteSet(S), NEW A \in [S -> SUBSET S],
           \A x \in S : x \notin A[x],
           \A x \in S : \A y \in A[x] : A[y] \subseteq A[x],
           \A x, y \in S : x = y \/ x \in A[y] \/ y \in A[x],
           NEW n \in Nat, NEW P \in SUBSET S, \A x \in S : x \in P <=> Cardinality(A[x]) < n,
           P # S
    PROVE  Cardinality(P) = n
<1> DEFINE Ahead(x) == A[x]
           k == Cardinality(S)
           T == 0 .. k - 1
           f == [x \in S |-> Cardinality(Ahead(x))]
           g == [x \in P |-> f[x]]
<1>1. PICK m \in S : ~ (Cardinality(Ahead(m)) < n) OBVIOUS
<1>2. k \in Nat /\ \A x \in S : IsFiniteSet(Ahead(x)) /\ Cardinality(Ahead(x)) \in Nat
  BY FS_Subset, FS_CardinalityType
<1>3. ASSUME NEW U \in SUBSET S, NEW V \in SUBSET U, NEW x \in U \ V
      PROVE  Cardinality(V) < Cardinality(U)
  <2>1. IsFiniteSet(U) /\ IsFiniteSet(V) BY FS_Subset
  <2>2. /\ Cardinality(V) <= Cardinality(U) /\ Cardinality(V) # Cardinality(U)
        /\ Cardinality(U) \in Nat /\ Cardinality(V) \in Nat
    BY <2>1, FS_Subset, FS_CardinalityType
  <2> QED BY <2>2
<1>4. ASSUME NEW x \in S, NEW y \in S, y \in A[x]
      PROVE  f[y] < f[x]
  <2>1. Ahead(y) \subseteq Ahead(x) /\ y \in Ahead(x) /\ y \notin Ahead(y) BY <1>4
  <2>2. Cardinality(Ahead(y)) < Cardinality(Ahead(x)) BY <1>3, <2>1
  <2> QED BY <2>2
<1>5. \A x \in S : Cardinality(Ahead(x)) < k
  <2>1. \A x \in S : Ahead(x) \subseteq S /\ x \notin Ahead(x) OBVIOUS
  <2> QED BY <1>3, <2>1
<1>6. /\ \A x \in S : f[x] \in Nat /\ f[x] < k /\ f[x] = Cardinality(Ahead(x))
      /\ P \subseteq S /\ \A x \in S : x \in P <=> f[x] < n
      /\ ~ (f[m] < n)
  BY <1>1, <1>2, <1>5
<1>7. DOMAIN f = S /\ DOMAIN g = P /\ (\A x \in P : g[x] = f[x]) /\ f = [x \in S |-> f[x]] /\ g = [x \in P |-> g[x]]
  BY <1>6
<1> HIDE DEF Ahead, k, f, g
<1>8. \A x, y \in S : f[x] = f[y] => x = y
  <2>1. \A x, y \in S : x = y \/ f[x] < f[y] \/ f[y] < f[x] BY <1>4
  <2> QED BY <1>6, <2>1
<1>9. \A i \in T : \E x \in S : f[x] = i
  <2>1. f \in [S -> T] BY <1>2, <1>6, <1>7
  <2>2. f \in Injection(S, T) BY <1>8, <2>1, Fun_IsInj
  <2>3. IsFiniteSet(T) /\ Cardinality(T) = k
    <3>1. k \in Nat BY <1>2
    <3>2. Cardinality(T) = IF 0 > k - 1 THEN 0 ELSE (k - 1) - 0 + 1 BY <3>1, FS_Interval
    <3> QED BY <3>1, <3>2, FS_Interval
  <2>4. f \in Surjection(S, T) BY <2>2, <2>3, FS_Injection DEF k
  <2> QED BY <2>4 DEF Surjection
<1>10. n <= k - 1 BY <1>2, <1>6
<1>11. g \in Bijection(P, 0 .. n - 1)
  <2>1. g \in [P -> 0 .. n - 1]
    <3>1. ASSUME NEW x \in P PROVE g[x] \in 0 .. n - 1
      <4>1. x \in S /\ g[x] = f[x] BY <1>7
      <4>2. f[x] \in Nat /\ f[x] < n BY <1>6, <4>1
      <4> QED BY <4>1, <4>2
    <3> QED BY <1>7, <3>1
  <2>2. \A x, y \in P : g[x] = g[y] => x = y BY <1>6, <1>7, <1>8
  <2>3. ASSUME NEW i \in 0 .. n - 1
        PROVE  \E x \in P : g[x] = i
    <3>1. i \in T /\ i < n BY <1>2, <1>10
    <3>2. PICK x \in S : f[x] = i BY <1>9, <3>1
    <3> QED BY <1>6, <1>7, <3>1, <3>2
  <2> QED BY <2>1, <2>2, <2>3, Fun_IsBij
<1>12. IsFiniteSet(0 .. n - 1) /\ Cardinality(0 .. n - 1) = n
  <2>1. Cardinality(0 .. n - 1) = IF 0 > n - 1 THEN 0 ELSE (n - 1) - 0 + 1 BY FS_Interval
  <2> QED BY <2>1, FS_Interval
<1>13. IsFiniteSet(P) BY <1>6, FS_Subset
<1>14. Cardinality(P) = n
  <2> DEFINE U == 0 .. n - 1
  <2>1. ExistsBijection(P, U) /\ Cardinality(U) = n BY <1>11, <1>12 DEF ExistsBijection
  <2> HIDE DEF U
  <2> QED BY <1>13, <2>1, FS_Bijection
<1> QED BY <1>14

\* Two patterns of a severity have different texts.
LEMMA PatternsApart ==
    ASSUME FeedInv, NEW band \in Bands, NEW x \in patterns[band], NEW y \in patterns[band],
           SameText(x.sample, y.sample)
    PROVE  x = y
<1>1. digested \in Nat BY LenProperties DEF FeedInv, FeedRead
<1>2. StandsFor(x, band, digested) /\ StandsFor(y, band, digested) BY DEF FeedInv, PatternsOK
<1>3. x \in [sample : 1 .. digested, count : Nat] /\ y \in [sample : 1 .. digested, count : Nat]
  BY <1>2 DEF StandsFor
<1>4. Alike(band, x.sample, digested) = Alike(band, y.sample, digested) BY DEF Alike, SameText
<1>5. x.sample \in Alike(band, x.sample, digested) /\ y.sample \in Alike(band, y.sample, digested)
  BY <1>2, <1>3 DEF Alike, SameText, StandsFor
<1>6. x.sample <= y.sample /\ y.sample <= x.sample BY <1>2, <1>4, <1>5 DEF StandsFor
<1>7. x.sample = y.sample
  <2>1. x.sample \in Nat /\ y.sample \in Nat BY <1>1, <1>3
  <2> QED BY <1>6, <2>1
<1>8. x.count = y.count BY <1>2, <1>7 DEF StandsFor
<1> QED BY <1>3, <1>7, <1>8

\* There are no more patterns than posts.
LEMMA PatternsFinite == ASSUME FeedInv, NEW band \in Bands PROVE IsFiniteSet(patterns[band])
<1> DEFINE f == [x \in patterns[band] |-> x.sample]
<1>1. digested \in Nat BY LenProperties DEF FeedInv, FeedRead
<1>2. \A x \in patterns[band] : x.sample \in 1 .. digested BY DEF FeedInv, PatternsOK, StandsFor
<1>3. \A x, y \in patterns[band] : x.sample = y.sample => x = y BY PatternsApart DEF SameText
<1>4. f \in Injection(patterns[band], 1 .. digested) BY <1>2, <1>3, Fun_IsInj
<1>5. IsFiniteSet(1 .. digested) BY <1>1, FS_Interval
<1> QED BY <1>4, <1>5, FS_Injection

LEMMA FeedInvShows == FeedInv => CommonestShown
<1> SUFFICES ASSUME FeedInv, digested = Len(feedPosts), NEW band \in Bands,
                    NEW i \in DOMAIN feedPosts, Severity(feedPosts[i]) = band
             PROVE  LET shown == ShownPatterns(band)
                        posts == {l \in DOMAIN feedPosts : Severity(feedPosts[l]) = band}
                        times(k) == Cardinality({j \in posts : SameText(j, k)})
                        newest(k) == CHOOSE j \in posts : SameText(j, k) /\ \A m \in posts : SameText(m, k) => j <= m
                    IN  \/ [sample |-> newest(i), count |-> times(i)] \in shown
                        \/ /\ Cardinality(shown) = PatternsPerBand
                           /\ \A x \in shown : \/ times(x.sample) > times(i)
                                               \/ times(x.sample) = times(i) /\ x.sample < newest(i)
    BY DEF CommonestShown
<1> DEFINE posts == {l \in DOMAIN feedPosts : Severity(feedPosts[l]) = band}
           times(k) == Cardinality({j \in posts : SameText(j, k)})
           newest(k) == CHOOSE j \in posts : SameText(j, k) /\ \A m \in posts : SameText(m, k) => j <= m
           S == patterns[band]
           shown == ShownPatterns(band)
           A == [y \in S |-> {z \in S : Leads(z, y)}]
<1>1. digested \in Nat /\ DOMAIN feedPosts = 1 .. digested
  BY LenProperties DEF FeedInv, FeedRead
<1>2. \A k : {j \in posts : SameText(j, k)} = Alike(band, k, digested)
  BY <1>1 DEF Alike
<1>3. \A x \in S : StandsFor(x, band, digested) BY DEF FeedInv, PatternsOK
<1>4. PICK x \in S : SameText(x.sample, i) BY <1>1 DEF FeedInv, PatternsOK
<1>5. \A y \in S : /\ y \in [sample : 1 .. digested, count : Nat] /\ y.sample \in Nat /\ y.count \in Nat
                   /\ times(y.sample) = y.count
  <2> SUFFICES ASSUME NEW y \in S
               PROVE  /\ y \in [sample : 1 .. digested, count : Nat] /\ y.sample \in Nat /\ y.count \in Nat
                      /\ times(y.sample) = y.count
      OBVIOUS
  <2>1. StandsFor(y, band, digested) BY <1>3
  <2>2. y \in [sample : 1 .. digested, count : Nat] BY <2>1 DEF StandsFor
  <2>3. y.sample \in Nat /\ y.count \in Nat BY <1>1, <2>2
  <2>4. times(y.sample) = y.count BY <1>2, <2>1 DEF StandsFor
  <2> QED BY <2>2, <2>3, <2>4
<1>6. times(i) = x.count
  <2>1. Alike(band, i, digested) = Alike(band, x.sample, digested) BY <1>4 DEF Alike, SameText
  <2> QED BY <1>2, <1>3, <2>1 DEF StandsFor
<1>7. newest(i) = x.sample
  <2>1. /\ x.sample \in posts /\ SameText(x.sample, i)
        /\ \A m \in posts : SameText(m, i) => x.sample <= m
    <3>1. \A m \in posts : SameText(m, i) => m \in Alike(band, x.sample, digested)
          BY <1>1, <1>4 DEF Alike, SameText
    <3>2. x.sample \in posts BY <1>1, <1>3 DEF StandsFor
    <3> QED BY <1>3, <1>4, <3>1, <3>2 DEF StandsFor
  <2>2. \A j \in posts : j \in Nat BY <1>1
  <2>3. \A j \in posts : SameText(j, i) /\ (\A m \in posts : SameText(m, i) => j <= m) => j = x.sample
    <3> HIDE DEF posts
    <3> QED BY <2>1, <2>2
  <2> HIDE DEF posts
  <2> QED BY <2>1, <2>3
<1>8. x = [sample |-> newest(i), count |-> times(i)] BY <1>5, <1>6, <1>7
<1>9. CASE x \in shown BY <1>8, <1>9
<1>10. CASE x \notin shown
  <2>1. A \in [S -> SUBSET S] /\ \A y, z \in S : z \in A[y] <=> Leads(z, y) OBVIOUS
  <2>2. shown \in SUBSET S /\ \A y \in S : y \in shown <=> Cardinality(A[y]) < PatternsPerBand
    BY DEF ShownPatterns
  <2>3. x \in S /\ shown # S BY <1>4, <1>10
  <2> HIDE DEF A
  <2>4. \A y \in S : y.sample \in Nat /\ y.count \in Nat BY <1>5
  <2>5. \A y, z \in S : y = z \/ y.sample # z.sample BY PatternsApart DEF SameText
  <2> HIDE DEF S
  <2>6. /\ \A y \in S : y \notin A[y]
        /\ \A y \in S : \A z \in A[y] : A[z] \subseteq A[y]
        /\ \A y, z \in S : y = z \/ y \in A[z] \/ z \in A[y]
    <3>1. \A y \in S : ~ Leads(y, y) BY <2>4 DEF Leads
    <3>2. \A y, z, w \in S : Leads(y, z) /\ Leads(z, w) => Leads(y, w) BY <2>4 DEF Leads
    <3>3. \A y, z \in S : y = z \/ Leads(y, z) \/ Leads(z, y) BY <2>4, <2>5 DEF Leads
    <3> QED BY <2>1, <3>1, <3>2, <3>3
  <2>7. IsFiniteSet(S) BY PatternsFinite DEF S
  <2>8. PatternsPerBand \in Nat BY FeedAssumption
  <2> HIDE DEF shown
  <2>9. Cardinality(shown) = PatternsPerBand
    BY <2>1, <2>2, <2>3, <2>6, <2>7, <2>8, Foremost
  <2>10. ASSUME NEW y \in shown
         PROVE  \/ times(y.sample) > times(i)
                \/ times(y.sample) = times(i) /\ y.sample < newest(i)
    <3>1. y \in S /\ Cardinality(A[y]) < PatternsPerBand BY <2>2
    <3>2. Leads(y, x)
      <4>1. SUFFICES ASSUME x \in A[y] PROVE FALSE BY <1>10, <2>1, <2>3, <2>6, <3>1
      <4>2. A[x] \subseteq A[y] BY <2>6, <3>1, <4>1
      <4>3. IsFiniteSet(A[y]) BY <2>1, <2>7, <3>1, FS_Subset
      <4>4. /\ Cardinality(A[x]) <= Cardinality(A[y])
            /\ Cardinality(A[x]) \in Nat /\ Cardinality(A[y]) \in Nat
        BY <4>2, <4>3, FS_Subset, FS_CardinalityType
      <4>5. ~ (Cardinality(A[x]) < PatternsPerBand) BY <1>10, <2>2, <2>3
      <4> QED BY <2>8, <3>1, <4>4, <4>5
    <3>3. times(y.sample) = y.count BY <1>5, <3>1 DEF S
    <3> HIDE DEF times, newest
    <3> QED BY <1>6, <1>7, <3>2, <3>3 DEF Leads
  <2> QED BY <2>9, <2>10 DEF shown
<1> QED BY <1>9, <1>10

\* A story has the request of the branch: the link read last is one of those
\* that agree.
LEMMA FeedInvFollows == FeedInv => BranchFollowsItsRequest
<1> SUFFICES ASSUME FeedInv, NEW i \in DOMAIN feedPosts, NEW j \in DOMAIN feedPosts,
                    LinksBranch(feedPosts[i]), OneRequestOf(feedPosts[i].branch),
                    feedPosts[j].mr = "", feedPosts[j].branch = feedPosts[i].branch,
                    feedPosts[j].repo = feedPosts[i].repo
             PROVE  StoryOf(j) = StoryOf(i)
    BY DEF BranchFollowsItsRequest
<1> DEFINE n == Len(feedPosts)
           b == feedPosts[i].branch
           links == {k \in 1 .. n : LinksBranch(feedPosts[k])}
           ofB == {k \in links : feedPosts[k].branch = b}
<1>1. n \in Nat /\ DOMAIN feedPosts = 1 .. n BY LenProperties DEF FeedInv, FeedRead
<1>2. i \in ofB BY <1>1
<1>3. PICK k \in ofB : \A m \in ofB : m <= k
  <2>1. IsFiniteSet(1 .. n) /\ 1 .. n \subseteq Nat
    <3> HIDE DEF n
    <3> QED BY <1>1, UpToFinite
  <2>2. ofB \subseteq 1 .. n OBVIOUS
  <2> HIDE DEF ofB
  <2>3. IsFiniteSet(ofB) /\ ofB \in SUBSET Nat BY <2>1, <2>2, FS_Subset
  <2> QED BY <1>2, <2>3, Largest
<1>4. PICK last \in links : /\ feedPosts[last].branch = b
                            /\ AliasesUpTo(n)[b] = feedPosts[last].mr
  BY <1>2, <1>3 DEF AliasesUpTo
<1>5. b \in DOMAIN AliasesUpTo(n) BY <1>2 DEF AliasesUpTo
<1>6. feedPosts[last].mr = feedPosts[i].mr BY <1>1, <1>4 DEF OneRequestOf
<1>7. StoryOf(i) = <<feedPosts[i].repo, feedPosts[i].mr>> BY DEF StoryOf, LinksBranch
<1>8. StoryOf(j) = <<feedPosts[j].repo, AliasesUpTo(n)[b]>> BY <1>5 DEF StoryOf, Aliases
<1> QED BY <1>4, <1>6, <1>7, <1>8

LEMMA FeedInvTypes == FeedInv => FeedTypeOK
<1> SUFFICES ASSUME FeedInv PROVE FeedTypeOK OBVIOUS
<1>1. FeedRead /\ DOMAIN patterns = Bands BY DEF FeedInv, PatternsOK
<1>2. digested \in Nat BY <1>1, LenProperties DEF FeedRead
<1>3. ASSUME NEW b \in Bands, NEW x \in patterns[b]
      PROVE  x.sample \in 1 .. digested /\ x.count \in 1 .. digested
  <2>1. StandsFor(x, b, digested) BY DEF FeedInv, PatternsOK
  <2> DEFINE A == Alike(b, x.sample, digested)
  <2>2. x.sample \in 1 .. digested /\ x.count = Cardinality(A) BY <2>1 DEF StandsFor
  <2>3. x.sample \in A BY <2>1, <2>2 DEF Alike, SameText, StandsFor
  <2>4. IsFiniteSet(A) /\ Cardinality(A) \in 0 .. digested BY <1>2, AlikeFinite
  <2>5. Cardinality(A) # 0
    <3> HIDE DEF A
    <3> QED BY <2>3, <2>4, FS_EmptySet
  <2> HIDE DEF A
  <2> QED BY <1>2, <2>2, <2>4, <2>5
<1> QED BY <1>1, <1>3 DEF FeedTypeOK, FeedRead

\* The digest of a feed keeps its types.
THEOREM FeedTypeCorrect == FeedSpec => []FeedTypeOK
BY FeedInvariant, FeedInvTypes, PTL

\* Whatever the order of its posts, a branch that is linked to one request is
\* told with it.
THEOREM BranchKeepsItsRequest == FeedSpec => []BranchFollowsItsRequest
BY FeedInvariant, FeedInvFollows, PTL

\* What a feed's digest leaves out of a severity came no more often than all
\* it shows: each pattern has the newest of its posts and counts all of them,
\* and no more are left out than have to be.
THEOREM CommonestStays == FeedSpec => []CommonestShown
BY FeedInvariant, FeedInvShows, PTL
=============================================================================
