---------------------------- MODULE Writes_proofs ----------------------------
(***************************************************************************)
(* Theorems about what the server writes: the canvas delta and the cursor  *)
(* that bounds it, canvas edits, posts with their duplicate guard, the     *)
(* temporary files of the attachment tools, and the export corpus.         *)
(* Each is about the specification of one module, for every value of its   *)
(* constants; the components share no state.                               *)
(***************************************************************************)
EXTENDS MCWrites, WorkspaceCursors_proofs, SequenceTheorems

(***************************************************************************)
(* The canvas delta.                                                       *)
(***************************************************************************)
\* An earlier instant lies in the same second or an earlier one.
LEMMA SecondMonotone ==
    ASSUME NEW s \in Nat, NEW t \in Nat, s <= t
    PROVE  SecondOf(s) \in Nat /\ SecondOf(t) \in Nat /\ SecondOf(s) <= SecondOf(t)
BY DeltaAssumption DEF SecondOf

\* What is known of a pull under way, and of the edits not listed yet: they
\* are the latest of their canvas, and once the pull has its list, an edit
\* from before its start is on it or made in the second of a cursor.
DeltaInv ==
    /\ DeltaTypeOK
    /\ cursorD < instant
    /\ pulling # "no" => started < instant /\ (cursorD = 0 \/ SecondOf(cursorD) \in cuts)
    /\ \A e \in owed : 0 < e[2] /\ e[2] = editedAt[e[1]]
    /\ EditsAreNotPassed
    /\ pulling = "writing" =>
         (partial \/ \A e \in owed : e[2] > started \/ SecondOf(e[2]) \in cuts)

USE DEF deltaVars

\* The first state satisfies the invariant.
LEMMA DeltaInvInit == DeltaInit => DeltaInv
<1> SUFFICES ASSUME DeltaInit PROVE DeltaInv
  OBVIOUS
<1>1. DeltaTypeOK
  BY DeltaAssumption DEF DeltaInit, DeltaTypeOK
<1>2. owed = {} /\ cursorD = 0 /\ pulling = "no" /\ 0 < instant
  BY DeltaAssumption DEF DeltaInit
<1> QED
  BY <1>1, <1>2 DEF DeltaInv, EditsAreNotPassed

\* A list that is neither failed nor cut holds every canvas that was edited
\* after the cursor's second.
LEMMA ListIsWhole ==
    ASSUME DeltaInv, RecentCanvases, ~ partial'
    PROVE  \A e \in owed' : SecondOf(e[2]) \in cuts
<1> SUFFICES ASSUME NEW e \in owed' PROVE SecondOf(e[2]) \in cuts
  OBVIOUS
<1>1. refs' = {d \in There : EditedSince(d)} /\ e \in owed /\ e[1] \notin refs'
  BY DEF RecentCanvases
<1>2. e[1] \in Document /\ e[2] \in Nat /\ 0 < e[2] /\ e[2] = editedAt[e[1]]
  BY <1>1 DEF DeltaInv, DeltaTypeOK
<1>3. cursorD # 0 /\ SecondOf(editedAt[e[1]]) <= SecondOf(cursorD)
  <2>1. ~ EditedSince(e[1])
    BY <1>1, <1>2 DEF There
  <2>2. SecondOf(e[2]) \in Nat /\ SecondOf(cursorD) \in Nat
    BY <1>2, SecondMonotone DEF DeltaInv, DeltaTypeOK
  <2> QED
    BY <1>2, <2>1, <2>2 DEF EditedSince
<1>4. SecondOf(cursorD) \in cuts
  BY <1>3 DEF DeltaInv, RecentCanvases
<1>5. CASE e[2] <= cursorD
  BY <1>1, <1>2, <1>5 DEF DeltaInv, DeltaTypeOK, EditsAreNotPassed, RecentCanvases
<1>6. CASE cursorD < e[2]
  <2>1. SecondOf(cursorD) <= SecondOf(e[2]) /\ SecondOf(cursorD) \in Nat /\ SecondOf(e[2]) \in Nat
    BY <1>2, <1>6, SecondMonotone DEF DeltaInv, DeltaTypeOK
  <2> QED
    BY <1>2, <1>3, <1>4, <2>1
<1> QED
  BY <1>2, <1>5, <1>6 DEF DeltaInv, DeltaTypeOK

\* Every action keeps the invariant.
LEMMA DeltaStep == DeltaInv /\ [DeltaNext]_deltaVars => DeltaInv'
<1> SUFFICES ASSUME DeltaInv, [DeltaNext]_deltaVars PROVE DeltaInv'
  OBVIOUS
<1>1. CASE Elapses
  <2>1. DeltaTypeOK'
    BY <1>1 DEF DeltaInv, DeltaTypeOK, Elapses, EditDocument
  <2>2. instant' = instant + 1 /\ UNCHANGED <<cursorD, pulling, started, cuts, partial>>
    BY <1>1 DEF Elapses
  <2>3. \A e \in owed' : e \in owed \/ e[2] = instant
    BY <1>1 DEF Elapses, EditDocument
  <2>4. \A e \in owed' : 0 < e[2] /\ e[2] = editedAt'[e[1]]
    <3>1. CASE UNCHANGED <<editedAt, owed>>
      BY <3>1 DEF DeltaInv
    <3>2. ASSUME NEW d \in Document, EditDocument(d)
          PROVE  \A e \in owed' : 0 < e[2] /\ e[2] = editedAt'[e[1]]
      BY <3>2 DEF DeltaInv, DeltaTypeOK, EditDocument
    <3> QED
      BY <1>1, <3>1, <3>2 DEF Elapses
  <2> QED
    BY <2>1, <2>2, <2>3, <2>4 DEF DeltaInv, DeltaTypeOK, EditsAreNotPassed
<1>2. CASE StartPull
  <2>1. SecondOf(cursorD) \in Nat
    BY SecondMonotone DEF DeltaInv, DeltaTypeOK
  <2>2. cuts \subseteq cuts' /\ cuts' \subseteq Nat /\ (cursorD = 0 \/ SecondOf(cursorD) \in cuts')
    BY <1>2, <2>1 DEF DeltaInv, DeltaTypeOK, StartPull
  <2>3. EditsAreNotPassed'
    BY <1>2, <2>2 DEF DeltaInv, StartPull, EditsAreNotPassed
  <2> QED
    BY <1>2, <2>2, <2>3 DEF DeltaInv, DeltaTypeOK, StartPull
<1>3. CASE RecentCanvases
  <2>1. DeltaTypeOK'
    BY <1>3 DEF DeltaInv, DeltaTypeOK, RecentCanvases, Latest, ListedPage, There
  <2>2. owed' \subseteq owed /\ UNCHANGED <<instant, editedAt, cursorD, started, cuts>>
    BY <1>3 DEF RecentCanvases
  <2>3. pulling = "listing" /\ (partial => partial')
    BY <1>3 DEF RecentCanvases
  <2> QED
    BY <1>3, <2>1, <2>2, <2>3, ListIsWhole DEF DeltaInv, EditsAreNotPassed
<1>4. CASE ListFails
  BY <1>4 DEF DeltaInv, DeltaTypeOK, ListFails, EditsAreNotPassed
<1>5. CASE WriteSummary
  <2>1. cursorD' = cursorD \/ cursorD' \in cursorD .. started
    BY <1>5 DEF WriteSummary, NextCursor
  <2>2. cursorD' \in Nat /\ cursorD' < instant
    BY <1>5, <2>1 DEF DeltaInv, DeltaTypeOK, WriteSummary
  <2>3. EditsAreNotPassed'
    BY <1>5, <2>1 DEF DeltaInv, DeltaTypeOK, WriteSummary, EditsAreNotPassed
  <2> QED
    BY <1>5, <2>2, <2>3 DEF DeltaInv, DeltaTypeOK, WriteSummary
<1>6. CASE UNCHANGED deltaVars
  BY <1>6 DEF DeltaInv, DeltaTypeOK, EditsAreNotPassed, There
<1> QED
  BY <1>1, <1>2, <1>3, <1>4, <1>5, <1>6 DEF DeltaNext

\* The cursor moves past a canvas edit only after some pull has listed that
\* canvas, unless a list failed or was cut, or the edit was made in the very
\* second of a cursor (canvas_delta.go, canvas_recent.go).
THEOREM NoEditIsPassed == DeltaSpec => []EditsAreNotPassed
<1>1. DeltaInv => EditsAreNotPassed
  BY DEF DeltaInv
<1> QED
  BY <1>1, DeltaInvInit, DeltaStep, PTL DEF DeltaSpec

-----------------------------------------------------------------------------
(***************************************************************************)
(* Posting, with the guard against a second post of the same text.         *)
(***************************************************************************)
\* A call under way has not posted: every post of its caller is from an
\* earlier call.
PostedEarlier ==
    \A m \in room :
        /\ m.ts < moment
        /\ m.who \in Caller =>
             /\ m.call <= calls[m.who]
             /\ doing[m.who] # "ready" => m.call < calls[m.who]

\* With the user token callers post as the operator, and a call that the guard
\* let through after seeing the whole window has no post of its caller in it.
GuardSaw ==
    /\ \A c \in Caller : sighted[c] => doing[c] = "posting"
    /\ tokens = "user" => \A m \in room :
         m.who \in Caller =>
             /\ m.by = "self"
             /\ sighted[m.who] /\ ~ m.thread => moment - m.ts > SkipWindow

PostInv ==
    PostTypeOK /\ PostedEarlier /\ GuardSaw /\ RetriesDoNotRepeat /\ OnePostPerCall

USE DEF postVars

\* The first state satisfies the invariant.
LEMMA PostInvInit == PostInit => PostInv
<1> SUFFICES ASSUME PostInit PROVE PostInv
  OBVIOUS
<1>1. PostTypeOK
  BY PostAssumption DEF PostInit, PostTypeOK, NoRequest, Request
<1>2. room = {} /\ \A c \in Caller : ~ sighted[c]
  BY DEF PostInit
<1> QED
  BY <1>1, <1>2 DEF PostInv, PostedEarlier, GuardSaw, RetriesDoNotRepeat, OnePostPerCall

\* Whoever else posts, and time that passes, leave the calls as they were.
LEMMA OthersPost ==
    ASSUME PostInv, Passes, UNCHANGED <<tokens, doing, postRequest, tries, calls, sighted>>,
           \A m \in room' : m \in room \/ (m \in Note /\ m.ts = moment /\ m.who = Somebody /\ ~ m.sure)
    PROVE  PostInv'
<1>1. moment \in Nat /\ moment' = moment + 1
  BY DEF PostInv, PostTypeOK, Passes
<1>2. \A m \in room : m \in Note /\ m.ts \in Nat
  BY DEF PostInv, PostTypeOK, Note
<1>3. PostTypeOK'
  BY <1>1, <1>2 DEF PostInv, PostTypeOK
<1>4. PostedEarlier'
  BY <1>1, <1>2, PostAssumption DEF PostInv, PostedEarlier
<1>5. GuardSaw'
  BY <1>1, <1>2, PostAssumption DEF PostInv, GuardSaw
<1>6. RetriesDoNotRepeat'
  BY DEF PostInv, RetriesDoNotRepeat
<1>7. OnePostPerCall'
  BY PostAssumption DEF PostInv, OnePostPerCall
<1> QED
  BY <1>3, <1>4, <1>5, <1>6, <1>7 DEF PostInv

\* A call that returns is forgotten.
LEMMA ReturnKeeps ==
    ASSUME PostInv, NEW c \in Caller, Returned(c), UNCHANGED <<room, moment>>
    PROVE  PostInv'
<1>1. PostTypeOK'
  BY DEF PostInv, PostTypeOK, Returned, NoRequest, Request
<1>2. PostedEarlier'
  BY DEF PostInv, PostTypeOK, PostedEarlier, Returned
<1>3. GuardSaw'
  BY DEF PostInv, PostTypeOK, GuardSaw, Returned
<1> QED
  BY <1>1, <1>2, <1>3 DEF PostInv, RetriesDoNotRepeat, OnePostPerCall, Returned

\* The post of a call goes out: it is the first of that call, and the posts of
\* its caller that the guard has seen are outside the window.
LEMMA PostGoesOut ==
    ASSUME PostInv, NEW c \in Caller, PostText(c)
    PROVE  PostInv'
<1> DEFINE new == [ts |-> moment, thread |-> postRequest[c].thread, by |-> PostedAs,
                   who |-> c, call |-> calls[c], sure |-> sighted[c]]
<1>1. /\ doing[c] = "posting" /\ room' = room \cup {new}
      /\ moment' = moment + 1 /\ Returned(c)
  BY DEF PostText, Arrives, Passes, AnswerPost
<1>2. /\ moment \in Nat /\ calls[c] \in Nat /\ sighted[c] \in BOOLEAN
      /\ postRequest[c].thread \in BOOLEAN /\ PostedAs \in {"self", "bot"}
  BY DEF PostInv, PostTypeOK, Request, PostedAs
<1>3. new \in Note
  BY <1>2 DEF Note
<1>4. \A m \in room : m.ts < moment /\ m.ts \in Nat
  BY DEF PostInv, PostTypeOK, PostedEarlier, Note
<1>5. PostTypeOK'
  BY <1>1, <1>2, <1>3 DEF PostInv, PostTypeOK, Returned, NoRequest, Request
<1>6. PostedEarlier'
  BY <1>1, <1>2, <1>4 DEF PostInv, PostTypeOK, PostedEarlier, Returned
<1>7. GuardSaw'
  <2>1. \A d \in Caller : sighted'[d] => sighted[d] /\ d # c /\ doing'[d] = doing[d]
    BY <1>1 DEF PostInv, PostTypeOK, Returned
  <2>2. tokens = "user" => new.by = "self"
    BY DEF PostedAs
  <2>3. tokens' = tokens /\ moment' = moment + 1
    BY <1>1 DEF Returned
  <2> QED
    BY <1>1, <1>2, <1>4, <2>1, <2>2, <2>3, PostAssumption DEF PostInv, GuardSaw
<1>8. RetriesDoNotRepeat'
  <2> SUFFICES ASSUME tokens = "user", NEW m \in room', NEW n \in room',
                      m.who = n.who, m.sure, n.sure, ~ m.thread, m.ts < n.ts
               PROVE  n.ts - m.ts > SkipWindow
    BY <1>1 DEF RetriesDoNotRepeat, Returned
  <2>1. CASE m \in room /\ n \in room
    BY <2>1 DEF PostInv, RetriesDoNotRepeat
  <2>2. CASE n = new /\ m \in room
    BY <2>2 DEF PostInv, GuardSaw
  <2>3. CASE m = new
    BY <1>1, <1>2, <1>4, <2>3
  <2> QED
    BY <1>1, <2>1, <2>2, <2>3
<1>9. OnePostPerCall'
  BY <1>1, <1>2 DEF PostInv, PostTypeOK, Note, PostedEarlier, OnePostPerCall
<1> QED
  BY <1>5, <1>6, <1>7, <1>8, <1>9 DEF PostInv

\* Every action keeps the invariant.
LEMMA PostStep == PostInv /\ [PostNext]_postVars => PostInv'
<1> SUFFICES ASSUME PostInv, [PostNext]_postVars PROVE PostInv'
  OBVIOUS
<1>1. ASSUME NEW by \in {"self", "other"}, SomebodyPosts(by) PROVE PostInv'
  <2> DEFINE theirs == [ts |-> moment, thread |-> FALSE, by |-> by,
                        who |-> Somebody, call |-> 0, sure |-> FALSE]
  <2>1. theirs \in Note /\ theirs.ts = moment /\ theirs.who = Somebody /\ theirs.sure = FALSE
    BY DEF PostInv, PostTypeOK, Note
  <2>2. Passes /\ room' = room \cup {theirs} /\ UNCHANGED <<tokens, doing, postRequest, tries, calls, sighted>>
    BY <1>1 DEF SomebodyPosts
  <2> HIDE DEF theirs
  <2>3. \A m \in room' : m \in room \/ (m \in Note /\ m.ts = moment /\ m.who = Somebody /\ ~ m.sure)
    BY <2>1, <2>2
  <2> QED
    BY <2>2, <2>3, OthersPost
<1>2. CASE TimePasses
  BY <1>2, OthersPost DEF TimePasses
<1>3. ASSUME NEW c \in Caller, NEW r \in Request, CallPost(c, r) PROVE PostInv'
  <2>1. PostTypeOK'
    BY <1>3, PostAssumption DEF PostInv, PostTypeOK, CallPost
  <2>2. PostedEarlier'
    <3>1. calls[c] \in Nat /\ doing[c] = "ready" /\ UNCHANGED <<room, moment>>
      BY <1>3 DEF PostInv, PostTypeOK, CallPost
    <3>2. \A d \in Caller : /\ calls'[d] = IF d = c THEN calls[c] + 1 ELSE calls[d]
                            /\ d # c => doing'[d] = doing[d]
      BY <1>3 DEF PostInv, PostTypeOK, CallPost
    <3>3. \A m \in room : m.call \in Nat
      BY DEF PostInv, PostTypeOK, Note
    <3> QED
      BY <3>1, <3>2, <3>3 DEF PostInv, PostedEarlier
  <2>3. GuardSaw'
    BY <1>3 DEF PostInv, PostTypeOK, GuardSaw, CallPost
  <2> QED
    BY <1>3, <2>1, <2>2, <2>3 DEF PostInv, RetriesDoNotRepeat, OnePostPerCall, CallPost
<1>4. ASSUME NEW c \in Caller, PostUnchecked(c) PROVE PostInv'
  <2>1. PostTypeOK' /\ PostedEarlier'
    BY <1>4 DEF PostInv, PostTypeOK, PostedEarlier, PostUnchecked
  <2>2. GuardSaw'
    BY <1>4 DEF PostInv, PostTypeOK, GuardSaw, PostUnchecked
  <2> QED
    BY <1>4, <2>1, <2>2 DEF PostInv, RetriesDoNotRepeat, OnePostPerCall, PostUnchecked
<1>5. ASSUME NEW c \in Caller, CheckRecent(c) PROVE PostInv'
  <2>1. CASE Returned(c)
    BY <1>5, <2>1, ReturnKeeps DEF CheckRecent
  <2>2. CASE /\ {m \in Recent : Identical(m)} = {} /\ doing' = [doing EXCEPT ![c] = "posting"]
             /\ sighted' = [sighted EXCEPT ![c] = WholeWindowRead]
             /\ UNCHANGED <<tokens, postRequest, tries, calls>>
    <3>1. UNCHANGED <<room, moment>> /\ doing[c] = "checking"
      BY <1>5 DEF CheckRecent
    <3>2. PostTypeOK' /\ PostedEarlier'
      BY <2>2, <3>1 DEF PostInv, PostTypeOK, PostedEarlier, WholeWindowRead
    <3>3. ASSUME tokens = "user", WholeWindowRead, NEW m \in room, m.who = c, ~ m.thread
          PROVE  moment - m.ts > SkipWindow
      <4>1. m.by = "self" /\ m.ts \in Nat /\ moment \in Nat
        BY <3>3 DEF PostInv, PostTypeOK, GuardSaw, Note
      <4>2. m.ts >= moment - SkipWindow => m \in Recent
        BY <3>3 DEF WholeWindowRead, TopPosts
      <4> QED
        BY <2>2, <4>1, <4>2, PostAssumption DEF Identical
    <3>4. GuardSaw'
      BY <2>2, <3>1, <3>3 DEF PostInv, PostTypeOK, GuardSaw
    <3> QED
      BY <2>2, <3>1, <3>2, <3>4 DEF PostInv, RetriesDoNotRepeat, OnePostPerCall
  <2> QED
    BY <1>5, <2>1, <2>2 DEF CheckRecent
<1>6. ASSUME NEW c \in Caller, PostText(c) PROVE PostInv'
  BY <1>6, PostGoesOut
<1>7. ASSUME NEW c \in Caller, PostRefused(c) PROVE PostInv'
  BY <1>7, ReturnKeeps DEF PostRefused, AnswerPost
<1>8. ASSUME NEW c \in Caller, PostLimited(c) PROVE PostInv'
  <2>1. PostTypeOK'
    BY <1>8 DEF PostInv, PostTypeOK, PostLimited
  <2> QED
    BY <1>8, <2>1 DEF PostInv, PostedEarlier, GuardSaw, RetriesDoNotRepeat, OnePostPerCall, PostLimited
<1>9. ASSUME NEW m \in room, DeleteMessage(m) PROVE PostInv'
  BY <1>9 DEF PostInv, PostTypeOK, PostedEarlier, GuardSaw, RetriesDoNotRepeat, OnePostPerCall, DeleteMessage
<1>10. CASE UNCHANGED postVars
  BY <1>10 DEF PostInv, PostTypeOK, PostedEarlier, GuardSaw, RetriesDoNotRepeat, OnePostPerCall
<1> QED
  BY <1>1, <1>2, <1>3, <1>4, <1>5, <1>6, <1>7, <1>8, <1>9, <1>10 DEF PostNext

\* Neither the retries of a caller nor those of the client post a text twice
\* (skip_if_recent and the single try of chat.postMessage, threads.go).
THEOREM NothingIsPostedTwice == PostSpec => []NoSecondPost
<1>1. PostInv => NoSecondPost
  BY DEF PostInv, NoSecondPost
<1> QED
  BY <1>1, PostInvInit, PostStep, PTL DEF PostSpec

-----------------------------------------------------------------------------
(***************************************************************************)
(* Canvas edits.                                                           *)
(***************************************************************************)
\* Of some canvases one is the newest.
LEMMA NewestIsOne ==
    ASSUME NEW S \in SUBSET Canvas, S # {}
    PROVE  Newest(S) \in S
<1> DEFINE After(k) == {l \in S : Created[l] > Created[k]}
           T == {After(k) : k \in S}
<1>1. IsWellFoundedOn(StrictSubsetOrdering(Canvas), FiniteSubsetsOf(Canvas))
  BY FS_StrictSubsetOrderingWellFounded
<1>2. T \subseteq FiniteSubsetsOf(Canvas) /\ T # {}
  <2>1. FiniteSubsetsOf(Canvas) = SUBSET Canvas
    BY CanvasAssumption, FS_FiniteSubsetsOfFinite
  <2>2. T \subseteq SUBSET Canvas /\ T # {}
    OBVIOUS
  <2> QED
    BY <2>1, <2>2
<1>3. PICK x \in T : \A y \in T : ~ (<<y, x>> \in StrictSubsetOrdering(Canvas))
  BY <1>1, <1>2, WFMin
<1>4. PICK k \in S : x = After(k)
  BY <1>2
<1>5. ASSUME NEW l \in S, Created[l] > Created[k] PROVE FALSE
  <2>1. After(l) \in SUBSET Canvas /\ x \in SUBSET Canvas
    BY <1>4
  <2>2. After(l) \subseteq x /\ l \in x /\ l \notin After(l)
    BY <1>4, <1>5, CanvasAssumption
  <2>3. <<After(l), x>> \in StrictSubsetOrdering(Canvas)
    BY <2>1, <2>2 DEF StrictSubsetOrdering
  <2> QED
    BY <1>3, <2>3
<1>6. \A l \in S : Created[l] <= Created[k]
  BY <1>5, CanvasAssumption
<1> QED
  BY <1>6 DEF Newest

\* A set with one element that holds another such set is that set.
LEMMA OneInOne ==
    ASSUME NEW S, IsFiniteSet(S), Cardinality(S) = 1, NEW T \in SUBSET S, Cardinality(T) = 1
    PROVE  \E s \in S : S = {s} /\ T = {s}
<1>1. IsFiniteSet(T)
  BY FS_Subset
<1>2. PICK s : S = {s}
  BY FS_Singleton
<1>3. PICK t : T = {t}
  BY <1>1, FS_Singleton
<1> QED
  BY <1>2, <1>3

\* A call by channel that goes past the tab has asked every identity for it.
TabSought ==
    order.via = "channel" =>
        /\ canvasStep = "tab" =>
             refused \/ \A i \in Identities : i \in unasked \/ tab \notin views[i]
        /\ canvasStep = "files" => \A i \in Identities : tab \notin views[i]
        /\ canvasStep = "info" => target = tab

\* The section an edit is for is the only one that held the text.
SectionFound ==
    /\ canvasStep \in {"info", "lookup", "edit"} => target \in Canvas
    /\ canvasStep = "edit" =>
         section = {} \/ \E s \in SectionsOf[target] : section = {s} /\ alike = {s}

CanvasInv == CanvasTypeOK /\ TabSought /\ TheTabIsTheTarget /\ SectionFound

USE DEF canvasVars, canvasWorld, picking

\* The first state satisfies the invariant.
LEMMA CanvasInvInit == CanvasInit => CanvasInv
<1> SUFFICES ASSUME CanvasInit PROVE CanvasInv
  OBVIOUS
<1>1. CanvasTypeOK
  BY DEF CanvasInit, CanvasTypeOK, NoOrder, Order, Operations, Content
<1> QED
  BY <1>1 DEF CanvasInit, CanvasInv, TabSought, TheTabIsTheTarget, SectionFound

\* A call that ends is forgotten.
LEMMA GiveKeeps ==
    ASSUME CanvasInv, Give, UNCHANGED <<tab, shared, views>>, body' \in [Section -> Content]
    PROVE  CanvasInv'
<1>1. CanvasTypeOK'
  BY DEF CanvasInv, CanvasTypeOK, Give, NoOrder, Order, Operations, Identities
<1> QED
  BY <1>1 DEF CanvasInv, TabSought, TheTabIsTheTarget, SectionFound, Give

\* What others do to sections does not touch the call.
LEMMA OthersEditKeeps == ASSUME CanvasInv, OthersEdit PROVE CanvasInv'
<1>1. CanvasTypeOK'
  BY DEF CanvasInv, CanvasTypeOK, OthersEdit, Content, Identities
<1> QED
  BY <1>1 DEF CanvasInv, OthersEdit, TabSought, TheTabIsTheTarget, SectionFound, Identities

\* The question for the tab goes from one identity to the next.
LEMMA FindTabKeeps == ASSUME CanvasInv, FindTab PROVE CanvasInv'
<1> DEFINE i == NextAsked(PrimaryFirst)
<1>1. i \in unasked
  BY DEF FindTab, NextAsked
<1>2. unasked \subseteq Identities /\ canvasStep = "tab" /\ UNCHANGED <<body, tab, shared, views, order, section, alike>>
  BY DEF CanvasInv, CanvasTypeOK, FindTab
<1>3. tab \in views[i] => tab \in Canvas
  BY <1>1, <1>2, CanvasAssumption DEF CanvasInv, CanvasTypeOK, Identities
<1>4. CASE tab \in views[i] /\ TabFound /\ UNCHANGED refused
  <2>1. CanvasTypeOK'
    BY <1>2, <1>3, <1>4 DEF CanvasInv, CanvasTypeOK, TabFound, Identities
  <2> QED
    BY <1>2, <1>3, <1>4, <2>1
       DEF CanvasInv, CanvasTypeOK, TabSought, TheTabIsTheTarget, SectionFound, TabFound, Identities, Order
<1>5. CASE /\ (tab \notin views[i] /\ UNCHANGED refused) \/ refused' = TRUE
           /\ unasked' = unasked \ {i} /\ UNCHANGED <<canvasStep, candidates, target>>
  <2>1. CanvasTypeOK'
    BY <1>2, <1>5 DEF CanvasInv, CanvasTypeOK, Identities
  <2> QED
    BY <1>2, <1>5, <2>1 DEF CanvasInv, TabSought, TheTabIsTheTarget, SectionFound, Identities
<1> QED
  BY <1>4, <1>5 DEF FindTab

\* Without a tab the files are listed, unless an identity failed.
LEMMA NoTabFoundKeeps == ASSUME CanvasInv, NoTabFound PROVE CanvasInv'
<1>1. CASE Give
  BY <1>1, GiveKeeps DEF NoTabFound, CanvasInv, CanvasTypeOK
<1>2. CASE ~ TabUnknown /\ ~ Give
  <2>1. /\ canvasStep = "tab" /\ unasked = {} /\ order.via = "channel" /\ ~ refused
        /\ canvasStep' = "files" /\ unasked' = Identities /\ refused' = FALSE
        /\ UNCHANGED <<body, tab, shared, views, order, candidates, target, section, alike>>
    BY <1>2 DEF NoTabFound, TabUnknown
  <2>2. CanvasTypeOK'
    BY <2>1 DEF CanvasInv, CanvasTypeOK, Identities
  <2> QED
    BY <2>1, <2>2 DEF CanvasInv, TabSought, TheTabIsTheTarget, SectionFound, Identities
<1> QED
  BY <1>1, <1>2 DEF NoTabFound

\* A call starts with what it was given.
LEMMA CallCanvasKeeps == ASSUME CanvasInv, NEW o \in Order, CallCanvas(o) PROVE CanvasInv'
<1>1. o.via \in {"id", "channel", "match"}
  BY DEF Order
<1>2. CASE o.via = "id"
  <2>1. canvasStep' = "info" /\ target' \in Canvas
    BY <1>2 DEF CallCanvas
  <2>2. CanvasTypeOK'
    BY <2>1 DEF CanvasInv, CanvasTypeOK, CallCanvas, Identities
  <2> QED
    BY <1>2, <2>1, <2>2 DEF CanvasInv, CallCanvas, TabSought, TheTabIsTheTarget, SectionFound
<1>3. CASE o.via # "id"
  <2>1. canvasStep' = (IF o.via = "channel" THEN "tab" ELSE "files") /\ target' = NoCanvas
    BY <1>1, <1>3 DEF CallCanvas
  <2>2. CanvasTypeOK'
    BY <2>1 DEF CanvasInv, CanvasTypeOK, CallCanvas, Identities
  <2> QED
    BY <1>3, <2>1, <2>2 DEF CanvasInv, CallCanvas, TabSought, TheTabIsTheTarget, SectionFound, Identities
<1> QED
  BY <1>2, <1>3

\* The canvases of the workspace, listed without a filter.
LEMMA ListFilesKeeps == ASSUME CanvasInv, ListFiles PROVE CanvasInv'
<1> DEFINE i == NextAsked("user")
           page == PageOf(shared \cap views[i])
<1>1. /\ canvasStep = "files" /\ unasked # {}
      /\ UNCHANGED <<body, tab, shared, views, canvasStep, order, target, section, alike>>
  BY DEF ListFiles
<1>2. page \subseteq Canvas
  BY DEF CanvasInv, CanvasTypeOK, PageOf
<1>3. CanvasTypeOK'
  BY <1>1, <1>2 DEF ListFiles, CanvasInv, CanvasTypeOK, Identities
<1> QED
  BY <1>1, <1>3 DEF CanvasInv, TabSought, TheTabIsTheTarget, SectionFound, Identities

\* What the listing leaves: candidates of a title, or no canvas at all.
LEMMA FilesListedKeeps == ASSUME CanvasInv, FilesListed PROVE CanvasInv'
<1>1. CASE Give
  BY <1>1, GiveKeeps DEF FilesListed, CanvasInv, CanvasTypeOK
<1>2. canvasStep = "files" /\ UNCHANGED <<body, tab, shared, views>>
  BY DEF FilesListed
<1>3. CASE order.via = "match" /\ canvasStep' = "tab" /\ unasked' = Identities
           /\ UNCHANGED <<order, refused, candidates, target, section, alike>>
  <2>1. CanvasTypeOK'
    BY <1>2, <1>3 DEF CanvasInv, CanvasTypeOK, Identities
  <2> QED
    BY <1>2, <1>3, <2>1 DEF CanvasInv, TabSought, TheTabIsTheTarget, SectionFound
<1>4. CASE order.via = "channel" /\ candidates # {} /\ canvasStep' = "lookup" /\ target' = Newest(candidates)
           /\ UNCHANGED <<order, unasked, refused, candidates, section, alike>>
  <2>1. target' \in Canvas
    BY <1>4, NewestIsOne DEF CanvasInv, CanvasTypeOK
  <2>2. CanvasTypeOK'
    BY <1>2, <1>4, <2>1 DEF CanvasInv, CanvasTypeOK, Identities
  <2> QED
    BY <1>2, <1>4, <2>1, <2>2 DEF CanvasInv, TabSought, TheTabIsTheTarget, SectionFound, Identities
<1> QED
  BY <1>1, <1>3, <1>4 DEF FilesListed

\* One candidate is taken.
LEMMA SelectKeeps == ASSUME CanvasInv, Select PROVE CanvasInv'
<1>1. CASE Give
  BY <1>1, GiveKeeps DEF Select, CanvasInv, CanvasTypeOK
<1>2. CASE canvasStep' = "lookup" /\ target' \in candidates
           /\ UNCHANGED <<order, unasked, refused, candidates, section, alike>>
  <2>1. order.via = "match" /\ target' \in Canvas /\ UNCHANGED <<body, tab, shared, views>>
    BY <1>2 DEF Select, CanvasInv, CanvasTypeOK
  <2>2. CanvasTypeOK'
    BY <1>2, <2>1 DEF CanvasInv, CanvasTypeOK, Identities
  <2> QED
    BY <1>2, <2>1, <2>2 DEF CanvasInv, TabSought, TheTabIsTheTarget, SectionFound
<1> QED
  BY <1>1, <1>2 DEF Select

\* The lookup finds the one section that holds the text, or there is no edit.
LEMMA LookupKeeps == ASSUME CanvasInv, Lookup PROVE CanvasInv'
<1> DEFINE holders == {s \in SectionsOf[target] : body[s] = order.contains}
<1>1. CASE Give
  BY <1>1, GiveKeeps DEF Lookup, CanvasInv, CanvasTypeOK
<1>2. CASE ~ Give
  <2>1. /\ order.contains = "any" \/ Unique(holders)
        /\ section' \in {f \in SUBSET holders : Cardinality(f) = (IF holders = {} THEN 0 ELSE 1)}
        /\ alike' = holders /\ canvasStep' = "edit" /\ UNCHANGED <<order, unasked, refused, candidates, target>>
        /\ canvasStep = "lookup" /\ UNCHANGED <<body, tab, shared, views>>
    BY <1>2 DEF Lookup
  <2>2. target \in Canvas /\ SectionsOf[target] \subseteq Section /\ IsFiniteSet(SectionsOf[target])
    BY <2>1, CanvasAssumption DEF CanvasInv, SectionFound, Section
  <2>3. IsFiniteSet(holders) /\ holders \subseteq SectionsOf[target] /\ section' \in SUBSET holders
    BY <2>1, <2>2, FS_Subset
  <2>4. CanvasTypeOK'
    BY <2>1, <2>2, <2>3 DEF CanvasInv, CanvasTypeOK, Identities
  <2>5. section' = {} \/ \E s \in SectionsOf[target] : section' = {s} /\ alike' = {s}
    <3>1. CASE holders = {}
      BY <2>3, <3>1
    <3>2. CASE holders # {}
      <4>1. order.contains # "any"
        <5>1. PICK s \in Section : body[s] = order.contains
          BY <2>2, <3>2
        <5> QED
          BY <5>1, CanvasAssumption DEF CanvasInv, CanvasTypeOK, Content
      <4>2. Cardinality(holders) = 1 /\ Cardinality(section') = 1
        BY <2>1, <3>2, <4>1 DEF Unique
      <4>3. PICK s \in holders : holders = {s} /\ section' = {s}
        BY <2>3, <4>2, OneInOne
      <4> QED
        BY <2>1, <2>3, <4>3
    <3> QED
      BY <3>1, <3>2
  <2>6. SectionFound'
    BY <2>1, <2>2, <2>5 DEF SectionFound
  <2>7. TabSought' /\ TheTabIsTheTarget'
    BY <2>1 DEF CanvasInv, TabSought, TheTabIsTheTarget, Identities
  <2> QED
    BY <2>4, <2>6, <2>7 DEF CanvasInv
<1> QED
  BY <1>1, <1>2

\* Every action keeps the invariant.
LEMMA CanvasStepKeeps == CanvasInv /\ [CanvasNext]_canvasVars => CanvasInv'
<1> SUFFICES ASSUME CanvasInv, [CanvasNext]_canvasVars PROVE CanvasInv'
  OBVIOUS
<1>1. CASE FileInfo
  <2>1. CanvasTypeOK'
    BY <1>1 DEF FileInfo, CanvasInv, CanvasTypeOK, Identities
  <2> QED
    BY <1>1, <2>1 DEF FileInfo, CanvasInv, TabSought, TheTabIsTheTarget, SectionFound, Identities
<1>2. CASE Fail \/ Download
  BY <1>2, GiveKeeps DEF Fail, Download, CanvasInv, CanvasTypeOK
<1>3. CASE EditCanvas
  <2>1. body' \in [Section -> Content]
    BY <1>3 DEF EditCanvas, CanvasInv, CanvasTypeOK, Content
  <2> QED
    BY <1>3, <2>1, GiveKeeps DEF EditCanvas
<1>4. CASE UNCHANGED canvasVars
  BY <1>4 DEF CanvasInv, CanvasTypeOK, TabSought, TheTabIsTheTarget, SectionFound, Identities
<1> QED
  BY <1>1, <1>2, <1>3, <1>4, OthersEditKeeps, FindTabKeeps, NoTabFoundKeeps, CallCanvasKeeps,
     ListFilesKeeps, FilesListedKeeps, SelectKeeps, LookupKeeps DEF CanvasNext

\* The invariant holds throughout.
LEMMA CanvasInvariant == CanvasSpec => []CanvasInv
BY CanvasInvInit, CanvasStepKeeps, PTL DEF CanvasSpec

\* A call that names only a channel works on its tab when any identity sees it
\* (canvas.go, channelCanvas).
THEOREM ChannelMeansItsTab == CanvasSpec => []TheTabIsTheTarget
<1>1. CanvasInv => TheTabIsTheTarget
  BY DEF CanvasInv
<1> QED
  BY <1>1, CanvasInvariant, PTL

\* An edit removes only the section whose text was asked for and that alone
\* held it at the lookup, or everything when asked to (canvas_edit.go).
THEOREM OnlyThatSectionChanges == CanvasSpec => OnlyTheSectionAskedFor
<1> DEFINE Kept ==
      (canvasStep = "edit" /\ canvasStep' = "idle") =>
         \A s \in Section : (Written(body[s]) /\ body'[s] # body[s]) =>
             /\ s \in SectionsOf[target]
             /\ \/ ReplacesAll(order)
                \/ alike = {s}
<1>1. CanvasInv /\ [CanvasNext]_canvasVars => [Kept]_canvasVars
  <2> SUFFICES ASSUME CanvasInv, CanvasNext, canvasStep = "edit", canvasStep' = "idle",
                      NEW s \in Section, Written(body[s]), body'[s] # body[s]
               PROVE  s \in SectionsOf[target] /\ (ReplacesAll(order) \/ alike = {s})
    OBVIOUS
  <2>1. EditCanvas
    BY DEF CanvasNext, OthersEdit, CallCanvas, FindTab, NoTabFound, ListFiles, FilesListed, Select,
           FileInfo, Fail, Download, Lookup
  <2>2. s \in Removed
    BY <2>1 DEF EditCanvas, Added, Written
  <2>3. CASE ReplacesAll(order)
    BY <2>2, <2>3 DEF Removed
  <2>4. CASE ~ ReplacesAll(order)
    <3>1. s \in section
      BY <2>2, <2>4 DEF Removed
    <3> QED
      BY <3>1 DEF CanvasInv, SectionFound
  <2> QED
    BY <2>3, <2>4
<1> QED
  BY <1>1, CanvasInvariant, PTL DEF CanvasSpec, OnlyTheSectionAskedFor
----------------------------------------------------------------------------
(***************************************************************************)
(* Temporary files of the attachment tools.                                *)
(***************************************************************************)
PathOf(prefix, a) == <<prefix, a, NameOf(a)>>

\* What a state of the directory holds at a path.
Held(d, p) == IF p \in DOMAIN d THEN d[p] ELSE [by |-> "nobody", body |-> "gone"]

\* What a call works with is its own: every file is still to come, open, or
\* saved, and a call that is not under way has none.
OwnFiles ==
    \A c \in FileCall :
        /\ filesLeft[c] \cap (open[c] \cup saved[c]) = {} /\ open[c] \cap saved[c] = {}
        /\ \A a, b \in open[c] : a = b
        /\ ~ Busy(c) => filesLeft[c] = {} /\ open[c] = {} /\ saved[c] = {}

\* A file that nobody else has taken up since is the call's own, and whole once
\* it has been saved.
Undisturbed ==
    \A c \in FileCall :
        /\ \A a \in open[c] \ disturbed[c] : Held(disk, TempPath(toolOf[c], a)).by = c
        /\ \A a \in saved[c] \ disturbed[c] : Held(disk, TempPath(toolOf[c], a)).body = "file"

\* What was handed out is named, and every file has somebody who answers for it.
AnsweredFor ==
    /\ \A h \in handed : h.path = PathOf(h.prefix, h.file)
    /\ ~ spoiled => \A p \in DOMAIN disk :
         \/ \E h \in handed : h.path = p
         \/ \E c \in FileCall : \E a \in open[c] \cup saved[c] : p = TempPath(toolOf[c], a)

\* A path given out holds the whole file until another call takes that file up,
\* and what a tool read was whole.
WholeFiles ==
    /\ \A h \in handed : ~ h.shared => Held(disk, h.path).body = "file"
    /\ \A t \in taken : t.body = "file"

FilesInv == FileTypeOK /\ OwnFiles /\ Undisturbed /\ AnsweredFor /\ WholeFiles

USE DEF fileVars

\* Two files have one path when they are one file under one prefix.
LEMMA PathsApart ==
    \A t, u \in FileTool, a, b \in Attachment :
        TempPath(t, a) = TempPath(u, b) <=> TempPrefix(t) = TempPrefix(u) /\ a = b
BY DEF TempPath

\* The first state satisfies the invariant.
LEMMA FilesInvInit == FileInit => FilesInv
<1> SUFFICES ASSUME FileInit PROVE FilesInv
  OBVIOUS
<1>1. DOMAIN disk = {} /\ handed = {} /\ taken = {}
  BY DEF FileInit
<1>2. FileTypeOK
  BY <1>1 DEF FileInit, FileTypeOK
<1> QED
  BY <1>1, <1>2 DEF FileInit, FilesInv, OwnFiles, Busy, Undisturbed, AnsweredFor, WholeFiles

\* A call that takes up a file disturbs whoever else has it, and nobody else.
LEMMA Disturbs ==
    ASSUME FilesInv, NEW c \in FileCall, NEW a \in Attachment, Busy(c), Disturb(c, a)
    PROVE  /\ disturbed' \in [FileCall -> SUBSET Attachment]
           /\ disturbed'[c] = disturbed[c]
           /\ \A d \in FileCall : disturbed[d] \subseteq disturbed'[d]
           /\ \A d \in FileCall \ {c} : \A b \in open[d] \cup saved[d] :
                TempPath(toolOf[d], b) = TempPath(toolOf[c], a) => b \in disturbed'[d]
           /\ \A g \in handed' : \E h \in handed :
                /\ g.file = h.file /\ g.prefix = h.prefix /\ g.path = h.path
                /\ g \in [file : Attachment, prefix : TempPrefixes, path : Paths, shared : BOOLEAN]
                /\ ~ g.shared => ~ h.shared /\ h.path # TempPath(toolOf[c], a)
           /\ \A h \in handed : \E g \in handed' : g.path = h.path
<1>1. /\ disturbed' = [d \in FileCall |->
              disturbed[d] \cup (IF d # c /\ Busy(d) /\ SameFile(c, d, a) THEN {a} ELSE {})]
      /\ handed' = {[h EXCEPT !.shared = @ \/ (h.prefix = TempPrefix(toolOf[c]) /\ h.file = a)] : h \in handed}
  BY DEF Disturb
<1>2. disturbed \in [FileCall -> SUBSET Attachment]
      /\ handed \subseteq [file : Attachment, prefix : TempPrefixes, path : Paths, shared : BOOLEAN]
      /\ toolOf[c] \in FileTool
  BY DEF FilesInv, FileTypeOK, Busy
<1>3. disturbed' \in [FileCall -> SUBSET Attachment] /\ disturbed'[c] = disturbed[c]
      /\ \A d \in FileCall : disturbed[d] \subseteq disturbed'[d]
  BY <1>1, <1>2
<1>4. ASSUME NEW d \in FileCall \ {c}, NEW b \in open[d] \cup saved[d],
             TempPath(toolOf[d], b) = TempPath(toolOf[c], a)
      PROVE  b \in disturbed'[d]
  <2>1. Busy(d) /\ toolOf[d] \in FileTool /\ b \in Attachment
    BY DEF FilesInv, FileTypeOK, OwnFiles, Busy
  <2>2. b = a /\ TempPrefix(toolOf[c]) = TempPrefix(toolOf[d])
    BY <1>2, <1>4, <2>1, PathsApart
  <2> QED
    BY <1>1, <2>1, <2>2 DEF SameFile
<1>5. ASSUME NEW h \in handed
      PROVE  LET g == [h EXCEPT !.shared = @ \/ (h.prefix = TempPrefix(toolOf[c]) /\ h.file = a)] IN
             /\ g.file = h.file /\ g.prefix = h.prefix /\ g.path = h.path
             /\ g \in [file : Attachment, prefix : TempPrefixes, path : Paths, shared : BOOLEAN]
             /\ ~ g.shared => ~ h.shared /\ h.path # TempPath(toolOf[c], a)
  <2>1. h.path = PathOf(h.prefix, h.file)
    BY DEF FilesInv, AnsweredFor
  <2>2. h.path = TempPath(toolOf[c], a) => h.prefix = TempPrefix(toolOf[c]) /\ h.file = a
    BY <2>1 DEF PathOf, TempPath
  <2> QED
    BY <1>2, <2>2
<1>6. ASSUME NEW g \in handed'
      PROVE  \E h \in handed :
                /\ g.file = h.file /\ g.prefix = h.prefix /\ g.path = h.path
                /\ g \in [file : Attachment, prefix : TempPrefixes, path : Paths, shared : BOOLEAN]
                /\ ~ g.shared => ~ h.shared /\ h.path # TempPath(toolOf[c], a)
  <2>1. PICK h \in handed : g = [h EXCEPT !.shared = @ \/ (h.prefix = TempPrefix(toolOf[c]) /\ h.file = a)]
    BY <1>1
  <2> QED
    BY <1>5, <2>1
<1>7. ASSUME NEW h \in handed PROVE \E g \in handed' : g.path = h.path
  <2> DEFINE g == [h EXCEPT !.shared = @ \/ (h.prefix = TempPrefix(toolOf[c]) /\ h.file = a)]
  <2>1. g \in handed'
    BY <1>1
  <2>2. g.path = h.path
    BY <1>5
  <2> QED
    BY <2>1, <2>2
<1> QED
  BY <1>3, <1>4, <1>6, <1>7

\* A step that takes up one file, and leaves the others as they were.
LEMMA TakesUp ==
    ASSUME FilesInv, NEW c \in FileCall, NEW a \in Attachment, Busy(c), Disturb(c, a),
           \A q : q # TempPath(toolOf[c], a) => Held(disk', q) = Held(disk, q)
    PROVE  /\ \A d \in FileCall \ {c} :
                /\ \A b \in open[d] \ disturbed'[d] : Held(disk', TempPath(toolOf[d], b)).by = d
                /\ \A b \in saved[d] \ disturbed'[d] : Held(disk', TempPath(toolOf[d], b)).body = "file"
           /\ \A b \in saved[c] \ (disturbed[c] \cup {a}) : Held(disk', TempPath(toolOf[c], b)).body = "file"
           /\ handed' \subseteq [file : Attachment, prefix : TempPrefixes, path : Paths, shared : BOOLEAN]
           /\ \A h \in handed' : h.path = PathOf(h.prefix, h.file) /\ (~ h.shared => Held(disk', h.path).body = "file")
<1>1. toolOf[c] \in FileTool /\ c \in FileCall
  BY DEF FilesInv, FileTypeOK, Busy
<1>2. ASSUME NEW d \in FileCall \ {c}, NEW b \in (open[d] \cup saved[d]) \ disturbed'[d]
      PROVE  b \notin disturbed[d] /\ Held(disk', TempPath(toolOf[d], b)) = Held(disk, TempPath(toolOf[d], b))
  <2>1. TempPath(toolOf[d], b) # TempPath(toolOf[c], a) /\ b \notin disturbed[d]
    BY <1>2, Disturbs
  <2> QED
    BY <2>1
<1>3. ASSUME NEW b \in saved[c] \ (disturbed[c] \cup {a})
      PROVE  Held(disk', TempPath(toolOf[c], b)).body = "file"
  <2>1. TempPath(toolOf[c], b) # TempPath(toolOf[c], a)
    BY <1>1, <1>3, PathsApart DEF FilesInv, FileTypeOK
  <2> QED
    BY <1>3, <2>1 DEF FilesInv, Undisturbed
<1>4. ASSUME NEW g \in handed'
      PROVE  /\ g \in [file : Attachment, prefix : TempPrefixes, path : Paths, shared : BOOLEAN]
             /\ g.path = PathOf(g.prefix, g.file) /\ (~ g.shared => Held(disk', g.path).body = "file")
  <2>1. PICK h \in handed :
          /\ g.file = h.file /\ g.prefix = h.prefix /\ g.path = h.path
          /\ g \in [file : Attachment, prefix : TempPrefixes, path : Paths, shared : BOOLEAN]
          /\ ~ g.shared => ~ h.shared /\ h.path # TempPath(toolOf[c], a)
    BY Disturbs
  <2>2. h.path = PathOf(h.prefix, h.file) /\ (~ h.shared => Held(disk, h.path).body = "file")
    BY DEF FilesInv, AnsweredFor, WholeFiles
  <2> QED
    BY <2>1, <2>2
<1> QED
  BY <1>2, <1>3, <1>4 DEF FilesInv, Undisturbed

\* A file truncated: on opening it, and on trying the user token.
LEMMA OpenKeeps ==
    ASSUME FilesInv, NEW c \in FileCall, NEW a \in Attachment, OpenTemp(c, a) \/ RefusedOnce(c, a)
    PROVE  FilesInv'
<1> DEFINE p == TempPath(toolOf[c], a)
<1>1. Busy(c) /\ toolOf[c] \in FileTool /\ Disturb(c, a) /\ UNCHANGED <<toolOf, saved, taken, spoiled, fileCalls>>
  BY DEF OpenTemp, RefusedOnce, FilesInv, FileTypeOK, OwnFiles, Busy
<1>2. /\ open' = [open EXCEPT ![c] = {a}] /\ filesLeft' = [filesLeft EXCEPT ![c] = @ \ {a}]
      /\ a \notin saved[c] /\ open[c] \subseteq {a} /\ token' \in [FileCall -> {"primary", "user"}]
  BY DEF OpenTemp, RefusedOnce, FilesInv, FileTypeOK, OwnFiles
<1>3. disk' = Put(p, c, "part") \/ (p \notin DOMAIN disk /\ disk' = disk /\ open[c] = {a})
  BY DEF OpenTemp, RefusedOnce
<1>4. p \in Paths
  BY <1>1 DEF Paths
<1> HIDE DEF p
<1>5. \A q : q # p => Held(disk', q) = Held(disk, q)
  BY <1>3 DEF Put, Held
<1>6. DOMAIN disk' \subseteq DOMAIN disk \cup {p} /\ DOMAIN disk \subseteq DOMAIN disk'
      /\ \A q \in DOMAIN disk' : disk'[q] = disk[q] \/ disk'[q] = [by |-> c, body |-> "part"]
  BY <1>3 DEF Put
<1>7. FileTypeOK'
  <2>1. \A q \in DOMAIN disk' : disk'[q].by \in FileCall /\ disk'[q].body \in Bodies
    <3>1. \A q \in DOMAIN disk : disk[q].by \in FileCall /\ disk[q].body \in Bodies
      BY DEF FilesInv, FileTypeOK
    <3>2. ASSUME NEW q \in DOMAIN disk' PROVE disk'[q] = [by |-> c, body |-> "part"] \/ (q \in DOMAIN disk /\ disk'[q] = disk[q])
      BY <1>3 DEF Put
    <3> QED
      BY <3>1, <3>2 DEF Bodies
  <2>2. open' \in [FileCall -> SUBSET Attachment] /\ filesLeft' \in [FileCall -> SUBSET Attachment]
    BY <1>2 DEF FilesInv, FileTypeOK
  <2>3. disturbed' \in [FileCall -> SUBSET Attachment]
        /\ handed' \subseteq [file : Attachment, prefix : TempPrefixes, path : Paths, shared : BOOLEAN]
    BY <1>1, <1>5, Disturbs, TakesUp DEF p
  <2> QED
    BY <1>1, <1>2, <1>4, <1>6, <2>1, <2>2, <2>3 DEF FilesInv, FileTypeOK
<1>8. OwnFiles'
  BY <1>1, <1>2 DEF FilesInv, FileTypeOK, OwnFiles, Busy
<1>9. Undisturbed'
  <2>1. a \in open'[c] /\ open'[c] = {a} /\ \A d \in FileCall \ {c} : open'[d] = open[d]
    BY <1>2 DEF FilesInv, FileTypeOK
  <2>2. a \notin disturbed[c] => Held(disk', p).by = c
    <3>1. CASE disk' = Put(p, c, "part")
      BY <3>1 DEF Put, Held
    <3>2. CASE disk' = disk /\ a \in open[c]
      BY <3>2 DEF FilesInv, Undisturbed, Held, p
    <3> QED
      BY <1>3, <3>1, <3>2
  <2>3. disturbed'[c] = disturbed[c]
    BY <1>1, Disturbs
  <2> QED
    BY <1>1, <1>2, <1>5, <2>1, <2>2, <2>3, TakesUp DEF Undisturbed, p
<1>10. AnsweredFor'
  <2>1. \A h \in handed' : h.path = PathOf(h.prefix, h.file)
    BY <1>1, <1>5, TakesUp DEF p
  <2>2. ASSUME NEW q \in DOMAIN disk', ~ spoiled
        PROVE  \/ \E h \in handed' : h.path = q
               \/ \E d \in FileCall : \E b \in open'[d] \cup saved'[d] : q = TempPath(toolOf'[d], b)
    <3>1. CASE q = p
      BY <1>1, <1>2, <3>1 DEF FilesInv, FileTypeOK, p
    <3>2. CASE q \in DOMAIN disk /\ \E h \in handed : h.path = q
      BY <1>1, <3>2, Disturbs
    <3>3. CASE \E d \in FileCall : \E b \in open[d] \cup saved[d] : q = TempPath(toolOf[d], b)
      <4>1. \A d \in FileCall : open[d] \subseteq open'[d]
        BY <1>2 DEF FilesInv, FileTypeOK
      <4> QED
        BY <1>1, <3>3, <4>1
    <3> QED
      BY <1>6, <2>2, <3>1, <3>2, <3>3 DEF FilesInv, AnsweredFor
  <2> QED
    BY <1>1, <2>1, <2>2 DEF AnsweredFor
<1>11. WholeFiles'
  BY <1>1, <1>5, TakesUp DEF FilesInv, WholeFiles, p
<1> QED
  BY <1>7, <1>8, <1>9, <1>10, <1>11 DEF FilesInv

\* A file removed: after a download that failed, and when its content is taken.
LEMMA RemoveKeeps ==
    ASSUME FilesInv, NEW c \in FileCall, NEW a \in Attachment, DownloadFails(c, a) \/ TakeFile(c, a)
    PROVE  FilesInv'
<1> DEFINE p == TempPath(toolOf[c], a)
<1>1. Busy(c) /\ toolOf[c] \in FileTool /\ Disturb(c, a) /\ disk' = Without(p) /\ UNCHANGED <<token, fileCalls>>
  BY DEF DownloadFails, TakeFile, RemoveTemp, Working, FilesInv, FileTypeOK, OwnFiles, Busy
<1> HIDE DEF p
<1>2. /\ DOMAIN disk' = DOMAIN disk \ {p} /\ \A q \in DOMAIN disk \ {p} : disk'[q] = disk[q]
      /\ \A q : q # p => Held(disk', q) = Held(disk, q)
  BY <1>1 DEF Without, Held
<1> USE DEF p
<1>3. /\ disturbed' \in [FileCall -> SUBSET Attachment]
      /\ handed' \subseteq [file : Attachment, prefix : TempPrefixes, path : Paths, shared : BOOLEAN]
      /\ \A h \in handed' : h.path = PathOf(h.prefix, h.file) /\ (~ h.shared => Held(disk', h.path).body = "file")
  BY <1>1, <1>2, Disturbs, TakesUp
<1>4. /\ \A d \in FileCall \ {c} : /\ toolOf'[d] = toolOf[d] /\ filesLeft'[d] = filesLeft[d]
                                 /\ open'[d] = open[d] /\ saved'[d] = saved[d]
      /\ filesLeft'[c] = {} /\ open'[c] = {} /\ saved'[c] \subseteq saved[c] \ {a}
      /\ toolOf'[c] = toolOf[c] \/ (toolOf'[c] = "none" /\ saved'[c] = {})
      /\ open' \in [FileCall -> SUBSET Attachment] /\ filesLeft' \in [FileCall -> SUBSET Attachment]
      /\ saved' \in [FileCall -> SUBSET Attachment] /\ toolOf' \in [FileCall -> FileTool \cup {"none"}]
      /\ spoiled' \in BOOLEAN /\ (spoiled => spoiled')
      /\ ~ spoiled' => \A b \in (open[c] \cup saved[c]) \ {a} : b \in saved'[c]
  <2>1. CASE DownloadFails(c, a)
    BY <2>1 DEF DownloadFails, FilesInv, FileTypeOK
  <2>2. CASE TakeFile(c, a)
    BY <2>2 DEF TakeFile, Working, FilesInv, FileTypeOK
  <2> QED
    BY <2>1, <2>2
<1>5. taken' \subseteq [file : Attachment, body : Bodies \cup {"gone"}] /\ \A t \in taken' : t.body = "file"
  <2>1. CASE taken' = taken
    BY <2>1 DEF FilesInv, FileTypeOK, WholeFiles
  <2>2. CASE a \in saved[c] /\ a \notin disturbed[c] /\ taken' = taken \cup {[file |-> a, body |-> Held(disk, p).body]}
    <3>1. Held(disk, p).body = "file"
      BY <2>2 DEF FilesInv, Undisturbed
    <3> QED
      BY <2>2, <3>1 DEF FilesInv, FileTypeOK, WholeFiles, Bodies
  <2> QED
    BY <2>1, <2>2 DEF DownloadFails, TakeFile, Working, At, Held
<1>6. FileTypeOK'
  BY <1>1, <1>2, <1>3, <1>4, <1>5 DEF FilesInv, FileTypeOK
<1>7. OwnFiles'
  BY <1>1, <1>4 DEF FilesInv, OwnFiles, Busy
<1>8. Undisturbed'
  <2>1. disturbed'[c] = disturbed[c]
    BY <1>1, Disturbs
  <2>2. \A b \in saved[c] \ (disturbed[c] \cup {a}) : Held(disk', TempPath(toolOf[c], b)).body = "file"
    BY <1>1, <1>2, TakesUp
  <2>3. \A d \in FileCall \ {c} :
                /\ \A b \in open[d] \ disturbed'[d] : Held(disk', TempPath(toolOf[d], b)).by = d
                /\ \A b \in saved[d] \ disturbed'[d] : Held(disk', TempPath(toolOf[d], b)).body = "file"
    BY <1>1, <1>2, TakesUp
  <2> QED
    BY <1>4, <2>1, <2>2, <2>3 DEF Undisturbed
<1>9. AnsweredFor'
  <2>1. ASSUME NEW q \in DOMAIN disk', ~ spoiled'
        PROVE  \/ \E h \in handed' : h.path = q
               \/ \E d \in FileCall : \E b \in open'[d] \cup saved'[d] : q = TempPath(toolOf'[d], b)
    <3>1. q \in DOMAIN disk /\ q # p /\ ~ spoiled
      BY <1>2, <1>4, <2>1
    <3>2. CASE \E h \in handed : h.path = q
      BY <1>1, <3>2, Disturbs
    <3>3. ASSUME NEW d \in FileCall, NEW b \in open[d] \cup saved[d], q = TempPath(toolOf[d], b)
          PROVE  b \in open'[d] \cup saved'[d] /\ toolOf'[d] = toolOf[d]
      <4>1. d = c => b # a
        BY <3>1, <3>3
      <4> QED
        BY <1>4, <2>1, <3>3, <4>1
    <3> QED
      BY <3>1, <3>2, <3>3 DEF FilesInv, AnsweredFor
  <2> QED
    BY <1>3, <2>1 DEF AnsweredFor
<1>10. WholeFiles'
  BY <1>3, <1>5 DEF WholeFiles
<1> QED
  BY <1>6, <1>7, <1>8, <1>9, <1>10 DEF FilesInv

\* A download that ends well.
LEMMA DownloadKeeps ==
    ASSUME FilesInv, NEW c \in FileCall, NEW a \in Attachment, Downloaded(c, a)
    PROVE  FilesInv'
<1> DEFINE p == TempPath(toolOf[c], a)
<1>1. /\ open[c] = {a} /\ disk' = (IF Held(disk, p).by = c THEN Put(p, c, "file") ELSE disk)
      /\ open' = [open EXCEPT ![c] = {}] /\ saved' = [saved EXCEPT ![c] = @ \cup {a}]
      /\ UNCHANGED <<toolOf, filesLeft, token, handed, taken, disturbed, spoiled, fileCalls>>
      /\ Busy(c) /\ toolOf[c] \in FileTool
  BY DEF Downloaded, WrittenBy, At, Held, FilesInv, FileTypeOK, OwnFiles, Busy
<1>2. CASE Held(disk, p).by # c
  <2>1. disk' = disk /\ a \in disturbed[c]
    BY <1>1, <1>2 DEF FilesInv, Undisturbed
  <2>2. FileTypeOK' /\ OwnFiles'
    BY <1>1, <2>1 DEF FilesInv, FileTypeOK, OwnFiles, Busy
  <2>3. \A q : Held(disk', q) = Held(disk, q)
    BY <2>1 DEF Held
  <2>4. Undisturbed' /\ WholeFiles'
    BY <1>1, <2>1, <2>3 DEF FilesInv, FileTypeOK, Undisturbed, WholeFiles
  <2>5. \A d \in FileCall : open[d] \cup saved[d] \subseteq open'[d] \cup saved'[d]
    BY <1>1 DEF FilesInv, FileTypeOK
  <2>6. AnsweredFor'
    BY <1>1, <2>1, <2>5 DEF FilesInv, AnsweredFor
  <2> QED
    BY <2>2, <2>4, <2>6 DEF FilesInv
<1>3. CASE Held(disk, p).by = c
  <2>1. /\ DOMAIN disk' = DOMAIN disk \cup {p} /\ disk'[p] = [by |-> c, body |-> "file"]
        /\ \A q \in DOMAIN disk \ {p} : disk'[q] = disk[q]
        /\ Held(disk', p) = [by |-> c, body |-> "file"] /\ \A q : q # p => Held(disk', q) = Held(disk, q)
    <3> HIDE DEF p
    <3> QED
      BY <1>1, <1>3 DEF Put, Held
  <2>2. p \in Paths
    BY <1>1 DEF Paths
  <2>3. FileTypeOK'
    BY <1>1, <2>1, <2>2 DEF FilesInv, FileTypeOK, Bodies
  <2>4. OwnFiles'
    BY <1>1 DEF FilesInv, FileTypeOK, OwnFiles, Busy
  <2>5. \A q : Held(disk, q).body = "file" => Held(disk', q).body = "file"
    BY <2>1
  <2>6. \A d \in FileCall : \A q : Held(disk, q).by = d => Held(disk', q).by = d
    BY <1>3, <2>1
  <2>7. Undisturbed'
    BY <1>1, <2>1, <2>5, <2>6 DEF FilesInv, FileTypeOK, Undisturbed
  <2>8. WholeFiles'
    BY <1>1, <2>5 DEF FilesInv, WholeFiles
  <2>9. /\ \A d \in FileCall : open[d] \cup saved[d] \subseteq open'[d] \cup saved'[d]
        /\ a \in open'[c] \cup saved'[c]
    BY <1>1 DEF FilesInv, FileTypeOK
  <2>10. AnsweredFor'
    BY <1>1, <2>1, <2>9 DEF FilesInv, AnsweredFor
  <2> QED
    BY <2>3, <2>4, <2>7, <2>8, <2>10 DEF FilesInv
<1> QED
  BY <1>2, <1>3

\* A path handed out.
LEMMA HandOutKeeps ==
    ASSUME FilesInv, NEW c \in FileCall, NEW a \in Attachment, HandOut(c, a)
    PROVE  FilesInv'
<1> DEFINE h0 == [file |-> a, prefix |-> TempPrefix(toolOf[c]), path |-> TempPath(toolOf[c], a),
                  shared |-> a \in disturbed[c]]
<1>1. /\ a \in saved[c] /\ saved' = [saved EXCEPT ![c] = @ \ {a}] /\ handed' = handed \cup {h0}
      /\ UNCHANGED <<disk, toolOf, filesLeft, open, token, taken, disturbed, spoiled, fileCalls>>
      /\ toolOf[c] \in FileTool
  BY DEF HandOut, Working, FilesInv, FileTypeOK, Busy
<1>2. h0 \in [file : Attachment, prefix : TempPrefixes, path : Paths, shared : BOOLEAN]
      /\ h0.path = PathOf(h0.prefix, h0.file) /\ h0.path = TempPath(toolOf[c], a)
      /\ (~ h0.shared => Held(disk, h0.path).body = "file")
  <2>1. TempPrefix(toolOf[c]) \in TempPrefixes
    BY <1>1, FileToolsAssumption DEF TempPrefix, TempPrefixes, FileTools
  <2>2. TempPath(toolOf[c], a) \in Paths /\ TempPath(toolOf[c], a) = PathOf(TempPrefix(toolOf[c]), a)
    BY <1>1 DEF Paths, PathOf, TempPath
  <2>3. a \notin disturbed[c] => Held(disk, TempPath(toolOf[c], a)).body = "file"
    BY <1>1 DEF FilesInv, Undisturbed
  <2>4. /\ h0.file = a /\ h0.prefix = TempPrefix(toolOf[c]) /\ h0.path = TempPath(toolOf[c], a)
        /\ h0.shared = (a \in disturbed[c])
    OBVIOUS
  <2>5. h0 \in [file : Attachment, prefix : TempPrefixes, path : Paths, shared : BOOLEAN]
    BY <2>1, <2>2
  <2> HIDE DEF h0
  <2> QED
    BY <2>2, <2>3, <2>4, <2>5
<1> HIDE DEF h0
<1>3. FileTypeOK' /\ OwnFiles'
  BY <1>1, <1>2 DEF FilesInv, FileTypeOK, OwnFiles, Busy
<1>4. \A q : Held(disk', q) = Held(disk, q)
  BY <1>1 DEF Held
<1>5. Undisturbed' /\ WholeFiles'
  BY <1>1, <1>2, <1>4 DEF FilesInv, FileTypeOK, Undisturbed, WholeFiles
<1>6. AnsweredFor'
  <2>1. \A d \in FileCall : \A b \in open[d] \cup saved[d] : b \in open'[d] \cup saved'[d] \/ (d = c /\ b = a)
    BY <1>1 DEF FilesInv, FileTypeOK
  <2>2. /\ h0 \in handed' /\ handed \subseteq handed' /\ \A h \in handed' : h \in handed \/ h = h0
    BY <1>1
  <2>3. \A h \in handed' : h.path = PathOf(h.prefix, h.file)
    BY <1>2, <2>2 DEF FilesInv, AnsweredFor
  <2>4. ASSUME NEW q \in DOMAIN disk, ~ spoiled
        PROVE  \/ \E h \in handed' : h.path = q
               \/ \E d \in FileCall : \E b \in open'[d] \cup saved'[d] : q = TempPath(toolOf[d], b)
    <3>1. CASE \E h \in handed : h.path = q
      BY <2>2, <3>1
    <3>2. CASE \E d \in FileCall : \E b \in open[d] \cup saved[d] : q = TempPath(toolOf[d], b)
      BY <1>2, <2>1, <2>2, <3>2
    <3> QED
      BY <2>4, <3>1, <3>2 DEF FilesInv, AnsweredFor
  <2> QED
    BY <1>1, <2>3, <2>4 DEF AnsweredFor
<1> QED
  BY <1>3, <1>5, <1>6 DEF FilesInv

\* Every action keeps the invariant.
LEMMA FilesStep == FilesInv /\ [FileNext]_fileVars => FilesInv'
<1> SUFFICES ASSUME FilesInv, [FileNext]_fileVars PROVE FilesInv'
  OBVIOUS
<1>1. ASSUME UNCHANGED <<disk, open, handed, taken, spoiled>>,
             NEW c \in FileCall, NEW tool \in FileTool \cup {"none"}, NEW files \in SUBSET Attachment,
             toolOf' = [toolOf EXCEPT ![c] = tool], tool = "none" => files = {},
             filesLeft' = [filesLeft EXCEPT ![c] = files], saved' = [saved EXCEPT ![c] = {}],
             disturbed' \in [FileCall -> SUBSET Attachment], \A d \in FileCall \ {c} : disturbed'[d] = disturbed[d],
             open[c] = {}, saved[c] = {}, token' = token, fileCalls' \in Nat
      PROVE  FilesInv'
  <2>1. FileTypeOK'
    BY <1>1 DEF FilesInv, FileTypeOK
  <2>2. /\ toolOf'[c] = tool /\ filesLeft'[c] = files /\ saved'[c] = {} /\ open'[c] = {}
        /\ \A d \in FileCall \ {c} : /\ toolOf'[d] = toolOf[d] /\ filesLeft'[d] = filesLeft[d]
                                   /\ saved'[d] = saved[d] /\ open'[d] = open[d]
        /\ \A q : Held(disk', q) = Held(disk, q)
    BY <1>1 DEF FilesInv, FileTypeOK, Held
  <2>3. OwnFiles'
    BY <1>1, <2>2 DEF FilesInv, OwnFiles, Busy
  <2>4. Undisturbed' /\ WholeFiles'
    BY <1>1, <2>2 DEF FilesInv, Undisturbed, WholeFiles
  <2>5. AnsweredFor'
    BY <1>1, <2>2 DEF FilesInv, AnsweredFor
  <2> QED
    BY <2>1, <2>3, <2>4, <2>5 DEF FilesInv
<1>2. ASSUME NEW c \in FileCall, NEW tool \in FileTool, NEW files \in SUBSET Attachment, StartFiles(c, tool, files)
      PROVE  FilesInv'
  <2>1. open[c] = {} /\ saved[c] = {} /\ tool # "none"
    BY <1>2, FileToolsAssumption DEF StartFiles, FilesInv, OwnFiles, FileTools
  <2>2. /\ disturbed' \in [FileCall -> SUBSET Attachment] /\ fileCalls' \in Nat
        /\ \A d \in FileCall \ {c} : disturbed'[d] = disturbed[d]
    BY <1>2 DEF StartFiles, FilesInv, FileTypeOK
  <2> QED
    BY <1>1, <1>2, <2>1, <2>2 DEF StartFiles
<1>3. ASSUME NEW c \in FileCall, ReturnFiles(c) PROVE FilesInv'
  <2>1. filesLeft' = [filesLeft EXCEPT ![c] = {}] /\ saved' = [saved EXCEPT ![c] = {}]
        /\ open[c] = {} /\ saved[c] = {} /\ disturbed' \in [FileCall -> SUBSET Attachment] /\ fileCalls' \in Nat
    BY <1>3 DEF ReturnFiles, FilesInv, FileTypeOK
  <2> QED
    BY <1>1, <1>3, <2>1 DEF ReturnFiles
<1>4. CASE UNCHANGED fileVars
  BY <1>4 DEF FilesInv, FileTypeOK, OwnFiles, Busy, Undisturbed, AnsweredFor, WholeFiles, Held
<1> QED
  BY <1>2, <1>3, <1>4, OpenKeeps, RemoveKeeps, DownloadKeeps, HandOutKeeps DEF FileNext

\* A path that was handed out keeps the whole file until another call takes up
\* the same attachment, and no file is left behind that no client was told of
\* (audio.go, image.go, transcribe.go, tone.go, document.go).
THEOREM FilesKeptApart == FileSpec => []FilesAreAccountedFor
<1>1. FilesInv => FilesAreAccountedFor
  BY DEF FilesInv, OwnFiles, AnsweredFor, WholeFiles, FilesAreAccountedFor, OnlyTheSameFileDisturbs,
         NoUntoldFile, At, Held
<1> QED
  BY <1>1, FilesInvInit, FilesStep, PTL DEF FileSpec
----------------------------------------------------------------------------
(***************************************************************************)
(* The export corpus.                                                      *)
(***************************************************************************)
InFile(k) == \E i \in DOMAIN lines : lines[i] = Whole(k)
NextKey(e) == RecordKey(Oldest(fresh[e]).msg)

\* Slack never gives two messages one timestamp.
OwnInstants ==
    /\ \A m \in posted : m.ts < clock
    /\ \A m, n \in posted : m.ts = n.ts => m = n

\* What an export collects was posted; what it still has to append is part of
\* that, once each, and there is something only while it writes.
Collected ==
    \A e \in Exporter :
        /\ \A f \in found[e] : f.msg \in posted
        /\ fresh[e] \subseteq found[e] /\ \A f, g \in fresh[e] : f.msg = g.msg => f = g
        /\ threads[e] # {} => stage[e] = "reading"
        /\ stage[e] # "writing" => fresh[e] = {}
        /\ fresh[e] = {} => at[e] = 0

\* One export appends at a time, what the file does not hold; what it has
\* collected is in the file, still to be appended, or at its seam.
OneWriter ==
    /\ \A d, e \in Exporter : Appending(d) /\ Appending(e) => d = e
    /\ \A e \in Exporter : stage[e] = "writing" =>
         \A f \in found[e] :
            \/ RecordKey(f.msg) \in seam[e] \/ InFile(RecordKey(f.msg))
            \/ \E g \in fresh[e] : RecordKey(g.msg) = RecordKey(f.msg)
    /\ \A e \in Exporter, f \in Find : f \in fresh[e] => ~ InFile(RecordKey(f.msg))

\* The tail is what this export has written of its record, or that behind
\* something an interrupted one has left; then the record is at the seam.
OwnTail ==
    \A e \in Exporter : Appending(e) =>
        \/ NextKey(e) \in seam[e] /\ Len(tail) > at[e]
        \/ at[e] = 0 /\ tail = <<>>
        \/ at[e] = 1 /\ tail = <<<<NextKey(e), "head">>>>
        \/ at[e] = 2 /\ tail = Whole(NextKey(e))

LinesApart == \A i, j \in DOMAIN lines : lines[i] = lines[j] /\ lines[i] # Garbled => i = j

KeptInFile == \A k \in kept : InFile(k)

ExportInv ==
    /\ ExportTypeOK /\ OwnInstants /\ Collected
    /\ ~ overlapped => OneWriter /\ OwnTail /\ LinesApart /\ KeptInFile

USE DEF exportVars, exportSlack, corpusFile, exportReading, exportHistory

\* The record of a key can be read, and a line that can be read is a record.
LEMMA RecordsAreRead ==
    /\ \A k : Readable(Whole(k)) /\ Whole(k)[1][1] = k /\ Whole(k) # Garbled
    /\ \A p : Readable(p) => p = Whole(p[1][1]) /\ Len(p) = 2
    /\ \A p : Line(p) = Garbled \/ (Readable(p) /\ Line(p) = p)
<1>1. ASSUME NEW k PROVE Readable(Whole(k)) /\ Whole(k)[1][1] = k /\ Whole(k) # Garbled
  <2>1. Whole(k)[1][1] = k /\ Len(Whole(k)) = 2 /\ Len(Garbled) = 0
    BY DEF Whole, Garbled
  <2> QED
    BY <2>1 DEF Readable
<1> QED
  BY <1>1 DEF Readable, Line

\* ReadKeys finds the key of every record in the file; any other is in the tail.
LEMMA KeysRead ==
    ASSUME lines \in Seq(Pieces), tail \in Pieces
    PROVE  /\ \A k : InFile(k) => k \in CorpusKeys(lines, tail)
           /\ \A k \in CorpusKeys(lines, tail) :
                InFile(k) \/ (tail # <<>> /\ \E i \in DOMAIN tail : tail[i][1] = k)
<1>1. ASSUME NEW k, InFile(k) PROVE k \in CorpusKeys(lines, tail)
  <2>1. PICK i \in DOMAIN lines : lines[i] = Whole(k)
    BY <1>1 DEF InFile
  <2>2. Whole(k) \in {x \in Range(lines) \cup {tail} : Readable(x)}
    BY <2>1, RecordsAreRead DEF Range
  <2> QED
    BY <2>2, RecordsAreRead DEF CorpusKeys
<1>2. ASSUME NEW k \in CorpusKeys(lines, tail)
      PROVE  InFile(k) \/ (tail # <<>> /\ \E i \in DOMAIN tail : tail[i][1] = k)
  <2>1. PICK l \in {x \in Range(lines) \cup {tail} : Readable(x)} : k = l[1][1]
    BY DEF CorpusKeys
  <2>2. CASE l \in Range(lines)
    BY <2>1, <2>2, RecordsAreRead DEF Range, InFile
  <2>3. CASE l = tail
    <3>1. Len(tail) = 2
      BY <2>1, <2>3, RecordsAreRead
    <3>2. tail \in Seq(Piece)
      BY DEF Pieces
    <3>3. DOMAIN tail = 1 .. 2
      BY <3>1, <3>2
    <3>4. tail # <<>>
      BY <3>3
    <3> QED
      BY <2>1, <2>3, <3>3, <3>4
  <2> QED
    BY <2>1, <2>2, <2>3
<1> QED
  BY <1>1, <1>2

\* Of some finds one is the oldest.
LEMMA OldestIsOne ==
    ASSUME NEW S \in SUBSET Find, S # {}
    PROVE  Oldest(S) \in S
<1> DEFINE T == {0 .. f.msg.ts : f \in S}
<1>1. IsWellFoundedOn(StrictSubsetOrdering(Nat), FiniteSubsetsOf(Nat))
  BY FS_StrictSubsetOrderingWellFounded
<1>2. \A f \in S : f.msg.ts \in Nat
  BY DEF Find, CorpusMessage
<1>3. T \subseteq FiniteSubsetsOf(Nat) /\ T # {}
  <2>1. \A f \in S : 0 .. f.msg.ts \in SUBSET Nat /\ IsFiniteSet(0 .. f.msg.ts)
    BY <1>2, FS_Interval
  <2> QED
    BY <2>1 DEF FiniteSubsetsOf
<1>4. PICK x \in T : \A y \in T : ~ (<<y, x>> \in StrictSubsetOrdering(Nat))
  BY <1>1, <1>3, WFMin
<1>5. PICK f \in S : x = 0 .. f.msg.ts
  OBVIOUS
<1>6. ASSUME NEW g \in S, g.msg.ts < f.msg.ts PROVE FALSE
  <2> DEFINE y == 0 .. g.msg.ts
  <2>1. y \in T
    OBVIOUS
  <2>2. y \in SUBSET Nat /\ x \in SUBSET Nat /\ y \subseteq x /\ f.msg.ts \in x /\ f.msg.ts \notin y
    BY <1>2, <1>5, <1>6
  <2>3. <<y, x>> \in StrictSubsetOrdering(Nat)
    BY <2>2 DEF StrictSubsetOrdering
  <2> QED
    BY <1>4, <2>1, <2>3
<1>7. \A g \in S : f.msg.ts <= g.msg.ts
  BY <1>2, <1>6
<1> QED
  BY <1>7 DEF Oldest

\* The first state satisfies the invariant.
LEMMA ExportInvInit == ExportInit => ExportInv
<1> SUFFICES ASSUME ExportInit PROVE ExportInv
  OBVIOUS
<1>1. lines = <<>> /\ tail = <<>> /\ lines \in Seq(Pieces) /\ tail \in Pieces /\ DOMAIN lines = {}
  BY DEF ExportInit, Pieces
<1>2. ExportTypeOK
  <2>1. /\ stage = [e \in Exporter |-> "idle"] /\ since = [e \in Exporter |-> 0] /\ at = [e \in Exporter |-> 0]
        /\ todo = [e \in Exporter |-> {}] /\ threads = [e \in Exporter |-> {}] /\ found = [e \in Exporter |-> {}]
        /\ fresh = [e \in Exporter |-> {}] /\ seam = [e \in Exporter |-> {}]
        /\ posted = {} /\ clock = 1 /\ runs = 0 /\ overlapped = FALSE /\ kept = {}
    BY DEF ExportInit
  <2>2. /\ stage \in [Exporter -> {"idle", "reading", "writing"}] /\ since \in [Exporter -> Nat]
        /\ at \in [Exporter -> 0..2]
    BY <2>1
  <2>3. /\ todo \in [Exporter -> SUBSET Channel] /\ threads \in [Exporter -> SUBSET CorpusMessage]
        /\ found \in [Exporter -> SUBSET Find] /\ fresh \in [Exporter -> SUBSET Find]
        /\ seam \in [Exporter -> SUBSET (Channel \X Nat)]
    BY <2>1
  <2> QED
    BY <1>1, <2>1, <2>2, <2>3 DEF ExportTypeOK
<1> QED
  BY <1>1, <1>2 DEF ExportInit, ExportInv, OwnInstants, Collected, OneWriter, OwnTail, LinesApart, KeptInFile, Appending

\* While an export reads, nothing changes but what it has collected.
LEMMA ReadingKeeps ==
    ASSUME ExportInv, NEW e \in Exporter, stage[e] # "writing", stage'[e] # "writing",
           stage' \in [Exporter -> {"idle", "reading", "writing"}],
           \A o \in Exporter \ {e} : stage'[o] = stage[o],
           NEW F \in SUBSET Find, \A f \in F : f.msg \in posted, found' = [found EXCEPT ![e] = F],
           NEW T \in SUBSET CorpusMessage, T # {} => stage'[e] = "reading", threads' = [threads EXCEPT ![e] = T],
           since' \in [Exporter -> Nat], todo' \in [Exporter -> SUBSET Channel], runs' \in Nat,
           UNCHANGED <<exportSlack, fresh, at, corpusFile, exportHistory>>
    PROVE  ExportInv'
<1>1. /\ found'[e] = F /\ threads'[e] = T
      /\ \A o \in Exporter \ {e} : found'[o] = found[o] /\ threads'[o] = threads[o]
      /\ fresh[e] = {} /\ at[e] = 0
  BY DEF ExportInv, ExportTypeOK, Collected
<1>2. ExportTypeOK' /\ OwnInstants'
  BY DEF ExportInv, ExportTypeOK, OwnInstants
<1>3. Collected'
  BY <1>1 DEF ExportInv, Collected
<1>4. \A k : InFile(k)' <=> InFile(k)
  BY DEF InFile
<1>5. \A o \in Exporter : Appending(o)' <=> Appending(o)
  BY <1>1 DEF Appending
<1>6. OneWriter => OneWriter'
  BY <1>1, <1>4, <1>5 DEF OneWriter
<1>7. OwnTail => OwnTail'
  BY <1>5 DEF OwnTail, NextKey
<1>8. (LinesApart => LinesApart') /\ (KeptInFile => KeptInFile')
  BY <1>4 DEF LinesApart, KeptInFile
<1> QED
  BY <1>2, <1>3, <1>6, <1>7, <1>8 DEF ExportInv

\* An export started, or reading.
LEMMA ReadsKeep ==
    ASSUME ExportInv, NEW e \in Exporter,
           \/ StartNamed(e) \/ StartWhereActive(e)
           \/ \E c \in Channel : ReadHistory(e, c) \/ HistoryFails(e, c)
           \/ \E p \in threads[e] : ReadThread(e, p) \/ ThreadFails(e, p)
    PROVE  ExportInv'
<1>1. ASSUME NEW channels \in SUBSET Channel, StartExport(e, channels) PROVE ExportInv'
  <2>1. threads[e] = {} /\ threads' = [threads EXCEPT ![e] = {}]
    BY <1>1 DEF StartExport, ExportInv, Collected, ExportTypeOK
  <2>2. since' \in [Exporter -> Nat]
    <3>1. (IF clock > Window THEN clock - Window ELSE 0) \in Nat
      BY ExportAssumption DEF ExportInv, ExportTypeOK
    <3> QED
      BY <1>1, <3>1 DEF StartExport, ExportInv, ExportTypeOK
  <2>3. /\ stage[e] = "idle" /\ stage' = [stage EXCEPT ![e] = "reading"] /\ found' = [found EXCEPT ![e] = {}]
        /\ todo' \in [Exporter -> SUBSET Channel] /\ runs' \in Nat
        /\ stage' \in [Exporter -> {"idle", "reading", "writing"}] /\ stage'[e] = "reading"
        /\ \A o \in Exporter \ {e} : stage'[o] = stage[o]
        /\ UNCHANGED <<exportSlack, fresh, at, corpusFile, exportHistory>>
    BY <1>1 DEF StartExport, ExportInv, ExportTypeOK
  <2> QED
    BY <2>1, <2>2, <2>3, ReadingKeeps
<1>2. ASSUME NEW c \in Channel, ReadHistory(e, c) \/ HistoryFails(e, c) PROVE ExportInv'
  <2>1. /\ stage[e] = "reading" /\ stage' = stage /\ since' = since /\ runs' = runs
        /\ todo' \in [Exporter -> SUBSET Channel]
        /\ UNCHANGED <<exportSlack, fresh, at, corpusFile, exportHistory>>
    BY <1>2 DEF ReadHistory, HistoryFails, ExportInv, ExportTypeOK
  <2>2. CASE HistoryFails(e, c)
    <3>1. found' = [found EXCEPT ![e] = found[e]] /\ threads' = [threads EXCEPT ![e] = threads[e]]
          /\ found[e] \in SUBSET Find /\ threads[e] \in SUBSET CorpusMessage
      BY <2>2 DEF HistoryFails, ExportInv, ExportTypeOK
    <3> QED
      BY <2>1, <3>1, ReadingKeeps DEF ExportInv, Collected, ExportTypeOK
  <2>3. CASE ReadHistory(e, c)
    <3> DEFINE page == RecentHistory(c, since[e], PageCap)
               F == found[e] \cup [msg : page, via : {"history"}]
    <3>1. page \subseteq posted /\ posted \subseteq CorpusMessage
      BY DEF RecentHistory, NewestOf, TopLevel, ExportInv, ExportTypeOK
    <3>2. F \in SUBSET Find /\ \A f \in F : f.msg \in posted
      BY <3>1 DEF ExportInv, ExportTypeOK, Collected, Find
    <3>3. {m \in page : RepliesTo(m) # {}} \in SUBSET CorpusMessage
      BY <3>1
    <3>4. found' = [found EXCEPT ![e] = F] /\ threads' = [threads EXCEPT ![e] = {m \in page : RepliesTo(m) # {}}]
      BY <2>3 DEF ReadHistory
    <3> HIDE DEF page, F
    <3> QED
      BY <2>1, <3>2, <3>3, <3>4, ReadingKeeps DEF ExportInv, ExportTypeOK
  <2> QED
    BY <1>2, <2>2, <2>3
<1>3. ASSUME NEW p \in threads[e], ReadThread(e, p) \/ ThreadFails(e, p) PROVE ExportInv'
  <2>1. /\ stage[e] = "reading" /\ stage' = stage /\ since' = since /\ runs' = runs /\ todo' = todo
        /\ UNCHANGED <<exportSlack, fresh, at, corpusFile, exportHistory>>
        /\ threads' = [threads EXCEPT ![e] = threads[e] \ {p}] /\ threads[e] \ {p} \in SUBSET CorpusMessage
    BY <1>3 DEF ReadThread, ThreadFails, ExportInv, ExportTypeOK, Collected
  <2>2. CASE ThreadFails(e, p)
    <3>1. found' = [found EXCEPT ![e] = found[e]] /\ found[e] \in SUBSET Find
      BY <2>2 DEF ThreadFails, ExportInv, ExportTypeOK
    <3> QED
      BY <2>1, <3>1, ReadingKeeps DEF ExportInv, Collected, ExportTypeOK
  <2>3. CASE ReadThread(e, p)
    <3> DEFINE F == found[e] \cup [msg : ExportReplies(p), via : {"thread"}]
    <3>1. ExportReplies(p) \subseteq posted /\ posted \subseteq CorpusMessage
      BY DEF ExportReplies, OldestOf, RepliesTo, ExportInv, ExportTypeOK
    <3>2. F \in SUBSET Find /\ \A f \in F : f.msg \in posted
      BY <3>1 DEF ExportInv, ExportTypeOK, Collected, Find
    <3>3. found' = [found EXCEPT ![e] = F]
      BY <2>3 DEF ReadThread
    <3> HIDE DEF F
    <3> QED
      BY <2>1, <3>2, <3>3, ReadingKeeps DEF ExportInv, ExportTypeOK
  <2> QED
    BY <1>3, <2>2, <2>3
<1> QED
  BY <1>1, <1>2, <1>3 DEF StartNamed, StartWhereActive, Participation

\* Slack goes on, and the clock.
LEMMA SlackKeeps ==
    ASSUME ExportInv, ClockAdvances \/ \E c \in Channel, k \in MessageKind : MessageArrives(c, k)
    PROVE  ExportInv'
<1>1. /\ posted \subseteq posted' /\ posted' \subseteq CorpusMessage /\ clock' = clock + 1 /\ clock \in Nat
      /\ \A m \in posted' : m \in posted \/ m.ts = clock
      /\ \A m, n \in posted' : m \notin posted /\ n \notin posted => m = n
      /\ UNCHANGED <<stage, exportReading, fresh, at, corpusFile, runs, exportHistory>>
  <2>1. CASE ClockAdvances
    BY <2>1 DEF ClockAdvances, ExportInv, ExportTypeOK
  <2>2. ASSUME NEW c \in Channel, NEW k \in MessageKind, MessageArrives(c, k)
        PROVE  /\ posted \subseteq posted' /\ posted' \subseteq CorpusMessage /\ clock' = clock + 1 /\ clock \in Nat
               /\ \A m \in posted' : m \in posted \/ m.ts = clock
               /\ \A m, n \in posted' : m \notin posted /\ n \notin posted => m = n
               /\ UNCHANGED <<stage, exportReading, fresh, at, corpusFile, runs, exportHistory>>
    <3>1. PICK root \in {0} \cup {m.ts : m \in {x \in posted : x.ch = c /\ x.kind.shape = "top"}} :
            posted' = posted \cup {[ch |-> c, ts |-> clock, root |-> root, kind |-> k]}
      BY <2>2 DEF MessageArrives
    <3>2. root \in Nat
      BY <3>1 DEF ExportInv, ExportTypeOK, CorpusMessage
    <3> DEFINE new == [ch |-> c, ts |-> clock, root |-> root, kind |-> k]
    <3>3. new \in CorpusMessage /\ new.ts = clock
      BY <3>2 DEF ExportInv, ExportTypeOK, CorpusMessage
    <3>4. posted' = posted \cup {new}
      BY <3>1
    <3> HIDE DEF new
    <3>5. clock' = clock + 1 /\ UNCHANGED <<stage, exportReading, fresh, at, corpusFile, runs, exportHistory>>
      BY <2>2 DEF MessageArrives
    <3> QED
      BY <3>3, <3>4, <3>5 DEF ExportInv, ExportTypeOK
  <2> QED
    BY <2>1, <2>2
<1>2. ExportTypeOK'
  BY <1>1 DEF ExportInv, ExportTypeOK
<1>3. OwnInstants'
  <2>1. \A m \in posted : m.ts \in Nat /\ m.ts < clock
    BY DEF ExportInv, ExportTypeOK, OwnInstants, CorpusMessage
  <2>2. \A m \in posted' : m.ts < clock'
    BY <1>1, <2>1
  <2>3. ASSUME NEW m \in posted', NEW n \in posted', m.ts = n.ts PROVE m = n
    BY <1>1, <2>1, <2>3 DEF ExportInv, OwnInstants
  <2> QED
    BY <2>2, <2>3 DEF OwnInstants
<1>4. Collected'
  BY <1>1 DEF ExportInv, Collected
<1>5. overlapped' = overlapped /\ (OneWriter => OneWriter') /\ (OwnTail => OwnTail')
      /\ (LinesApart => LinesApart') /\ (KeptInFile => KeptInFile')
  BY <1>1 DEF OneWriter, OwnTail, LinesApart, KeptInFile, InFile, Appending, NextKey
<1> QED
  BY <1>2, <1>3, <1>4, <1>5 DEF ExportInv

\* Messages with one key are one message.
LEMMA KeysApart ==
    ASSUME ExportInv, NEW m \in posted, NEW n \in posted, RecordKey(m) = RecordKey(n)
    PROVE  m = n
BY DEF ExportInv, OwnInstants, RecordKey

\* Dedup leaves of what was found what the file lacks, each message once.
LEMMA DedupIsNew ==
    ASSUME ExportInv, NEW e \in Exporter, NEW keys
    PROVE  LET new == Dedup(found[e], keys) IN
           /\ new \subseteq found[e] /\ \A f \in new : RecordKey(f.msg) \notin keys
           /\ \A f, g \in new : f.msg = g.msg => f = g
           /\ \A f \in found[e] : RecordKey(f.msg) \in keys \/ \E g \in new : RecordKey(g.msg) = RecordKey(f.msg)
<1> DEFINE new == Dedup(found[e], keys)
<1>1. found[e] \in SUBSET Find
  BY DEF ExportInv, ExportTypeOK
<1>2. \A f \in new : f \in found[e] /\ RecordKey(f.msg) \notin keys
  BY DEF Dedup
<1>3. ASSUME NEW f \in new, NEW g \in new, f.msg = g.msg PROVE f = g
  <2>1. f \in Find /\ g \in Find
    BY <1>1, <1>2
  <2>2. ASSUME NEW h \in new, NEW i \in new, h.msg = i.msg, h.via = "thread", i.via = "history" PROVE FALSE
    <3>1. h \in Find /\ i \in Find /\ i \in found[e]
      BY <1>1, <1>2
    <3>2. [h EXCEPT !.via = "history"] = i
      BY <2>2, <3>1 DEF Find
    <3> QED
      BY <2>2, <3>1, <3>2 DEF Dedup
  <2>3. f.via = g.via
    BY <1>3, <2>1, <2>2 DEF Find
  <2> QED
    BY <1>3, <2>1, <2>3 DEF Find
<1>4. ASSUME NEW f \in found[e], RecordKey(f.msg) \notin keys
      PROVE  \E g \in new : RecordKey(g.msg) = RecordKey(f.msg)
  <2>1. CASE f \in new
    BY <2>1
  <2>2. CASE f \notin new
    <3> DEFINE g == [f EXCEPT !.via = "history"]
    <3>1. g \in found[e] /\ f.via = "thread"
      BY <1>4, <2>2 DEF Dedup
    <3>2. g.msg = f.msg /\ g.via = "history"
      BY <1>1 DEF Find
    <3> HIDE DEF g
    <3>3. g \in new
      BY <1>4, <3>1, <3>2 DEF Dedup
    <3> QED
      BY <3>2, <3>3
  <2> QED
    BY <2>1, <2>2
<1> QED
  BY <1>2, <1>3, <1>4

\* An export that has read everything looks what the file holds.
LEMMA LoadKeeps ==
    ASSUME ExportInv, NEW e \in Exporter, LoadKeys(e)
    PROVE  ExportInv'
<1> DEFINE keys == CorpusKeys(lines, tail)
           new == Dedup(found[e], keys)
           tailKeys == {tail[i][1] : i \in DOMAIN tail}
<1>1. /\ stage[e] = "reading" /\ threads[e] = {} /\ stage' = [stage EXCEPT ![e] = "writing"]
      /\ fresh' = [fresh EXCEPT ![e] = new]
      /\ overlapped' = (overlapped \/ (new # {} /\ \E o \in Exporter \ {e} : Appending(o)))
      /\ UNCHANGED <<exportSlack, exportReading, at, corpusFile, runs, kept>>
      /\ seam' = [seam EXCEPT ![e] =
            IF tail = <<>> THEN {} ELSE tailKeys \cup (IF new = {} THEN {} ELSE {RecordKey(Oldest(new).msg)})]
  BY DEF LoadKeys
<1>2. /\ lines \in Seq(Pieces) /\ tail \in Pieces /\ found[e] \subseteq Find /\ at[e] = 0
      /\ \A f \in found[e] : f.msg \in posted /\ RecordKey(f.msg) \in Channel \X Nat
  <2>1. \A f \in found[e] : f.msg \in posted
    BY DEF ExportInv, Collected
  <2>2. \A m \in posted : RecordKey(m) \in Channel \X Nat
    BY DEF ExportInv, ExportTypeOK, CorpusMessage, RecordKey
  <2>3. at[e] = 0
    BY <1>1 DEF ExportInv, Collected
  <2> QED
    BY <2>1, <2>2, <2>3 DEF ExportInv, ExportTypeOK
<1>3. /\ new \subseteq found[e] /\ \A f \in new : RecordKey(f.msg) \notin keys
      /\ \A f, g \in new : f.msg = g.msg => f = g
      /\ \A f \in found[e] : RecordKey(f.msg) \in keys \/ \E g \in new : RecordKey(g.msg) = RecordKey(f.msg)
  BY DedupIsNew
<1>4. /\ \A k : InFile(k) => k \in keys
      /\ \A k \in keys : InFile(k) \/ (tail # <<>> /\ k \in tailKeys)
  BY <1>2, KeysRead
<1>5. new # {} => Oldest(new) \in new
  BY <1>2, <1>3, OldestIsOne
<1>6. tailKeys \subseteq Channel \X Nat
  <2>1. tail \in Seq(Piece)
    BY <1>2 DEF Pieces
  <2>2. \A i \in DOMAIN tail : tail[i] \in Piece
    BY <2>1
  <2> QED
    BY <2>2 DEF Piece
<1> HIDE DEF keys, new, tailKeys
<1>7. /\ fresh'[e] = new /\ stage'[e] = "writing" /\ found'[e] = found[e]
      /\ seam'[e] = IF tail = <<>> THEN {} ELSE tailKeys \cup (IF new = {} THEN {} ELSE {RecordKey(Oldest(new).msg)})
      /\ \A o \in Exporter \ {e} : fresh'[o] = fresh[o] /\ stage'[o] = stage[o] /\ seam'[o] = seam[o]
      /\ found' = found /\ at' = at /\ tail' = tail /\ lines' = lines /\ posted' = posted
  BY <1>1 DEF ExportInv, ExportTypeOK
<1>8. ExportTypeOK'
  <2>1. (IF tail = <<>> THEN {} ELSE tailKeys \cup (IF new = {} THEN {} ELSE {RecordKey(Oldest(new).msg)}))
          \in SUBSET (Channel \X Nat)
    BY <1>2, <1>3, <1>5, <1>6
  <2>2. seam' \in [Exporter -> SUBSET (Channel \X Nat)]
    BY <1>1, <2>1 DEF ExportInv, ExportTypeOK
  <2>3. fresh' \in [Exporter -> SUBSET Find] /\ overlapped' \in BOOLEAN
        /\ stage' \in [Exporter -> {"idle", "reading", "writing"}]
    BY <1>1, <1>2, <1>3 DEF ExportInv, ExportTypeOK
  <2> QED
    BY <1>1, <2>2, <2>3 DEF ExportInv, ExportTypeOK
<1>9. OwnInstants'
  BY <1>1 DEF ExportInv, OwnInstants
<1>10. Collected'
  BY <1>1, <1>2, <1>3, <1>7 DEF ExportInv, Collected
<1>11. \A k : InFile(k)' <=> InFile(k)
  BY <1>7 DEF InFile
<1>12. \A o \in Exporter \ {e} : Appending(o)' <=> Appending(o)
  BY <1>7 DEF Appending
<1>13. ASSUME ~ overlapped' PROVE OneWriter' /\ OwnTail' /\ LinesApart' /\ KeptInFile'
  <2>1. OneWriter /\ OwnTail /\ LinesApart /\ KeptInFile /\ (new = {} \/ \A o \in Exporter \ {e} : ~ Appending(o))
    BY <1>1, <1>13 DEF ExportInv
  <2>2. \A o, d \in Exporter : Appending(o)' /\ Appending(d)' => o = d
    BY <1>7, <1>12, <2>1 DEF OneWriter, Appending
  <2>3. ASSUME NEW o \in Exporter, stage'[o] = "writing", NEW f \in found'[o]
        PROVE  \/ RecordKey(f.msg) \in seam'[o] \/ InFile(RecordKey(f.msg))'
               \/ \E g \in fresh'[o] : RecordKey(g.msg) = RecordKey(f.msg)
    <3>1. CASE o = e
      BY <1>3, <1>4, <1>7, <1>11, <2>3, <3>1
    <3>2. CASE o # e
      BY <1>7, <1>11, <2>1, <2>3, <3>2 DEF OneWriter
    <3> QED
      BY <3>1, <3>2
  <2>4. ASSUME NEW o \in Exporter, NEW f \in Find, f \in fresh'[o] PROVE ~ InFile(RecordKey(f.msg))'
    BY <1>3, <1>4, <1>7, <1>11, <2>1, <2>4 DEF OneWriter
  <2>5. OneWriter'
    BY <2>2, <2>3, <2>4 DEF OneWriter
  <2>6. ASSUME NEW o \in Exporter, Appending(o)'
        PROVE  \/ NextKey(o)' \in seam'[o] /\ Len(tail') > at'[o]
               \/ at'[o] = 0 /\ tail' = <<>>
               \/ at'[o] = 1 /\ tail' = <<<<NextKey(o)', "head">>>>
               \/ at'[o] = 2 /\ tail' = Whole(NextKey(o)')
    <3>1. CASE o = e
      <4>1. new # {} /\ NextKey(e)' = RecordKey(Oldest(new).msg)
        BY <1>7, <2>6, <3>1 DEF Appending, NextKey
      <4>2. tail # <<>> => Len(tail) > 0
        BY <1>2 DEF Pieces
      <4> QED
        BY <1>2, <1>7, <3>1, <4>1, <4>2
    <3>2. CASE o # e
      <4>1. NextKey(o)' = NextKey(o)
        BY <1>7, <3>2 DEF NextKey
      <4> QED
        BY <1>7, <1>12, <2>1, <2>6, <3>2, <4>1 DEF OwnTail
    <3> QED
      BY <3>1, <3>2
  <2>7. LinesApart' /\ KeptInFile'
    BY <1>1, <1>7, <1>11, <2>1 DEF LinesApart, KeptInFile
  <2> QED
    BY <2>5, <2>6, <2>7 DEF OwnTail
<1> QED
  BY <1>8, <1>9, <1>10, <1>13 DEF ExportInv

\* What a piece does to the tail, and what a newline makes of it.
LEMMA TailGrows ==
    ASSUME NEW t \in Pieces, NEW k \in Channel \X Nat, NEW half \in {"head", "rest"}
    PROVE  /\ Append(t, <<k, half>>) \in Pieces /\ Len(Append(t, <<k, half>>)) = Len(t) + 1
           /\ t = <<>> => Append(t, <<k, half>>) = <<<<k, half>>>>
           /\ t = <<<<k, "head">>>> => Append(t, <<k, "rest">>) = Whole(k)
<1>1. \A p \in {"head", "rest"} : <<k, p>> \in Piece
  BY DEF Piece
<1>2. t \in Seq(Piece)
  BY DEF Pieces
<1>3. ASSUME NEW x \in Piece
      PROVE  /\ Append(t, x) \in Seq(Piece) /\ Len(Append(t, x)) = Len(t) + 1
             /\ \A i \in 1 .. Len(t) : Append(t, x)[i] = t[i]
             /\ Append(t, x)[Len(t) + 1] = x
  BY <1>2
<1>4. ASSUME t = <<>> PROVE Append(t, <<k, half>>) = <<<<k, half>>>>
  <2> DEFINE x == <<k, half>>
  <2>1. x \in Piece /\ Len(t) = 0
    BY <1>1, <1>4
  <2> HIDE DEF x
  <2>2. <<x>> \in Seq(Piece) /\ Len(<<x>>) = 1 /\ <<x>>[1] = x
    BY <2>1
  <2>3. Append(t, x) = <<x>>
    BY <1>3, <2>1, <2>2, SeqEqual
  <2> QED
    BY <2>3 DEF x
<1>5. ASSUME t = <<<<k, "head">>>> PROVE Append(t, <<k, "rest">>) = Whole(k)
  <2> DEFINE x == <<k, "rest">>
             y == <<k, "head">>
  <2>1. x \in Piece /\ y \in Piece /\ Len(t) = 1 /\ t[1] = y /\ Whole(k) = <<y, x>>
    BY <1>1, <1>5 DEF Whole
  <2> HIDE DEF x, y
  <2>2. <<y, x>> \in Seq(Piece) /\ Len(<<y, x>>) = 2 /\ <<y, x>>[1] = y /\ <<y, x>>[2] = x
    BY <2>1
  <2>3. /\ Append(t, x) \in Seq(Piece) /\ Len(Append(t, x)) = 2
        /\ Append(t, x)[1] = y /\ Append(t, x)[2] = x
    BY <1>3, <2>1
  <2>4. \A i \in 1 .. 2 : Append(t, x)[i] = <<y, x>>[i]
    <3>1. \A i \in 1 .. 2 : i = 1 \/ i = 2
      OBVIOUS
    <3> QED
      BY <2>2, <2>3, <3>1
  <2>5. Append(t, x) = <<y, x>>
    BY <2>2, <2>3, <2>4, SeqEqual
  <2> QED
    BY <2>1, <2>5 DEF x
<1>6. <<k, half>> \in Piece
  BY <1>1
<1> QED
  BY <1>3, <1>4, <1>5, <1>6 DEF Pieces

\* A piece of the record.
LEMMA PieceKeeps ==
    ASSUME ExportInv, NEW e \in Exporter, AppendPiece(e), at[e] < 2
    PROVE  ExportInv'
<1> DEFINE k == NextKey(e)
<1>1. /\ Appending(e) /\ at[e] \in {0, 1} /\ at' = [at EXCEPT ![e] = at[e] + 1]
      /\ tail' = Append(tail, <<k, IF at[e] = 0 THEN "head" ELSE "rest">>)
      /\ UNCHANGED <<exportSlack, stage, exportReading, fresh, lines, runs, exportHistory>>
  BY DEF AppendPiece, NextKey, ExportInv, ExportTypeOK
<1>2. k \in Channel \X Nat /\ tail \in Pieces
  <2>1. Oldest(fresh[e]) \in fresh[e]
    BY <1>1, OldestIsOne DEF Appending, ExportInv, ExportTypeOK
  <2> QED
    BY <2>1 DEF NextKey, RecordKey, ExportInv, ExportTypeOK, Find, CorpusMessage
<1> HIDE DEF k
<1>3. /\ tail' \in Pieces /\ Len(tail') = Len(tail) + 1
      /\ at[e] = 0 /\ tail = <<>> => tail' = <<<<k, "head">>>>
      /\ at[e] = 1 /\ tail = <<<<k, "head">>>> => tail' = Whole(k)
  <2>1. CASE at[e] = 0
    <3>1. tail' = Append(tail, <<k, "head">>)
      BY <1>1, <2>1
    <3>2. /\ Append(tail, <<k, "head">>) \in Pieces /\ Len(Append(tail, <<k, "head">>)) = Len(tail) + 1
          /\ tail = <<>> => Append(tail, <<k, "head">>) = <<<<k, "head">>>>
      BY <1>2, TailGrows
    <3> QED
      BY <2>1, <3>1, <3>2
  <2>2. CASE at[e] = 1
    <3>1. tail' = Append(tail, <<k, "rest">>)
      BY <1>1, <2>2
    <3>2. /\ Append(tail, <<k, "rest">>) \in Pieces /\ Len(Append(tail, <<k, "rest">>)) = Len(tail) + 1
          /\ tail = <<<<k, "head">>>> => Append(tail, <<k, "rest">>) = Whole(k)
      BY <1>2, TailGrows
    <3> QED
      BY <2>2, <3>1, <3>2
  <2> QED
    BY <1>1, <2>1, <2>2
<1>4. ExportTypeOK' /\ OwnInstants'
  BY <1>1, <1>3 DEF ExportInv, ExportTypeOK, OwnInstants
<1>5. at'[e] = at[e] + 1 /\ (\A o \in Exporter \ {e} : at'[o] = at[o]) /\ fresh[e] # {}
  BY <1>1 DEF ExportInv, ExportTypeOK, Appending
<1>6. Collected'
  BY <1>1, <1>5 DEF ExportInv, Collected
<1>7. OneWriter => OneWriter' /\ (LinesApart => LinesApart') /\ (KeptInFile => KeptInFile')
  BY <1>1 DEF OneWriter, LinesApart, KeptInFile, InFile, Appending
<1>8. ASSUME OneWriter, OwnTail PROVE OwnTail'
  <2>1. \A o \in Exporter : Appending(o)' => o = e
    BY <1>1, <1>8 DEF OneWriter, Appending
  <2>2. NextKey(e)' = k /\ seam' = seam
    BY <1>1 DEF NextKey, k
  <2>3. \/ k \in seam[e] /\ Len(tail) > at[e]
        \/ at[e] = 0 /\ tail = <<>>
        \/ at[e] = 1 /\ tail = <<<<k, "head">>>>
    BY <1>1, <1>8 DEF OwnTail, k
  <2>4. Len(tail) \in Nat /\ at[e] \in Nat
    BY <1>1, <1>2 DEF Pieces
  <2>5. \/ k \in seam'[e] /\ Len(tail') > at'[e]
        \/ at'[e] = 1 /\ tail' = <<<<k, "head">>>>
        \/ at'[e] = 2 /\ tail' = Whole(k)
    BY <1>3, <1>5, <2>2, <2>3, <2>4
  <2> QED
    BY <2>1, <2>2, <2>5 DEF OwnTail
<1> QED
  BY <1>1, <1>4, <1>6, <1>7, <1>8 DEF ExportInv

\* The newline that ends the record.
LEMMA NewlineKeeps ==
    ASSUME ExportInv, NEW e \in Exporter, AppendPiece(e), at[e] = 2
    PROVE  ExportInv'
<1> DEFINE r == Oldest(fresh[e])
           k == NextKey(e)
<1>1. /\ Appending(e) /\ tail' = <<>> /\ lines' = Append(lines, Line(tail))
      /\ at' = [at EXCEPT ![e] = 0] /\ fresh' = [fresh EXCEPT ![e] = fresh[e] \ {r}]
      /\ UNCHANGED <<exportSlack, stage, exportReading, runs, exportHistory>>
  BY DEF AppendPiece, ExportInv, ExportTypeOK
<1>2. r \in fresh[e] /\ fresh[e] \subseteq Find /\ tail \in Pieces /\ lines \in Seq(Pieces) /\ RecordKey(r.msg) = k
  BY <1>1, OldestIsOne DEF Appending, ExportInv, ExportTypeOK, NextKey
<1> HIDE DEF r, k
<1>3. Line(tail) \in Pieces
  <2>1. Garbled \in Pieces
    BY DEF Garbled, Pieces
  <2> QED
    BY <1>2, <2>1 DEF Line
<1>4. /\ lines' \in Seq(Pieces) /\ DOMAIN lines' = DOMAIN lines \cup {Len(lines) + 1} /\ lines'[Len(lines) + 1] = Line(tail)
      /\ \A i \in DOMAIN lines : lines'[i] = lines[i] /\ i # Len(lines) + 1
  BY <1>1, <1>2, <1>3
<1>5. /\ fresh'[e] = fresh[e] \ {r} /\ at'[e] = 0 /\ tail' \in Pieces
      /\ \A o \in Exporter \ {e} : fresh'[o] = fresh[o] /\ at'[o] = at[o]
  <2>1. <<>> \in Pieces
    BY DEF Pieces
  <2> QED
    BY <1>1, <2>1 DEF ExportInv, ExportTypeOK
<1>6. ExportTypeOK' /\ OwnInstants'
  BY <1>1, <1>2, <1>4, <1>5 DEF ExportInv, ExportTypeOK, OwnInstants
<1>7. Collected'
  BY <1>1, <1>5 DEF ExportInv, Collected
<1>8. ASSUME OneWriter, OwnTail, LinesApart, KeptInFile
      PROVE  OneWriter' /\ OwnTail' /\ LinesApart' /\ KeptInFile'
  <2>1. Line(tail) = Garbled \/ (Readable(tail) /\ Line(tail) = tail)
    BY RecordsAreRead
  <2>2. \/ k \in seam[e] /\ Line(tail) = Garbled
        \/ tail = Whole(k) /\ Line(tail) = Whole(k)
    <3>1. CASE k \in seam[e] /\ Len(tail) > 2
      <4> DEFINE n == Len(tail)
      <4>0. n \in Nat
        BY <1>2, LenProperties DEF Pieces
      <4>1. Len(tail) # 2
        <5>1. n > 2
          BY <3>1
        <5> HIDE DEF n
        <5>2. n # 2
          BY <4>0, <5>1
        <5> QED
          BY <5>2 DEF n
      <4>2. ~ Readable(tail)
        BY <4>1, RecordsAreRead
      <4> QED
        BY <2>1, <3>1, <4>2
    <3>2. CASE tail = Whole(k)
      BY <2>1, <3>2, RecordsAreRead DEF Line
    <3>3. \/ k \in seam[e] /\ Len(tail) > at[e]
          \/ at[e] = 0 \/ at[e] = 1 \/ tail = Whole(k)
      BY <1>1, <1>8 DEF OwnTail, k
    <3> QED
      BY <3>1, <3>2, <3>3
  <2>3. ~ InFile(k)
    BY <1>2, <1>8 DEF OneWriter
  <2>4. \A q : InFile(q)' <=> InFile(q) \/ Line(tail) = Whole(q)
    BY <1>4 DEF InFile
  <2>5. \A q : Whole(q) = Whole(k) => q = k
    BY RecordsAreRead
  <2>6. \A o \in Exporter : Appending(o)' => o = e
    BY <1>1, <1>5, <1>8 DEF OneWriter, Appending
  <2>7. ASSUME NEW f \in fresh'[e] PROVE ~ InFile(RecordKey(f.msg))'
    <3>1. f \in fresh[e] /\ f # r /\ f.msg \in posted /\ r.msg \in posted
      BY <1>2, <1>5, <2>7 DEF ExportInv, Collected
    <3>2. RecordKey(f.msg) # k
      BY <1>2, <3>1, KeysApart DEF ExportInv, Collected
    <3>3. ~ InFile(RecordKey(f.msg))
      BY <1>2, <1>8, <3>1 DEF OneWriter
    <3> QED
      BY <2>2, <2>4, <2>5, <3>2, <3>3, RecordsAreRead
  <2>8. ASSUME NEW o \in Exporter, stage'[o] = "writing", NEW f \in found'[o]
        PROVE  \/ RecordKey(f.msg) \in seam'[o] \/ InFile(RecordKey(f.msg))'
               \/ \E g \in fresh'[o] : RecordKey(g.msg) = RecordKey(f.msg)
    <3>1. \/ RecordKey(f.msg) \in seam[o] \/ InFile(RecordKey(f.msg))
          \/ \E g \in fresh[o] : RecordKey(g.msg) = RecordKey(f.msg)
      BY <1>1, <1>8, <2>8 DEF OneWriter
    <3>2. CASE o = e
      BY <1>1, <1>2, <1>5, <2>2, <2>4, <3>1, <3>2
    <3>3. CASE o # e
      BY <1>1, <1>5, <2>4, <3>1, <3>3
    <3> QED
      BY <3>2, <3>3
  <2>9. OneWriter'
    <3>1. \A o \in Exporter, f \in Find : f \in fresh'[o] => ~ InFile(RecordKey(f.msg))'
      <4>1. \A o \in Exporter \ {e} : fresh'[o] = {}
        BY <1>1, <1>5, <2>6 DEF Appending, ExportInv, Collected
      <4> QED
        BY <2>7, <4>1
    <3> QED
      BY <2>6, <2>8, <3>1 DEF OneWriter
  <2>10. OwnTail'
    BY <1>1, <1>5, <2>6 DEF OwnTail
  <2>11. LinesApart'
    BY <1>4, <1>8, <2>2, <2>3 DEF LinesApart, InFile
  <2>12. KeptInFile'
    BY <1>1, <1>8, <2>4 DEF KeptInFile
  <2> QED
    BY <2>9, <2>10, <2>11, <2>12
<1> QED
  BY <1>1, <1>6, <1>7, <1>8 DEF ExportInv

\* An export that comes to its end, or is interrupted.
LEMMA EndKeeps ==
    ASSUME ExportInv, NEW e \in Exporter, FinishExport(e) \/ Interrupt(e)
    PROVE  ExportInv'
<1>1. /\ stage' = [stage EXCEPT ![e] = "idle"] /\ found' = [found EXCEPT ![e] = {}]
      /\ seam' = [seam EXCEPT ![e] = {}] /\ stage[e] # "idle"
      /\ fresh' = [fresh EXCEPT ![e] = {}] /\ at' = [at EXCEPT ![e] = 0]
      /\ threads' = [threads EXCEPT ![e] = {}] /\ todo' \in [Exporter -> SUBSET Channel]
      /\ UNCHANGED <<exportSlack, since, corpusFile, runs, overlapped>>
  <2>1. CASE Interrupt(e)
    BY <2>1 DEF Interrupt, ExportInv, ExportTypeOK
  <2>2. CASE FinishExport(e)
    <3>1. stage[e] = "writing" /\ fresh[e] = {} /\ at[e] = 0 /\ threads[e] = {}
      BY <2>2 DEF FinishExport, ExportInv, Collected
    <3>2. /\ fresh = [fresh EXCEPT ![e] = {}] /\ at = [at EXCEPT ![e] = 0] /\ threads = [threads EXCEPT ![e] = {}]
          /\ todo \in [Exporter -> SUBSET Channel]
      BY <3>1 DEF ExportInv, ExportTypeOK
    <3> QED
      BY <2>2, <3>1, <3>2 DEF FinishExport
  <2> QED
    BY <2>1, <2>2
<1>2. kept' = kept \/ (stage[e] = "writing" /\ fresh[e] = {} /\ kept' = kept \cup (KeysOf(found[e]) \ seam[e]))
  BY DEF FinishExport, Interrupt
<1>3. KeysOf(found[e]) \subseteq Channel \X Nat
  BY DEF KeysOf, RecordKey, ExportInv, ExportTypeOK, Find, CorpusMessage
<1>4. ExportTypeOK' /\ OwnInstants'
  BY <1>1, <1>2, <1>3 DEF ExportInv, ExportTypeOK, OwnInstants
<1>5. /\ stage'[e] = "idle" /\ found'[e] = {} /\ fresh'[e] = {} /\ at'[e] = 0 /\ threads'[e] = {}
      /\ \A o \in Exporter \ {e} :
            /\ stage'[o] = stage[o] /\ found'[o] = found[o] /\ fresh'[o] = fresh[o] /\ at'[o] = at[o]
            /\ threads'[o] = threads[o] /\ seam'[o] = seam[o]
  BY <1>1 DEF ExportInv, ExportTypeOK
<1>6. Collected'
  BY <1>1, <1>5 DEF ExportInv, Collected
<1>7. \A k : InFile(k)' <=> InFile(k)
  BY <1>1 DEF InFile
<1>8. ASSUME OneWriter, OwnTail, LinesApart, KeptInFile
      PROVE  OneWriter' /\ OwnTail' /\ LinesApart' /\ KeptInFile'
  <2>1. \A o \in Exporter : Appending(o)' => Appending(o) /\ o # e
    BY <1>5 DEF Appending
  <2>2. OneWriter'
    BY <1>5, <1>7, <1>8, <2>1 DEF OneWriter
  <2>3. \A o \in Exporter \ {e} : NextKey(o)' = NextKey(o)
    BY <1>5 DEF NextKey
  <2>4. OwnTail' /\ LinesApart'
    BY <1>1, <1>5, <1>8, <2>1, <2>3 DEF OwnTail, LinesApart
  <2>5. ASSUME NEW k \in KeysOf(found[e]) \ seam[e], stage[e] = "writing", fresh[e] = {} PROVE InFile(k)
    BY <1>8, <2>5 DEF OneWriter, KeysOf
  <2>6. KeptInFile'
    BY <1>2, <1>7, <1>8, <2>5 DEF KeptInFile
  <2> QED
    BY <2>2, <2>4, <2>6
<1> QED
  BY <1>1, <1>4, <1>6, <1>8 DEF ExportInv

\* Every action keeps the invariant.
LEMMA ExportStepKeeps == ExportInv /\ [ExportNext]_exportVars => ExportInv'
<1> SUFFICES ASSUME ExportInv, [ExportNext]_exportVars PROVE ExportInv'
  OBVIOUS
<1>1. ASSUME NEW e \in Exporter, ExportStep(e) PROVE ExportInv'
  <2>1. CASE AppendPiece(e)
    <3> DEFINE n == at[e]
    <3>1. n \in 0..2
      BY DEF ExportInv, ExportTypeOK
    <3> HIDE DEF n
    <3>2. n < 2 \/ n = 2
      BY <3>1
    <3> USE DEF n
    <3> QED
      BY <2>1, <3>2, PieceKeeps, NewlineKeeps
  <2> QED
    BY <1>1, <2>1, ReadsKeep, LoadKeeps, EndKeeps DEF ExportStep
<1>2. CASE UNCHANGED exportVars
  BY <1>2 DEF ExportInv, ExportTypeOK, OwnInstants, Collected, OneWriter, OwnTail, LinesApart, KeptInFile,
              InFile, NextKey, Appending
<1> QED
  BY <1>1, <1>2, SlackKeeps DEF ExportNext

\* As long as no two exports append at once, the corpus holds every message once,
\* and what a finished export found and did not join to an interrupted end stays
\* readable, wherever earlier and later ones are interrupted (export.go, record.go).
THEOREM CorpusIsSound == ExportSpec => []FoundIsKeptOnce
<1>1. ExportInv => FoundIsKeptOnce
  <2> SUFFICES ASSUME ExportInv PROVE FoundIsKeptOnce
    OBVIOUS
  <2>1. lines \in Seq(Pieces) /\ tail \in Pieces
    BY DEF ExportInv, ExportTypeOK
  <2> QED
    BY <2>1, KeysRead DEF ExportInv, LinesApart, KeptInFile, FoundIsKeptOnce, OneCopy, CapturedStays
<1> QED
  BY <1>1, ExportInvInit, ExportStepKeeps, PTL DEF ExportSpec

(***************************************************************************)
(* The six parts together.                                                 *)
(***************************************************************************)
WritesInv ==
    ExportInv /\ PostInv /\ CanvasInv /\ DeltaInv /\ FilesInv /\ CursorsTypeOK

\* A step is a step or a stutter of each part.
LEMMA WritesStep ==
    ASSUME [Next]_writesVars
    PROVE  /\ [ExportNext]_exportVars /\ [PostNext]_postVars /\ [CanvasNext]_canvasVars
           /\ [DeltaNext]_deltaVars /\ [FileNext]_fileVars /\ [CursorsNext]_cursorVars
BY DEF Next, writesVars

LEMMA WritesInvariant == Spec => []WritesInv
<1>1. Init => WritesInv
  BY ExportInvInit, PostInvInit, CanvasInvInit, DeltaInvInit, FilesInvInit, CursorsInvInit
  DEF Init, WritesInv, CursorsInv
<1>2. WritesInv /\ [Next]_writesVars => WritesInv'
  BY WritesStep, ExportStepKeeps, PostStep, CanvasStepKeeps, DeltaStep, FilesStep,
     CursorsTypeStep
  DEF WritesInv
<1> QED
  BY <1>1, <1>2, PTL DEF Spec

\* Whichever part runs, every variable of what the server writes stays in its type.
THEOREM WritesTypeCorrect == Spec => []TypeOK
<1>1. WritesInv => TypeOK
  BY DEF WritesInv, TypeOK, ExportInv, PostInv, CanvasInv, DeltaInv, FilesInv
<1> QED
  BY <1>1, WritesInvariant, PTL

\* A behaviour of the whole is one of each part.
LEMMA EachWritesItsOwn ==
    Spec => /\ ExportSpec /\ PostSpec /\ CanvasSpec
            /\ DeltaSpec /\ FileSpec /\ CursorsSpec
<1>1. Init => /\ ExportInit /\ PostInit /\ CanvasInit
              /\ DeltaInit /\ FileInit /\ CursorsInit
  BY DEF Init
<1> QED
  BY <1>1, WritesStep, PTL
  DEF Spec, ExportSpec, PostSpec, CanvasSpec, DeltaSpec, FileSpec, CursorsSpec

\* What each part promises, it promises in the whole: a corpus that holds what
\* was found once, one post per message, edits of the section asked for on the
\* canvas meant, no edit passed and no file lost; and where the labels survive
\* the token, cursors that only advance and leave nothing behind.
THEOREM WritesAreSound ==
    Spec => /\ []( /\ FoundIsKeptOnce /\ NoSecondPost /\ TheTabIsTheTarget
                   /\ EditsAreNotPassed /\ FilesAreAccountedFor)
            /\ OnlyTheSectionAskedFor
            /\ PlainLabels => []NothingBehind /\ CursorsMonotone /\ Delivers
<1>1. Spec => []( /\ FoundIsKeptOnce /\ NoSecondPost /\ TheTabIsTheTarget
                 /\ EditsAreNotPassed /\ FilesAreAccountedFor)
  BY EachWritesItsOwn, CorpusIsSound, NothingIsPostedTwice, ChannelMeansItsTab, NoEditIsPassed, FilesKeptApart, PTL
<1>2. Spec => OnlyTheSectionAskedFor
  BY EachWritesItsOwn, OnlyThatSectionChanges, PTL
<1>3. Spec /\ PlainLabels => []NothingBehind /\ CursorsMonotone /\ Delivers
  BY EachWritesItsOwn, NothingFallsBehind, CursorsOnlyAdvance, EveryWorkspaceDelivered, PTL
<1> QED
  BY <1>1, <1>2, <1>3, PTL
=============================================================================
