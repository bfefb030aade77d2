--------------------------- MODULE Answer_proofs ----------------------------
(***************************************************************************)
(* What the unread summary tells and hides, for every workspace, message,  *)
(* option and failed phase.                                                *)
(***************************************************************************)
EXTENDS UnreadAnswer, Timestamps_proofs, FiniteSetTheorems, SequenceTheorems, TLAPS

Message == [room : Room, by : {"me", "peer", "bot"}, says : {"live", "ack", "ping"}, root : 0..MaxSent]

\* Replies come after their root, in its conversation.
SentOK ==
    /\ sent \in Seq(Message) /\ Len(sent) <= MaxSent
    /\ \A i \in 1..Len(sent) : sent[i].root < i

\* An entry holds messages of its conversation, the replies by their root.
EntryOK(r, e) ==
    /\ e.priority \in BOOLEAN
    /\ DOMAIN e.replies \subseteq 0..MaxSent
    /\ \A i \in e.messages : i \in 1..Len(sent) /\ sent[i].room = r /\ sent[i].root = 0
    /\ \A p \in DOMAIN e.replies : \A i \in DOMAIN e.replies[p] :
          i \in 1..Len(sent) /\ sent[i].room = r /\ sent[i].root = p

\* What is read page by page stands in the order it was posted.
ReadOK(r, e) ==
    EntryOK(r, e) /\ \A p \in DOMAIN e.replies : \A i \in DOMAIN e.replies[p] : e.replies[p][i] = i

\* What is searched for is never the operator's own.
HitOK(r, e) ==
    /\ EntryOK(r, e)
    /\ \A p \in DOMAIN e.replies : \A i \in DOMAIN e.replies[p] :
          sent[i].by # "me" /\ e.replies[p][i] \in -MaxSent .. MaxSent

\* A merged reply out of its order is not the operator's, and stands behind
\* those in order.
MergedOK(r, e) ==
    /\ EntryOK(r, e)
    /\ \A p \in DOMAIN e.replies : \A i \in DOMAIN e.replies[p] :
          \/ e.replies[p][i] = i
          \/ sent[i].by # "me" /\ e.replies[p][i] \in Int /\ e.replies[p][i] > MaxSent

LaneOK(lane, entries) ==
    /\ DOMAIN entries \subseteq Room
    /\ \A r \in DOMAIN entries :
          IF lane \in {"thread-mentions", "own-threads"} THEN HitOK(r, entries[r]) ELSE ReadOK(r, entries[r])

Answering == [opted : AnswerCall, view : AnswerView]

-----------------------------------------------------------------------------
(***************************************************************************)
(* The lanes.                                                              *)
(***************************************************************************)
\* The members of a sequence of messages are messages.
LEMMA MessageType ==
    ASSUME SentOK, NEW i \in 1..Len(sent)
    PROVE  /\ Len(sent) \in Nat /\ i \in Nat /\ i # 0
           /\ sent[i] \in Message /\ sent[i].room \in Room /\ sent[i].root \in 0..MaxSent
           /\ sent[i].root \in Nat
<1>1. Len(sent) \in Nat /\ DOMAIN sent = 1..Len(sent) BY LenProperties DEF SentOK
<1>2. sent[i] \in Message BY <1>1, ElementOfSeq DEF SentOK
<1>3. sent[i].room \in Room /\ sent[i].root \in 0..MaxSent BY <1>2 DEF Message
<1>4. MaxSent \in Nat BY AnswerAssumption
<1> QED BY <1>1, <1>2, <1>3, <1>4

\* What a lane sees has been sent.
LEMMA SeenType ==
    ASSUME SentOK, NEW lane, NEW r
    PROVE  /\ Seen(lane) \subseteq 1..Len(sent)
           /\ In(lane, r) \subseteq 1..Len(sent)
           /\ \A i \in In(lane, r) : i \in 1..Len(sent) /\ sent[i].room = r
<1>1. Len(sent) \in Nat BY LenProperties DEF SentOK
<1>2. Seen(lane) \subseteq 1..Len(sent) BY <1>1 DEF Seen
<1> QED BY <1>2 DEF In

\* Replies fetched are replies of the parent asked for.
LEMMA FetchType ==
    ASSUME SentOK, NEW lane, NEW r, NEW parents, NEW since,
           NEW tops, \A i \in tops : i \in 1..Len(sent) /\ sent[i].room = r /\ sent[i].root = 0
    PROVE  ReadOK(r, Entry(tops, FetchReplies(lane, r, parents, since)))
<1> DEFINE newer(p) == {i \in In(lane, r) : sent[i].root = p /\ i > since}
           replies == FetchReplies(lane, r, parents, since)
           e == Entry(tops, replies)
<1>1. e.messages = tops /\ e.replies = replies /\ e.priority = FALSE BY DEF Entry
<1>2. \A p \in DOMAIN replies : DOMAIN replies[p] = newer(p) /\ \A i \in newer(p) : replies[p][i] = i
      BY DEF FetchReplies, Ascending
<1>3. \A p : \A i \in newer(p) : i \in 1..Len(sent) /\ sent[i].room = r /\ sent[i].root = p BY SeenType
<1>4. \A p \in DOMAIN replies : newer(p) # {} BY DEF FetchReplies
<1> HIDE DEF newer, replies, e
<1>5. DOMAIN replies \subseteq 0..MaxSent BY <1>3, <1>4, MessageType
<1>6. ASSUME NEW p \in DOMAIN replies, NEW i \in DOMAIN replies[p]
      PROVE  i \in 1..Len(sent) /\ sent[i].room = r /\ sent[i].root = p
      BY <1>2, <1>3
<1>7. EntryOK(r, e) BY <1>1, <1>5, <1>6 DEF EntryOK
<1>8. ReadOK(r, e) BY <1>1, <1>2, <1>7 DEF ReadOK
<1> QED BY <1>8 DEF e, replies

\* Top-level posts of a conversation.
LEMMA TopType ==
    ASSUME SentOK, NEW lane, NEW r, NEW since, NEW i \in TopAfter(lane, r, since)
    PROVE  i \in 1..Len(sent) /\ sent[i].room = r /\ sent[i].root = 0
BY SeenType DEF TopAfter

\* A lane without its empty entries.
LEMMA HoldingType ==
    ASSUME NEW entries
    PROVE  /\ DOMAIN Holding(entries) \subseteq DOMAIN entries
           /\ \A r \in DOMAIN Holding(entries) : Holding(entries)[r] = entries[r] /\ Content(entries[r]) # {}
           /\ \A r \in DOMAIN entries : Content(entries[r]) # {} => r \in DOMAIN Holding(entries)
BY DEF Holding, Restrict

\* A phase that returns nothing.
LEMMA NothingType ==
    DOMAIN Nothing = {} /\ \A lane : LaneOK(lane, Nothing)
BY DEF LaneOK, Nothing

\* The unread pass.
LEMMA UnreadType ==
    ASSUME SentOK
    PROVE  LaneOK("unread", UnreadLane)
<1> DEFINE since(r) == readUpTo[r]
           floor(r) == IF Len(sent) - LookbackTicks < since(r) THEN Len(sent) - LookbackTicks ELSE since(r)
           entry(r) == Entry(TopAfter("unread", r, since(r)),
                             FetchReplies("unread", r, TopAfter("unread", r, floor(r) - 1), since(r)))
           all == [r \in Room |-> entry(r)]
<1>1. \A r \in Room : ReadOK(r, entry(r)) BY FetchType, TopType
<1>2. UnreadLane = Holding(all) BY DEF UnreadLane
<1> HIDE DEF entry
<1>3. DOMAIN UnreadLane \subseteq Room /\ \A r \in DOMAIN UnreadLane : UnreadLane[r] = entry(r)
      BY <1>2, HoldingType
<1> QED BY <1>1, <1>3 DEF LaneOK

\* The DM window and the priority channels.
LEMMA ActivityType ==
    ASSUME SentOK, NEW lane, NEW r, NEW since
    PROVE  /\ ReadOK(r, ActivitySince(lane, r, since))
           /\ ReadOK(r, [ActivitySince(lane, r, since) EXCEPT !.priority = TRUE])
<1> DEFINE tops == TopAfter(lane, r, since)
           e == ActivitySince(lane, r, since)
           f == [e EXCEPT !.priority = TRUE]
<1>1. ReadOK(r, e) BY FetchType, TopType DEF ActivitySince
<1>2. f.messages = e.messages /\ f.replies = e.replies /\ f.priority = TRUE BY DEF ActivitySince, Entry
<1> HIDE DEF e, f
<1>3. ReadOK(r, f) BY <1>1, <1>2 DEF ReadOK, EntryOK
<1> QED BY <1>1, <1>3 DEF e, f

\* The window, when the call asks for it.
LEMMA WindowType ==
    ASSUME SentOK
    PROVE  LaneOK("dm-window", WindowLane)
<1>1. DMRoom \subseteq Room BY AnswerAssumption
<1>2. CASE ~ opted.dmWindow BY <1>2, NothingType DEF WindowLane
<1>3. CASE opted.dmWindow
  <2> DEFINE all == [r \in DMRoom |-> ActivitySince("dm-window", r, 0)]
  <2>1. WindowLane = Holding(all) BY <1>3 DEF WindowLane
  <2>2. DOMAIN WindowLane \subseteq DMRoom
        /\ \A r \in DOMAIN WindowLane : WindowLane[r] = ActivitySince("dm-window", r, 0)
        BY <2>1, HoldingType
  <2>3. ASSUME NEW r \in DOMAIN WindowLane
        PROVE  ReadOK(r, WindowLane[r])
    <3>1. ReadOK(r, ActivitySince("dm-window", r, 0)) BY ActivityType
    <3> QED BY <2>2, <3>1
  <2> QED BY <1>1, <2>2, <2>3 DEF LaneOK
<1> QED BY <1>2, <1>3

\* The priority channels, whether they hold anything or not.
LEMMA PriorityType ==
    ASSUME SentOK
    PROVE  LaneOK("priority", PriorityLane)
<1>1. PriorityRoom \subseteq Room BY AnswerAssumption
<1>2. DOMAIN PriorityLane = PriorityRoom
      /\ \A r \in PriorityRoom :
            PriorityLane[r] = [ActivitySince("priority", r, opted.after) EXCEPT !.priority = TRUE]
      BY DEF PriorityLane
<1> QED BY <1>1, <1>2, ActivityType DEF LaneOK

\* What is searched for the operator: posts of the others, newest first.
LEMMA MentionType ==
    ASSUME SentOK
    PROVE  LaneOK("thread-mentions", MentionLane)
<1> DEFINE hits(r) == {i \in In("thread-mentions", r) :
                         /\ sent[i].by # "me" /\ (r \in DMRoom \/ sent[i].says = "ping")
                         /\ ~ (answering.view["own-posts"] = "all" /\ SelfAfter("thread-mentions", i))}
           replies(r) == {i \in hits(r) : sent[i].root # 0}
           of(r, p) == {i \in replies(r) : sent[i].root = p}
           threads(r) == [p \in {sent[i].root : i \in replies(r)} |-> Descending(of(r, p))]
           entry(r) == Entry(hits(r) \ replies(r), threads(r))
           all == [r \in Room |-> entry(r)]
<1>1. \A r : \A i \in hits(r) : i \in 1..Len(sent) /\ sent[i].room = r /\ sent[i].by # "me" BY SeenType
<1>2. \A r : \A i \in hits(r) : i \in replies(r) \/ sent[i].root = 0 OBVIOUS
<1>3. \A r, p : \A i \in of(r, p) : i \in replies(r) /\ sent[i].root = p OBVIOUS
<1>4. \A r : replies(r) \subseteq hits(r) OBVIOUS
<1>5. \A r : entry(r).messages = hits(r) \ replies(r) /\ entry(r).replies = threads(r)
             /\ entry(r).priority = FALSE
      BY DEF Entry
<1>6. MentionLane = Holding(all) BY DEF MentionLane
<1> HIDE DEF hits, replies, of, entry
<1>7. ASSUME NEW r, NEW p \in DOMAIN threads(r), NEW i \in DOMAIN threads(r)[p]
       PROVE  i \in of(r, p) /\ threads(r)[p][i] = -i
  <2>1. threads(r)[p] = Descending(of(r, p)) OBVIOUS
  <2> HIDE DEF threads
  <2> QED BY <2>1 DEF Descending
<1> HIDE DEF threads
<1>8. ASSUME NEW r
      PROVE  EntryOK(r, entry(r))
  <2>1. ASSUME NEW p \in DOMAIN threads(r), NEW i \in DOMAIN threads(r)[p]
        PROVE  i \in 1..Len(sent) /\ sent[i].room = r /\ sent[i].root = p
    <3>1. i \in replies(r) /\ sent[i].root = p BY <1>3, <1>7
    <3> QED BY <1>1, <1>4, <3>1
  <2>2. DOMAIN threads(r) \subseteq 0..MaxSent BY <1>1, <1>4, MessageType DEF threads
  <2>3. \A i \in hits(r) \ replies(r) : i \in 1..Len(sent) /\ sent[i].room = r /\ sent[i].root = 0
        BY <1>1, <1>2
  <2> QED BY <1>5, <2>1, <2>3, <2>2 DEF EntryOK
<1>9. \A i \in 1..Len(sent) : -i \in -MaxSent .. MaxSent
  <2>1. Len(sent) \in Nat /\ MaxSent \in Nat /\ Len(sent) <= MaxSent
        BY AnswerAssumption, LenProperties DEF SentOK
  <2> QED BY <2>1
<1>10. ASSUME NEW r, NEW p \in DOMAIN threads(r), NEW i \in DOMAIN threads(r)[p]
      PROVE  sent[i].by # "me" /\ threads(r)[p][i] \in -MaxSent .. MaxSent
  <2>1. i \in replies(r) /\ threads(r)[p][i] = -i BY <1>3, <1>7
  <2> QED BY <1>1, <1>4, <1>9, <2>1
<1>11. \A r : HitOK(r, entry(r)) BY <1>5, <1>8, <1>10 DEF HitOK
<1>12. DOMAIN MentionLane \subseteq Room /\ \A r \in DOMAIN MentionLane : MentionLane[r] = entry(r)
       BY <1>6, HoldingType
<1> QED BY <1>11, <1>12 DEF LaneOK

\* What the others wrote in the operator's threads: never the root, which
\* the operator wrote or answered.
LEMMA OwnType ==
    ASSUME SentOK
    PROVE  LaneOK("own-threads", OwnLane)
<1> DEFINE mine(r) == {i \in In("own-threads", r) : sent[i].by = "me"}
           unseen(r, p) == {i \in In("own-threads", r) :
                              RootThread(i) = p /\ sent[i].by # "me" /\ ~ SelfAfter("own-threads", i)}
           roots(r) == {p \in {RootThread(i) : i \in mine(r)} : unseen(r, p) # {}}
           threads(r) == [p \in roots(r) |-> Ascending(unseen(r, p))]
           entry(r) == Entry({}, threads(r))
           all == [r \in Room |-> entry(r)]
<1>1. \A r, p : \A i \in unseen(r, p) :
         i \in 1..Len(sent) /\ sent[i].room = r /\ sent[i].by # "me" /\ RootThread(i) = p
      BY SeenType
<1>2. ASSUME NEW r, NEW p \in roots(r), NEW i \in unseen(r, p)
      PROVE  sent[i].root = p
  <2>1. PICK k \in mine(r) : RootThread(k) = p OBVIOUS
  <2>2. k \in 1..Len(sent) /\ k \in Seen("own-threads") /\ sent[k].room = r /\ sent[k].by = "me"
        BY SeenType DEF In
  <2>3. i \in 1..Len(sent) /\ sent[i].room = r /\ sent[i].by # "me" /\ RootThread(i) = p BY <1>1
  <2>4. ~ SelfAfter("own-threads", i) OBVIOUS
  <2>5. i \in Nat /\ k \in Nat /\ sent[k].root < k BY <2>2, <2>3, MessageType DEF SentOK
  <2>6. ~ (k > i) BY <2>1, <2>2, <2>3, <2>4 DEF SelfAfter
  <2>7. i # k BY <2>2, <2>3
  <2>8. CASE sent[i].root = 0
    <3>1. p = i BY <2>3, <2>8 DEF RootThread
    <3>2. sent[k].root = i BY <2>1, <2>7, <3>1 DEF RootThread
    <3> QED BY <2>5, <2>6, <3>2
  <2> QED BY <2>3, <2>8 DEF RootThread
<1>3. \A r : \A p \in DOMAIN threads(r) :
         /\ p \in roots(r) /\ DOMAIN threads(r)[p] = unseen(r, p)
         /\ \A i \in unseen(r, p) : threads(r)[p][i] = i
      BY DEF Ascending
<1>4. \A r : entry(r).messages = {} /\ entry(r).replies = threads(r) /\ entry(r).priority = FALSE BY DEF Entry
<1>5. OwnLane = Holding(all) BY DEF OwnLane
<1> HIDE DEF mine, unseen, roots, threads, entry
<1>6. ASSUME NEW r
      PROVE  EntryOK(r, entry(r))
  <2>1. \A p \in DOMAIN threads(r) : \A i \in DOMAIN threads(r)[p] :
           i \in 1..Len(sent) /\ sent[i].room = r /\ sent[i].root = p
        BY <1>1, <1>2, <1>3
  <2>2. DOMAIN threads(r) \subseteq 0..MaxSent
    <3>1. \A p \in roots(r) : unseen(r, p) # {} BY DEF roots
    <3> QED BY <1>1, <1>2, <1>3, <3>1, MessageType
  <2> QED BY <1>4, <2>1, <2>2 DEF EntryOK
<1>7. \A i \in 1..Len(sent) : i \in -MaxSent .. MaxSent
  <2>1. Len(sent) \in Nat /\ MaxSent \in Nat /\ Len(sent) <= MaxSent
        BY AnswerAssumption, LenProperties DEF SentOK
  <2> QED BY <2>1
<1>8. \A r : HitOK(r, entry(r)) BY <1>1, <1>3, <1>4, <1>6, <1>7 DEF HitOK
<1>9. DOMAIN OwnLane \subseteq Room /\ \A r \in DOMAIN OwnLane : OwnLane[r] = entry(r)
      BY <1>5, HoldingType
<1> QED BY <1>8, <1>9 DEF LaneOK

\* What any phase returns is of its lane.
LanesReturned == \A lane \in Lanes : LaneOK(lane, Returned(lane))

LEMMA ReturnedType == SentOK => LanesReturned
<1> SUFFICES ASSUME SentOK PROVE LanesReturned OBVIOUS
<1>1. /\ LaneOK("unread", UnreadLane) /\ LaneOK("dm-window", WindowLane) /\ LaneOK("priority", PriorityLane)
      /\ LaneOK("thread-mentions", MentionLane) /\ LaneOK("own-threads", OwnLane)
      BY UnreadType, WindowType, PriorityType, MentionType, OwnType
<1>2. ASSUME NEW lane \in Lanes
      PROVE  LaneOK(lane, Returned(lane))
      BY <1>1, NothingType DEF Returned, Lanes
<1> QED BY <1>2 DEF LanesReturned

-----------------------------------------------------------------------------
(***************************************************************************)
(* The merges.                                                             *)
(***************************************************************************)
LanesOK ==
    /\ DOMAIN lanes = Lanes
    /\ \A lane \in Lanes : LaneOK(lane, lanes[lane])

\* A reply is in an entry, or a post is.
LEMMA ContentOf ==
    ASSUME NEW e, NEW i
    PROVE  i \in Content(e) <=> i \in e.messages \/ \E p \in DOMAIN e.replies : i \in DOMAIN e.replies[p]
BY DEF Content

LEMMA OverOf ==
    ASSUME NEW f, NEW g
    PROVE  /\ DOMAIN Over(f, g) = DOMAIN f \cup DOMAIN g
           /\ \A x \in DOMAIN f : Over(f, g)[x] = f[x]
           /\ \A x \in DOMAIN g : x \notin DOMAIN f => Over(f, g)[x] = g[x]
BY DEF Over

\* What is in an entry has been sent, to its conversation.
LEMMA ContentSent ==
    ASSUME NEW r, NEW e, EntryOK(r, e), NEW i \in Content(e)
    PROVE  i \in 1..Len(sent) /\ sent[i].room = r
BY ContentOf DEF EntryOK

\* The direct messages and channels the unread pass and the window return.
LEMMA DirectType ==
    ASSUME LanesOK
    PROVE  /\ DOMAIN DirectMessages \subseteq Room
           /\ \A r \in DOMAIN DirectMessages : ReadOK(r, DirectMessages[r])
           /\ \A r \in DOMAIN lanes["dm-window"] :
                 r \in DOMAIN DirectMessages /\ DirectMessages[r] = lanes["dm-window"][r]
           /\ \A r \in DOMAIN lanes["unread"] :
                 /\ r \in DOMAIN DirectMessages
                 /\ r \notin DOMAIN lanes["dm-window"] => DirectMessages[r] = lanes["unread"][r]
<1>1. "unread" \in Lanes /\ "dm-window" \in Lanes BY DEF Lanes
<1>2. LaneOK("unread", lanes["unread"]) /\ LaneOK("dm-window", lanes["dm-window"]) BY <1>1 DEF LanesOK
<1>3. DirectMessages = Over(lanes["dm-window"], lanes["unread"]) BY DEF DirectMessages, Override
<1>4. /\ DOMAIN lanes["unread"] \subseteq Room /\ \A r \in DOMAIN lanes["unread"] : ReadOK(r, lanes["unread"][r])
      /\ DOMAIN lanes["dm-window"] \subseteq Room
      /\ \A r \in DOMAIN lanes["dm-window"] : ReadOK(r, lanes["dm-window"][r])
      BY <1>2 DEF LaneOK
<1> DEFINE f == lanes["dm-window"]
           g == lanes["unread"]
<1>5. /\ DOMAIN DirectMessages = DOMAIN f \cup DOMAIN g
      /\ \A r \in DOMAIN f : DirectMessages[r] = f[r]
      /\ \A r \in DOMAIN g : r \notin DOMAIN f => DirectMessages[r] = g[r]
      BY <1>3 DEF Over
<1> HIDE DEF f, g
<1>6. /\ DOMAIN g \subseteq Room /\ \A r \in DOMAIN g : ReadOK(r, g[r])
      /\ DOMAIN f \subseteq Room /\ \A r \in DOMAIN f : ReadOK(r, f[r])
      BY <1>4 DEF f, g
<1>7. \A r \in DOMAIN DirectMessages : ReadOK(r, DirectMessages[r]) BY <1>5, <1>6
<1>8. DOMAIN DirectMessages \subseteq Room BY <1>5, <1>6
<1> QED BY <1>5, <1>7, <1>8 DEF f, g

\* Threads that stand in one entry or the other stand in the merged one.
LEMMA EmphasisedEntry ==
    ASSUME NEW r, NEW old, NEW new, ReadOK(r, old), ReadOK(r, new),
           NEW e, e = [messages |-> old.messages \cup new.messages,
                       replies |-> Over(old.replies, new.replies), priority |-> TRUE]
    PROVE  /\ ReadOK(r, e)
           /\ Content(old) \subseteq Content(e)
           /\ \A i \in Content(new) : sent[i].root \notin DOMAIN old.replies => i \in Content(e)
<1>1. /\ e.messages = old.messages \cup new.messages /\ e.replies = Over(old.replies, new.replies)
      /\ e.priority = TRUE
      OBVIOUS
<1>2. /\ DOMAIN e.replies = DOMAIN old.replies \cup DOMAIN new.replies
      /\ \A p \in DOMAIN old.replies : e.replies[p] = old.replies[p]
      /\ \A p \in DOMAIN new.replies : p \notin DOMAIN old.replies => e.replies[p] = new.replies[p]
  <2> DEFINE f == old.replies
             g == new.replies
             h == e.replies
  <2>1. h = Over(f, g) BY <1>1
  <2> HIDE DEF f, g, h
  <2>2. /\ DOMAIN h = DOMAIN f \cup DOMAIN g
        /\ \A p \in DOMAIN f : h[p] = f[p]
        /\ \A p \in DOMAIN g : p \notin DOMAIN f => h[p] = g[p]
        BY <2>1 DEF Over
  <2> QED BY <2>2 DEF f, g, h
<1>3. EntryOK(r, e) BY <1>1, <1>2 DEF ReadOK, EntryOK
<1>4. ReadOK(r, e) BY <1>2, <1>3 DEF ReadOK
<1>5. Content(old) \subseteq Content(e) BY <1>1, <1>2, ContentOf
<1>6. ASSUME NEW i \in Content(new), sent[i].root \notin DOMAIN old.replies
      PROVE  i \in Content(e)
  <2>1. CASE i \in new.messages BY <1>1, <2>1, ContentOf
  <2>2. ASSUME NEW p \in DOMAIN new.replies, i \in DOMAIN new.replies[p]
        PROVE  i \in Content(e)
    <3>1. sent[i].root = p BY <2>2 DEF ReadOK, EntryOK
    <3> QED BY <1>2, <1>6, <2>2, <3>1, ContentOf
  <2> QED BY <2>1, <2>2, ContentOf
<1> QED BY <1>4, <1>5, <1>6

\* What a lane holds and no merge replaces is in the entries.
ToldBy(entries, lane) ==
    \A r \in DOMAIN lanes[lane] : \A i \in Content(lanes[lane][r]) :
        ~ Replaced(lane, r, i) => r \in DOMAIN entries /\ i \in Content(entries[r])

LEMMA EmphasisedType ==
    ASSUME LanesOK,
           NEW M, M = Emphasise(DirectMessages, lanes["priority"])
    PROVE  /\ DOMAIN M \subseteq Room /\ \A r \in DOMAIN M : ReadOK(r, M[r])
           /\ ToldBy(M, "unread") /\ ToldBy(M, "dm-window") /\ ToldBy(M, "priority")
<1> DEFINE base == DirectMessages
           prio == lanes["priority"]
           both(r) == [messages |-> base[r].messages \cup prio[r].messages,
                       replies |-> Over(base[r].replies, prio[r].replies), priority |-> TRUE]
<1>1. /\ DOMAIN M = DOMAIN base \cup DOMAIN prio
      /\ \A r \in DOMAIN prio : r \notin DOMAIN base => M[r] = prio[r]
      /\ \A r \in DOMAIN base : r \notin DOMAIN prio => M[r] = base[r]
      /\ \A r \in DOMAIN base : r \in DOMAIN prio => M[r] = both(r)
      BY DEF Emphasise
<1>2. /\ DOMAIN base \subseteq Room /\ \A r \in DOMAIN base : ReadOK(r, base[r])
      /\ \A r \in DOMAIN lanes["dm-window"] : r \in DOMAIN base /\ base[r] = lanes["dm-window"][r]
      /\ \A r \in DOMAIN lanes["unread"] :
            r \in DOMAIN base /\ (r \notin DOMAIN lanes["dm-window"] => base[r] = lanes["unread"][r])
      BY DirectType
<1>3. DOMAIN prio \subseteq Room /\ \A r \in DOMAIN prio : ReadOK(r, prio[r])
  <2>1. LaneOK("priority", prio) BY DEF LanesOK, Lanes
  <2> QED BY <2>1 DEF LaneOK
<1>4. ASSUME NEW r \in DOMAIN base, r \in DOMAIN prio
      PROVE  /\ ReadOK(r, both(r)) /\ Content(base[r]) \subseteq Content(both(r))
             /\ \A i \in Content(prio[r]) : sent[i].root \notin DOMAIN base[r].replies => i \in Content(both(r))
  <2> DEFINE old == base[r]
             new == prio[r]
             e == both(r)
  <2>1. ReadOK(r, old) /\ ReadOK(r, new) BY <1>2, <1>3, <1>4
  <2>2. e = [messages |-> old.messages \cup new.messages,
             replies |-> Over(old.replies, new.replies), priority |-> TRUE]
        OBVIOUS
  <2> HIDE DEF old, new, e
  <2>3. /\ ReadOK(r, e) /\ Content(old) \subseteq Content(e)
        /\ \A i \in Content(new) : sent[i].root \notin DOMAIN old.replies => i \in Content(e)
        BY <2>1, <2>2, EmphasisedEntry
  <2> QED BY <2>3 DEF old, new, e
<1> HIDE DEF base, prio, both
<1>5. \A r \in DOMAIN M : ReadOK(r, M[r]) BY <1>1, <1>2, <1>3, <1>4
<1>6. \A r \in DOMAIN base : r \in DOMAIN M /\ Content(base[r]) \subseteq Content(M[r]) BY <1>1, <1>4
<1>7. ToldBy(M, "unread") BY <1>2, <1>6 DEF ToldBy, Replaced
<1>8. ToldBy(M, "dm-window") BY <1>2, <1>6 DEF ToldBy
<1>9. ASSUME NEW r \in DOMAIN prio, NEW i \in Content(prio[r]), ~ Replaced("priority", r, i)
      PROVE  r \in DOMAIN M /\ i \in Content(M[r])
  <2>1. CASE r \notin DOMAIN base BY <1>1, <2>1
  <2>2. CASE r \in DOMAIN base
    <3>1. sent[i].root \notin DOMAIN base[r].replies BY <1>9, <2>2 DEF Replaced, base
    <3> QED BY <1>1, <1>4, <2>2, <3>1
  <2> QED BY <2>1, <2>2
<1>10. ToldBy(M, "priority") BY <1>9 DEF ToldBy, prio
<1> QED BY <1>1, <1>2, <1>3, <1>5, <1>7, <1>8, <1>10

\* Appended replies stand behind those in order.
LEMMA AppendedPlaces ==
    ASSUME NEW old, NEW new, NEW n \in {1, 2}, NEW h, h = AppendReplies(old, new, n)
    PROVE  \A i \in DOMAIN new : i \notin DOMAIN old /\ new[i] \in -MaxSent .. MaxSent =>
              h[i] \in Int /\ h[i] > MaxSent
<1>1. \A i \in DOMAIN new : i \notin DOMAIN old => h[i] = n * Span + new[i]
      BY DEF AppendReplies, Over
<1>2. ASSUME NEW k \in -MaxSent .. MaxSent
      PROVE  n * Span + k \in Int /\ n * Span + k > MaxSent
  <2>1. MaxSent \in Nat /\ Span = 2 * MaxSent + 1 BY AnswerAssumption DEF Span
  <2>2. CASE n = 1 BY <2>1, <2>2
  <2>3. CASE n = 2 BY <2>1, <2>3
  <2> QED BY <2>2, <2>3
<1> QED BY <1>1, <1>2

LEMMA AugmentedEntry ==
    ASSUME NEW r, NEW old, NEW new, MergedOK(r, old), HitOK(r, new), NEW n \in {1, 2},
           NEW e, e.messages = old.messages \cup new.messages, e.priority = old.priority,
           DOMAIN e.replies = DOMAIN old.replies \cup DOMAIN new.replies,
           \A p \in DOMAIN e.replies : e.replies[p] = AppendReplies(RepliesOf(old, p), RepliesOf(new, p), n)
    PROVE  /\ MergedOK(r, e)
           /\ Content(old) \subseteq Content(e) /\ Content(new) \subseteq Content(e)
<1>1. DOMAIN e.replies = DOMAIN old.replies \cup DOMAIN new.replies OBVIOUS
<1>2. ASSUME NEW x, NEW p
      PROVE  /\ p \in DOMAIN x.replies => RepliesOf(x, p) = x.replies[p]
             /\ p \notin DOMAIN x.replies => DOMAIN RepliesOf(x, p) = {}
      BY DEF RepliesOf, Nothing
<1>3. ASSUME NEW p \in DOMAIN e.replies
      PROVE  /\ DOMAIN e.replies[p] = DOMAIN RepliesOf(old, p) \cup DOMAIN RepliesOf(new, p)
             /\ \A i \in DOMAIN RepliesOf(old, p) : e.replies[p][i] = RepliesOf(old, p)[i]
             /\ \A i \in DOMAIN RepliesOf(new, p) :
                   i \notin DOMAIN RepliesOf(old, p) /\ RepliesOf(new, p)[i] \in -MaxSent .. MaxSent =>
                      e.replies[p][i] \in Int /\ e.replies[p][i] > MaxSent
  <2> DEFINE f == RepliesOf(old, p)
             g == RepliesOf(new, p)
             h == e.replies[p]
  <2>1. h = AppendReplies(f, g, n) OBVIOUS
  <2> HIDE DEF f, g, h
  <2>2. DOMAIN h = DOMAIN f \cup DOMAIN g BY <2>1 DEF AppendReplies, Over
  <2>3. \A i \in DOMAIN f : h[i] = f[i] BY <2>1 DEF AppendReplies, Over
  <2>4. \A i \in DOMAIN g : i \notin DOMAIN f /\ g[i] \in -MaxSent .. MaxSent =>
           h[i] \in Int /\ h[i] > MaxSent
        BY <2>1, AppendedPlaces
  <2> QED BY <2>2, <2>3, <2>4 DEF f, g, h
<1>4. ASSUME NEW p \in DOMAIN e.replies, NEW i \in DOMAIN e.replies[p]
      PROVE  /\ i \in 1..Len(sent) /\ sent[i].room = r /\ sent[i].root = p
             /\ \/ e.replies[p][i] = i
                \/ sent[i].by # "me" /\ e.replies[p][i] \in Int /\ e.replies[p][i] > MaxSent
  <2>1. CASE i \in DOMAIN RepliesOf(old, p)
    <3>1. p \in DOMAIN old.replies /\ RepliesOf(old, p) = old.replies[p] BY <1>2, <2>1
    <3>2. i \in DOMAIN old.replies[p] /\ e.replies[p][i] = old.replies[p][i] BY <1>3, <2>1, <3>1
    <3>3. i \in 1..Len(sent) /\ sent[i].room = r /\ sent[i].root = p
          BY <3>1, <3>2 DEF MergedOK, EntryOK
    <3>4. \/ old.replies[p][i] = i
          \/ sent[i].by # "me" /\ old.replies[p][i] \in Int /\ old.replies[p][i] > MaxSent
          BY <3>1, <3>2 DEF MergedOK
    <3> QED BY <3>2, <3>3, <3>4
  <2>2. CASE i \notin DOMAIN RepliesOf(old, p)
    <3>1. i \in DOMAIN RepliesOf(new, p) BY <1>3, <2>2
    <3>2. p \in DOMAIN new.replies /\ RepliesOf(new, p) = new.replies[p] BY <1>2, <3>1
    <3>3. /\ i \in 1..Len(sent) /\ sent[i].room = r /\ sent[i].root = p /\ sent[i].by # "me"
          /\ new.replies[p][i] \in -MaxSent .. MaxSent
          BY <3>1, <3>2 DEF HitOK, EntryOK
    <3> QED BY <1>3, <2>2, <3>1, <3>2, <3>3
  <2> QED BY <2>1, <2>2
<1>5. EntryOK(r, e) BY <1>1, <1>4 DEF EntryOK, MergedOK, HitOK
<1>6. MergedOK(r, e)
  <2>1. \A p \in DOMAIN e.replies : \A i \in DOMAIN e.replies[p] :
           \/ e.replies[p][i] = i
           \/ sent[i].by # "me" /\ e.replies[p][i] \in Int /\ e.replies[p][i] > MaxSent
        BY <1>4
  <2> QED BY <1>5, <2>1, Zenon DEF MergedOK
<1>7. Content(old) \subseteq Content(e)
  <2>1. ASSUME NEW p \in DOMAIN old.replies, NEW i \in DOMAIN old.replies[p]
        PROVE  p \in DOMAIN e.replies /\ i \in DOMAIN e.replies[p]
        BY <1>1, <1>2, <1>3
  <2> QED BY <1>1, <2>1, ContentOf
<1>8. Content(new) \subseteq Content(e)
  <2>1. ASSUME NEW p \in DOMAIN new.replies, NEW i \in DOMAIN new.replies[p]
        PROVE  p \in DOMAIN e.replies /\ i \in DOMAIN e.replies[p]
        BY <1>1, <1>2, <1>3
  <2> QED BY <1>1, <2>1, ContentOf
<1> QED BY <1>6, <1>7, <1>8

\* A lane of hits merged into the entries so far.
LEMMA AugmentedType ==
    ASSUME NEW base, DOMAIN base \subseteq Room, \A r \in DOMAIN base : MergedOK(r, base[r]),
           NEW hits, DOMAIN hits \subseteq Room, \A r \in DOMAIN hits : HitOK(r, hits[r]),
           NEW n \in {1, 2}, NEW M, M = Augment(base, hits, n)
    PROVE  /\ DOMAIN M \subseteq Room /\ \A r \in DOMAIN M : MergedOK(r, M[r])
           /\ \A r \in DOMAIN base : r \in DOMAIN M /\ Content(base[r]) \subseteq Content(M[r])
           /\ \A r \in DOMAIN hits : r \in DOMAIN M /\ Content(hits[r]) \subseteq Content(M[r])
<1>1. ASSUME NEW r
      PROVE  MergedOK(r, Entry({}, Nothing)) /\ HitOK(r, Entry({}, Nothing))
      BY DEF Entry, Nothing, MergedOK, HitOK, EntryOK
<1>2. ASSUME NEW r \in DOMAIN M
      PROVE  /\ MergedOK(r, M[r])
             /\ Content(EntryOf(base, r)) \subseteq Content(M[r])
             /\ Content(EntryOf(hits, r)) \subseteq Content(M[r])
  <2> DEFINE old == EntryOf(base, r)
             new == EntryOf(hits, r)
             e == M[r]
  <2>1. /\ e.messages = old.messages \cup new.messages /\ e.priority = old.priority
        /\ DOMAIN e.replies = DOMAIN old.replies \cup DOMAIN new.replies
        /\ \A p \in DOMAIN e.replies : e.replies[p] = AppendReplies(RepliesOf(old, p), RepliesOf(new, p), n)
        BY DEF Augment
  <2>2. MergedOK(r, old) /\ HitOK(r, new) BY <1>1 DEF EntryOf
  <2> HIDE DEF old, new, e
  <2>3. MergedOK(r, e) /\ Content(old) \subseteq Content(e) /\ Content(new) \subseteq Content(e)
        BY <2>1, <2>2, AugmentedEntry
  <2> QED BY <2>3 DEF old, new, e
<1>3. DOMAIN M = DOMAIN base \cup DOMAIN hits BY DEF Augment
<1>4. /\ \A r \in DOMAIN base : EntryOf(base, r) = base[r]
      /\ \A r \in DOMAIN hits : EntryOf(hits, r) = hits[r]
      BY DEF EntryOf
<1>5. DOMAIN M \subseteq Room BY <1>3
<1>6. \A r \in DOMAIN base : r \in DOMAIN M /\ Content(base[r]) \subseteq Content(M[r]) BY <1>2, <1>3, <1>4
<1>7. \A r \in DOMAIN hits : r \in DOMAIN M /\ Content(hits[r]) \subseteq Content(M[r]) BY <1>2, <1>3, <1>4
<1> QED BY <1>2, <1>5, <1>6, <1>7

\* All the lanes merged: sound entries, with everything no merge replaces.
LEMMA MergedType ==
    ASSUME SentOK, LanesOK
    PROVE  /\ DOMAIN MergedLanes \subseteq Room /\ \A r \in DOMAIN MergedLanes : MergedOK(r, MergedLanes[r])
           /\ \A lane \in Lanes : ToldBy(MergedLanes, lane)
<1> DEFINE M1 == Emphasise(DirectMessages, lanes["priority"])
           M2 == Augment(M1, lanes["thread-mentions"], 1)
           M3 == Augment(M2, lanes["own-threads"], 2)
           hits == lanes["thread-mentions"]
           own == lanes["own-threads"]
<1>1. MergedLanes = M3 BY DEF MergedLanes
<1>2. /\ DOMAIN M1 \subseteq Room /\ \A r \in DOMAIN M1 : ReadOK(r, M1[r])
      /\ ToldBy(M1, "unread") /\ ToldBy(M1, "dm-window") /\ ToldBy(M1, "priority")
  <2> HIDE DEF M1
  <2>1. M1 = Emphasise(DirectMessages, lanes["priority"]) BY DEF M1
  <2> QED BY <2>1, EmphasisedType
<1>3. /\ DOMAIN hits \subseteq Room /\ \A r \in DOMAIN hits : HitOK(r, hits[r])
      /\ DOMAIN own \subseteq Room /\ \A r \in DOMAIN own : HitOK(r, own[r])
  <2>1. LaneOK("thread-mentions", hits) /\ LaneOK("own-threads", own) BY DEF LanesOK, Lanes
  <2> QED BY <2>1 DEF LaneOK
<1> HIDE DEF hits, own, M1
<1>4. \A r \in DOMAIN M1 : MergedOK(r, M1[r]) BY <1>2 DEF ReadOK, MergedOK
<1>5. M2 = Augment(M1, hits, 1) BY DEF hits
<1> HIDE DEF M2
<1>6. /\ DOMAIN M2 \subseteq Room /\ \A r \in DOMAIN M2 : MergedOK(r, M2[r])
      /\ \A r \in DOMAIN M1 : r \in DOMAIN M2 /\ Content(M1[r]) \subseteq Content(M2[r])
      /\ \A r \in DOMAIN hits : r \in DOMAIN M2 /\ Content(hits[r]) \subseteq Content(M2[r])
      BY <1>2, <1>3, <1>4, <1>5, AugmentedType
<1>7. M3 = Augment(M2, own, 2) BY DEF own
<1> HIDE DEF M3
<1>8. /\ DOMAIN M3 \subseteq Room /\ \A r \in DOMAIN M3 : MergedOK(r, M3[r])
      /\ \A r \in DOMAIN M2 : r \in DOMAIN M3 /\ Content(M2[r]) \subseteq Content(M3[r])
      /\ \A r \in DOMAIN own : r \in DOMAIN M3 /\ Content(own[r]) \subseteq Content(M3[r])
      BY <1>3, <1>6, <1>7, AugmentedType
<1>9. \A r \in DOMAIN M1 : r \in DOMAIN M3 /\ Content(M1[r]) \subseteq Content(M3[r]) BY <1>6, <1>8
<1>10. ToldBy(M3, "unread") /\ ToldBy(M3, "dm-window") /\ ToldBy(M3, "priority")
       BY <1>2, <1>9 DEF ToldBy
<1>11. ToldBy(M3, "thread-mentions") /\ ToldBy(M3, "own-threads") BY <1>6, <1>8 DEF ToldBy, hits, own
<1>12. \A lane \in Lanes : ToldBy(M3, lane) BY <1>10, <1>11 DEF Lanes
<1> QED BY <1>1, <1>8, <1>12

-----------------------------------------------------------------------------
(***************************************************************************)
(* The filters.                                                            *)
(***************************************************************************)
\* What a lane holds and the answer must account for.
Due(lane, r, i) ==
    /\ i > opted.after /\ ~ Replaced(lane, r, i)
    /\ \/ ~ opted.mentionsOnly \/ r \in DMRoom
       \/ \E j \in Content(lanes[lane][r]) : sent[j].says = "ping" /\ ~ Replaced(lane, r, j)

\* The options of a call.
LEMMA OptionType ==
    ASSUME answering \in Answering
    PROVE  /\ opted \in AnswerCall /\ opted.after \in Nat /\ opted.showAnswered \in BOOLEAN
           /\ opted.dmWindow \in BOOLEAN /\ opted.mentionsOnly \in BOOLEAN /\ opted.skipFeeds \in BOOLEAN
<1>1. opted \in AnswerCall BY DEF Answering, opted
<1>2. opted \in [after : Nat, showAnswered : BOOLEAN, dmWindow : BOOLEAN,
                 mentionsOnly : BOOLEAN, skipFeeds : BOOLEAN]
      BY <1>1, AnswerAssumption
<1> HIDE DEF opted
<1> QED BY <1>1, <1>2

\* filterMentions drops whole entries; what is due keeps its entry.
LEMMA AddressedType ==
    ASSUME NEW entries, NEW A, A = Addressed(entries)
    PROVE  /\ DOMAIN A \subseteq DOMAIN entries /\ \A r \in DOMAIN A : A[r] = entries[r]
           /\ \A r \in DOMAIN entries :
                 ~ opted.mentionsOnly \/ r \in DMRoom \/ Pings(entries[r]) => r \in DOMAIN A
BY DEF Addressed, Restrict

\* filterAfter keeps all that is newer than the cursor.
LEMMA CutType ==
    ASSUME answering \in Answering,
           NEW entries, \A r \in DOMAIN entries : MergedOK(r, entries[r]),
           NEW P, P = PastCursor(entries)
    PROVE  /\ DOMAIN P \subseteq DOMAIN entries /\ \A r \in DOMAIN P : MergedOK(r, P[r])
           /\ \A r \in DOMAIN entries : \A i \in Content(entries[r]) :
                 i > opted.after => r \in DOMAIN P /\ i \in Content(P[r])
<1> DEFINE newer(S) == {i \in S : i > opted.after}
           kept(e) == {p \in DOMAIN e.replies : newer(DOMAIN e.replies[p]) # {}}
           threads(e) == [p \in kept(e) |-> Restrict(e.replies[p], newer(DOMAIN e.replies[p]))]
           cut(e) == [messages |-> newer(e.messages), replies |-> threads(e), priority |-> e.priority]
           all == [r \in DOMAIN entries |-> cut(entries[r])]
<1>1. CASE opted.after = 0
  <2>1. P = entries BY <1>1 DEF PastCursor
  <2> QED BY <2>1
<1>2. CASE opted.after # 0
  <2>1. P = Holding(all) BY <1>2 DEF PastCursor
  <2>2. ASSUME NEW e
        PROVE  /\ cut(e).messages = newer(e.messages) /\ cut(e).priority = e.priority
               /\ DOMAIN cut(e).replies = kept(e)
               /\ \A p \in kept(e) : cut(e).replies[p] = Restrict(e.replies[p], newer(DOMAIN e.replies[p]))
        OBVIOUS
  <2>3. \A f, S : DOMAIN Restrict(f, S) = S /\ \A i \in S : Restrict(f, S)[i] = f[i] BY DEF Restrict
  <2>4. \A S : \A i : i \in newer(S) <=> i \in S /\ i > opted.after OBVIOUS
  <2>5. \A e : \A p : p \in kept(e) <=> p \in DOMAIN e.replies /\ newer(DOMAIN e.replies[p]) # {} OBVIOUS
  <2>6. DOMAIN all = DOMAIN entries /\ \A r \in DOMAIN entries : all[r] = cut(entries[r]) OBVIOUS
  <2> HIDE DEF newer, kept, threads, cut, all
  <2>7. ASSUME NEW e, NEW p \in kept(e)
        PROVE  /\ p \in DOMAIN e.replies
               /\ \A i : i \in DOMAIN cut(e).replies[p] <=> i \in DOMAIN e.replies[p] /\ i > opted.after
               /\ \A i \in DOMAIN cut(e).replies[p] : cut(e).replies[p][i] = e.replies[p][i]
        BY <2>2, <2>3, <2>4, <2>5
  <2>8. ASSUME NEW r, NEW e, MergedOK(r, e)
        PROVE  MergedOK(r, cut(e))
    <3>1. \A p \in DOMAIN cut(e).replies : \A i \in DOMAIN cut(e).replies[p] :
             p \in DOMAIN e.replies /\ i \in DOMAIN e.replies[p] /\ cut(e).replies[p][i] = e.replies[p][i]
          BY <2>2, <2>7
    <3>2. DOMAIN cut(e).replies \subseteq DOMAIN e.replies BY <2>2, <2>5
    <3>3. cut(e).messages \subseteq e.messages BY <2>2, <2>4
    <3>4. EntryOK(r, cut(e)) BY <2>2, <2>8, <3>1, <3>2, <3>3 DEF MergedOK, EntryOK
    <3> QED BY <2>8, <3>1, <3>4 DEF MergedOK
  <2>9. ASSUME NEW e, NEW i \in Content(e), i > opted.after
        PROVE  i \in Content(cut(e))
    <3>1. CASE i \in e.messages BY <2>2, <2>4, <2>9, <3>1, ContentOf
    <3>2. ASSUME NEW p \in DOMAIN e.replies, i \in DOMAIN e.replies[p]
          PROVE  i \in Content(cut(e))
      <4>1. i \in newer(DOMAIN e.replies[p]) BY <2>4, <2>9, <3>2
      <4>2. p \in kept(e) BY <2>5, <4>1
      <4>3. i \in DOMAIN cut(e).replies[p] BY <2>7, <2>9, <3>2, <4>2
      <4> QED BY <2>2, <4>2, <4>3, ContentOf
    <3> QED BY <3>1, <3>2, ContentOf
  <2>10. /\ DOMAIN P \subseteq DOMAIN all /\ \A r \in DOMAIN P : P[r] = all[r]
         /\ \A r \in DOMAIN all : Content(all[r]) # {} => r \in DOMAIN P
         BY <2>1, HoldingType
  <2>11. \A r \in DOMAIN P : MergedOK(r, P[r]) BY <2>6, <2>8, <2>10
  <2>12. ASSUME NEW r \in DOMAIN entries, NEW i \in Content(entries[r]), i > opted.after
         PROVE  r \in DOMAIN P /\ i \in Content(P[r])
    <3>1. i \in Content(all[r]) BY <2>6, <2>9, <2>12
    <3> QED BY <2>6, <2>10, <3>1
  <2> QED BY <2>6, <2>10, <2>11, <2>12
<1> QED BY <1>1, <1>2

\* All that is due is among the entries of the answer.
LEMMA ArrivedType ==
    ASSUME SentOK, LanesOK, answering \in Answering
    PROVE  /\ DOMAIN Arrived \subseteq Room /\ \A r \in DOMAIN Arrived : MergedOK(r, Arrived[r])
           /\ \A lane \in Lanes : \A r \in DOMAIN lanes[lane] : \A i \in Content(lanes[lane][r]) :
                 Due(lane, r, i) => r \in DOMAIN Arrived /\ i \in Content(Arrived[r])
<1> DEFINE M == MergedLanes
           A == Addressed(M)
           P == PastCursor(A)
<1>1. Arrived = P BY DEF Arrived
<1>2. /\ DOMAIN M \subseteq Room /\ \A r \in DOMAIN M : MergedOK(r, M[r])
      /\ \A lane \in Lanes : ToldBy(M, lane)
      BY MergedType
<1> HIDE DEF M
<1>3. /\ DOMAIN A \subseteq DOMAIN M /\ \A r \in DOMAIN A : A[r] = M[r]
      /\ \A r \in DOMAIN M : ~ opted.mentionsOnly \/ r \in DMRoom \/ Pings(M[r]) => r \in DOMAIN A
      BY AddressedType
<1> HIDE DEF A
<1>4. /\ DOMAIN P \subseteq DOMAIN A /\ \A r \in DOMAIN P : MergedOK(r, P[r])
      /\ \A r \in DOMAIN A : \A i \in Content(A[r]) :
            i > opted.after => r \in DOMAIN P /\ i \in Content(P[r])
      BY <1>2, <1>3, CutType
<1> HIDE DEF P
<1>5. ASSUME NEW lane \in Lanes, NEW r \in DOMAIN lanes[lane], NEW i \in Content(lanes[lane][r]),
             Due(lane, r, i)
      PROVE  r \in DOMAIN P /\ i \in Content(P[r])
  <2>1. r \in DOMAIN M /\ i \in Content(M[r]) BY <1>2, <1>5 DEF Due, ToldBy
  <2>2. ~ opted.mentionsOnly \/ r \in DMRoom \/ Pings(M[r])
    <3>1. ASSUME NEW j \in Content(lanes[lane][r]), sent[j].says = "ping", ~ Replaced(lane, r, j)
          PROVE  Pings(M[r])
          BY <1>2, <3>1 DEF ToldBy, Pings
    <3> QED BY <1>5, <3>1 DEF Due
  <2>3. r \in DOMAIN A /\ A[r] = M[r] BY <1>3, <2>1, <2>2
  <2> QED BY <1>4, <1>5, <2>1, <2>3 DEF Due
<1> QED BY <1>1, <1>2, <1>3, <1>4, <1>5

-----------------------------------------------------------------------------
(***************************************************************************)
(* The answered direct messages.                                           *)
(***************************************************************************)
\* What of a room waits for the operator: a live message of another person
\* nothing of the operator's follows in its thread.
SettledAfter(r, i) ==
    \E j \in (i + 1)..Len(sent) : sent[j].by = "me" /\ sent[j].room = r /\ sent[j].root = sent[i].root

\* The last reply that says something is the operator's, and the newest.
LEMMA ThreadIsSettled ==
    ASSUME SentOK, NEW r, NEW e, MergedOK(r, e),
           NEW p \in DOMAIN e.replies, NEW i \in DOMAIN e.replies[p], ~ EndsLive(e.replies[p]),
           sent[i].by # "me", sent[i].says # "ack"
    PROVE  SettledAfter(r, i)
<1> DEFINE h == e.replies[p]
           said == {k \in DOMAIN h : sent[k].by = "me" \/ sent[k].says # "ack"}
<1>1. ASSUME NEW k \in DOMAIN h
      PROVE  /\ k \in 1..Len(sent) /\ sent[k].room = r /\ sent[k].root = p
             /\ \/ h[k] = k
                \/ sent[k].by # "me" /\ h[k] \in Int /\ h[k] > MaxSent
  <2>1. k \in 1..Len(sent) /\ sent[k].room = r /\ sent[k].root = p BY DEF MergedOK, EntryOK
  <2> QED BY <2>1 DEF MergedOK
<1>2. i \in said OBVIOUS
<1>3. \A k \in DOMAIN h : k \in Nat /\ k <= MaxSent /\ h[k] \in Int
  <2>1. Len(sent) \in Nat /\ Len(sent) <= MaxSent /\ MaxSent \in Nat
        BY AnswerAssumption, LenProperties DEF SentOK
  <2> QED BY <1>1, <2>1
<1>4. IsFiniteSet(said)
  <2>1. IsFiniteSet(1..Len(sent)) BY FS_Interval, LenProperties DEF SentOK
  <2>2. said \subseteq 1..Len(sent) BY <1>1
  <2> QED BY <2>1, <2>2, FS_Subset
<1>5. PICK k \in said : \A j \in said : h[j] <= h[k]
  <2> DEFINE Behind(k) == {j \in said : h[j] > h[k]}
             T == {Behind(k) : k \in said}
  <2>1. T \in SUBSET SUBSET said /\ T # {} BY <1>2
  <2>2. \E X \in T : \A Y \in T : Y \subseteq X => Y = X
    <3> HIDE DEF T, said
    <3> QED BY <1>4, <2>1, SmallestSet
  <2>3. PICK X \in T : \A Y \in T : Y \subseteq X => Y = X BY <2>2
  <2>4. PICK k \in said : X = Behind(k) OBVIOUS
  <2>5. ASSUME NEW j \in said
        PROVE  h[j] <= h[k]
    <3>1. SUFFICES ASSUME h[j] > h[k] PROVE FALSE BY <1>3
    <3>2. Behind(j) \subseteq Behind(k) BY <1>3, <3>1
    <3>3. Behind(j) = Behind(k) BY <2>3, <2>4, <3>2
    <3>4. j \in Behind(k) /\ j \notin Behind(j) BY <1>3, <3>1
    <3> QED BY <3>3, <3>4
  <2> QED BY <2>5
<1>6. sent[k].by = "me"
  <2>1. ~ \E x \in said : sent[x].by # "me" /\ \A j \in said : h[j] <= h[x] BY DEF EndsLive
  <2> QED BY <1>5, <2>1
<1>7. k \in DOMAIN h /\ i \in DOMAIN h /\ h[i] <= h[k] BY <1>2, <1>5
<1> HIDE DEF h, said
<1>8. h[k] = k BY <1>1, <1>6, <1>7
<1>9. i <= k
  <2>1. h[i] = i \/ h[i] > MaxSent BY <1>1, <1>7
  <2>2. MaxSent \in Nat /\ k \in Nat /\ k <= MaxSent /\ i \in Nat /\ h[i] \in Int
        BY <1>3, <1>7, AnswerAssumption
  <2>3. h[i] <= k BY <1>7, <1>8
  <2> QED BY <2>1, <2>2, <2>3
<1>10. i # k BY <1>6
<1>11. k \in (i + 1)..Len(sent)
  <2>1. k \in 1..Len(sent) /\ k \in Nat /\ i \in Nat BY <1>1, <1>3, <1>7
  <2>2. Len(sent) \in Nat BY LenProperties DEF SentOK
  <2> QED BY <1>9, <1>10, <2>1, <2>2
<1> QED BY <1>1, <1>6, <1>7, <1>11 DEF SettledAfter

\* At top level a closing word is all that follows the operator's post.
LEMMA TopIsSettled ==
    ASSUME SentOK, NEW r, NEW i \in 1..Len(sent), sent[i].room = r, sent[i].root = 0,
           NEW e, Answered(r, e), sent[i].by # "me", sent[i].says # "ack"
    PROVE  SettledAfter(r, i)
<1> DEFINE tops == {j \in DOMAIN sent : sent[j].room = r /\ sent[j].root = 0}
           newer(j) == {x \in tops : x > j}
<1>1. DOMAIN sent = 1..Len(sent) /\ Len(sent) \in Nat BY LenProperties DEF SentOK
<1>2. PICK j \in tops : sent[j].by = "me" /\ \A x \in newer(j) : sent[x].by # "me" /\ sent[x].says = "ack"
      BY DEF Answered
<1>3. i \in tops /\ i \notin newer(j) BY <1>1, <1>2
<1>4. i \in Nat /\ j \in Nat /\ j \in 1..Len(sent) BY <1>1, <1>2
<1>5. j > i
  <2>1. i # j BY <1>2
  <2> QED BY <1>3, <1>4, <2>1
<1>6. j \in (i + 1)..Len(sent) BY <1>1, <1>4, <1>5
<1> QED BY <1>2, <1>6 DEF SettledAfter

\* isAnsweredDM hides nothing that waits.
LEMMA AnsweredIsSettled ==
    ASSUME SentOK, NEW r, NEW e, MergedOK(r, e), Answered(r, e),
           NEW i \in Content(e), sent[i].by # "me", sent[i].says # "ack"
    PROVE  SettledAfter(r, i)
<1>1. CASE i \in e.messages
  <2>1. i \in 1..Len(sent) /\ sent[i].room = r /\ sent[i].root = 0 BY <1>1 DEF MergedOK, EntryOK
  <2> QED BY <2>1, TopIsSettled
<1>2. ASSUME NEW p \in DOMAIN e.replies, i \in DOMAIN e.replies[p]
      PROVE  SettledAfter(r, i)
  <2>1. ~ EndsLive(e.replies[p]) BY DEF Answered
  <2> QED BY <1>2, <2>1, ThreadIsSettled
<1> QED BY <1>1, <1>2, ContentOf

-----------------------------------------------------------------------------
(***************************************************************************)
(* The rank and the cut.                                                   *)
(***************************************************************************)
ResultsOK == DOMAIN results \subseteq Room /\ \A r \in DOMAIN results : MergedOK(r, results[r])

\* No conversation holds more than was sent.
LEMMA ContentBound ==
    ASSUME SentOK, NEW r, NEW e, EntryOK(r, e)
    PROVE  /\ IsFiniteSet(Content(e)) /\ Cardinality(Content(e)) \in 0..MaxSent
           /\ \A S \in SUBSET Content(e) : IsFiniteSet(S) /\ Cardinality(S) \in 0..MaxSent
<1>1. Len(sent) \in Nat /\ Len(sent) <= MaxSent /\ MaxSent \in Nat
      BY AnswerAssumption, LenProperties DEF SentOK
<1>2. IsFiniteSet(1..Len(sent)) /\ Cardinality(1..Len(sent)) <= Len(sent)
  <2> DEFINE n == Len(sent)
  <2>1. n \in Nat BY <1>1
  <2> HIDE DEF n
  <2>2. IsFiniteSet(1..n) /\ Cardinality(1..n) <= n BY <2>1, FS_Interval
  <2> QED BY <2>2 DEF n
<1>3. Content(e) \subseteq 1..Len(sent) BY ContentSent
<1>4. ASSUME NEW S \in SUBSET (1..Len(sent))
      PROVE  IsFiniteSet(S) /\ Cardinality(S) \in 0..MaxSent
  <2>1. IsFiniteSet(S) /\ Cardinality(S) <= Cardinality(1..Len(sent)) BY <1>2, FS_Subset
  <2>2. Cardinality(S) \in Nat /\ Cardinality(1..Len(sent)) \in Nat BY <1>2, <2>1, FS_CardinalityType
  <2> QED BY <1>1, <1>2, <2>1, <2>2
<1> QED BY <1>3, <1>4

\* What a conversation holds never lifts it above a tier.
LEMMA AmountBound ==
    ASSUME SentOK, NEW r, NEW e, EntryOK(r, e)
    PROVE  Cardinality(Content(e)) + Urgency(e) \in Nat /\ Cardinality(Content(e)) + Urgency(e) < FeedPenalty
<1> DEFINE live == {i \in Content(e) : sent[i].says = "live"}
           c == Cardinality(Content(e))
           l == Cardinality(live)
           w == UrgencyWeight * UrgencyPoints
<1>1. c \in 0..MaxSent /\ l \in 0..MaxSent BY ContentBound
<1>2. MaxSent \in Nat /\ w \in Nat /\ (w + 1) * MaxSent < FeedPenalty
      BY AnswerAssumption, SMT DEF UrgencyPoints
<1>3. FeedPenalty \in Nat BY SMT DEF FeedPenalty
<1>4. Urgency(e) = w * l BY DEF Urgency
<1> HIDE DEF c, l, w
<1>5. w * l <= w * MaxSent /\ w * l \in Nat /\ w * MaxSent \in Nat BY <1>1, <1>2
<1>6. (w + 1) * MaxSent = w * MaxSent + MaxSent BY <1>2
<1>7. c + w * l \in Nat /\ c + w * l < FeedPenalty BY <1>1, <1>2, <1>5, <1>6, <1>3
<1> QED BY <1>4, <1>7 DEF c

\* A bonus counts once or not at all.
LEMMA BonusOf ==
    ASSUME NEW yes, NEW n \in Nat
    PROVE  Bonus(yes, 1) \in 0..1 /\ Bonus(yes, n) = n * Bonus(yes, 1)
<1>1. CASE yes BY <1>1 DEF Bonus
<1>2. CASE ~ yes BY <1>2 DEF Bonus
<1> QED BY <1>1, <1>2

LEMMA BonusNot ==
    ASSUME NEW yes
    PROVE  Bonus(~ yes, 1) = 1 - Bonus(yes, 1)
<1>1. CASE yes BY <1>1 DEF Bonus
<1>2. CASE ~ yes BY <1>2 DEF Bonus
<1> QED BY <1>1, <1>2

\* The gaps of the rank are wider than what a conversation holds.
LEMMA RankOrder ==
    ASSUME NEW a \in Nat, NEW b \in Nat, a < 250000, b < 250000, NEW d \in 0..1, NEW e \in 0..1,
           NEW p \in 0..1, NEW q \in 0..1, NEW f \in 0..1, NEW g \in 0..1,
           a + 500000 * d + 1000000 * p - 250000 * f >= b + 500000 * e + 1000000 * q - 250000 * g
    PROVE  4 * p + 2 * d - f >= 4 * q + 2 * e - g
BY SMT

\* Who stands before another is at least its equal in what it is.
LEMMA BeforeIsNoLess ==
    ASSUME SentOK, ResultsOK, NEW s \in DOMAIN results, NEW r \in DOMAIN results, Before(s, r)
    PROVE  Tier(s) >= Tier(r)
<1> DEFINE amount(x) == Cardinality(Content(results[x])) + Urgency(results[x])
           prio(x) == Bonus(results[x].priority, 1)
           ping(x) == Bonus(Pings(results[x]), 1)
           dm(x) == Bonus(x \in DMRoom, 1)
           feed(x) == Bonus(IsFeed(x, results[x]), 1)
           rank(x) == RankUnread(x, results[x])
<1>1. ASSUME NEW x \in DOMAIN results
      PROVE  /\ amount(x) \in Nat /\ amount(x) < 250000 /\ results[x].priority \in BOOLEAN
             /\ prio(x) \in 0..1 /\ ping(x) \in 0..1 /\ dm(x) \in 0..1 /\ feed(x) \in 0..1
             /\ rank(x) = amount(x) + 500000 * dm(x) + 1000000 * ping(x) - 250000 * feed(x)
             /\ Tier(x) = 8 * prio(x) + 4 * ping(x) + 2 * dm(x) + (1 - feed(x))
  <2>1. EntryOK(x, results[x]) BY DEF ResultsOK, MergedOK
  <2>2. amount(x) \in Nat /\ amount(x) < 250000
    <3>1. amount(x) \in Nat /\ amount(x) < FeedPenalty BY <2>1, AmountBound
    <3> QED BY <3>1, SMT DEF FeedPenalty
  <2>3. results[x].priority \in BOOLEAN BY <2>1 DEF EntryOK
  <2>4. rank(x) = amount(x) + Bonus(x \in DMRoom, 500000) + Bonus(Pings(results[x]), 1000000)
                    - Bonus(IsFeed(x, results[x]), 250000)
        BY SMT DEF RankUnread, DMBonus, MentionBonus, FeedPenalty
  <2>5. Tier(x) = Bonus(results[x].priority, 8) + Bonus(Pings(results[x]), 4) + Bonus(x \in DMRoom, 2)
                    + Bonus(~ IsFeed(x, results[x]), 1)
        BY DEF Tier
  <2>6. prio(x) \in 0..1 /\ Bonus(results[x].priority, 8) = 8 * prio(x) BY BonusOf
  <2>7. /\ ping(x) \in 0..1 /\ Bonus(Pings(results[x]), 4) = 4 * ping(x)
        /\ Bonus(Pings(results[x]), 1000000) = 1000000 * ping(x)
        BY BonusOf, SMT
  <2>8. /\ dm(x) \in 0..1 /\ Bonus(x \in DMRoom, 2) = 2 * dm(x)
        /\ Bonus(x \in DMRoom, 500000) = 500000 * dm(x)
        BY BonusOf, SMT
  <2>9. /\ feed(x) \in 0..1 /\ Bonus(IsFeed(x, results[x]), 250000) = 250000 * feed(x)
        /\ Bonus(~ IsFeed(x, results[x]), 1) = 1 - feed(x)
        BY BonusOf, BonusNot, SMT
  <2> HIDE DEF amount, prio, ping, dm, feed, rank
  <2>10. rank(x) = amount(x) + 500000 * dm(x) + 1000000 * ping(x) - 250000 * feed(x)
         BY <2>4, <2>7, <2>8, <2>9, SMT
  <2>11. Tier(x) = 8 * prio(x) + 4 * ping(x) + 2 * dm(x) + (1 - feed(x)) BY <2>5, <2>6, <2>7, <2>8, <2>9
  <2> QED BY <2>2, <2>3, <2>6, <2>7, <2>8, <2>9, <2>10, <2>11, SMT
<1>2. CASE results[s].priority # results[r].priority
  <2>1. results[s].priority = TRUE /\ results[r].priority = FALSE BY <1>1, <1>2 DEF Before
  <2>2. prio(s) = 1 /\ prio(r) = 0 BY <2>1 DEF Bonus
  <2> HIDE DEF amount, prio, ping, dm, feed, rank
  <2> QED BY <1>1, <2>2, SMT
<1>3. CASE results[s].priority = results[r].priority
  <2>1. rank(s) > rank(r) \/ rank(s) = rank(r) BY <1>3 DEF Before
  <2>2. prio(s) = prio(r) BY <1>3
  <2> HIDE DEF amount, prio, ping, dm, feed, rank
  <2>3. rank(s) >= rank(r) BY <1>1, <2>1, SMT
  <2>4. 4 * ping(s) + 2 * dm(s) - feed(s) >= 4 * ping(r) + 2 * dm(r) - feed(r) BY <1>1, <2>3, RankOrder, SMT
  <2> QED BY <1>1, <2>2, <2>4, SMT
<1> QED BY <1>2, <1>3

\* The answer has finitely many lines.
LEMMA LinesFinite ==
    ASSUME SentOK, ResultsOK
    PROVE  \A S \in SUBSET DOMAIN results : IsFiniteSet(UNION {LinesOf(r) : r \in S})
<1> DEFINE Line1 == 0..MaxSent
           Line2 == 0..(MaxSent + PreviewReplies + 1)
           Lines == Room \X (Line1 \X Line2)
<1>1. MaxSent \in Nat /\ PreviewReplies \in Nat /\ Listed \in Seq(Room) BY AnswerAssumption
<1>2. Len(sent) \in Nat /\ Len(sent) <= MaxSent BY LenProperties DEF SentOK
<1>3. IsFiniteSet(Room)
  <2>1. Len(Listed) \in Nat /\ DOMAIN Listed = 1..Len(Listed) BY <1>1, LenProperties
  <2>2. IsFiniteSet(DOMAIN Listed) BY <2>1, FS_Interval
  <2>3. Listed \in [DOMAIN Listed -> Room] BY <1>1, <2>1
  <2>4. \A x \in Room : \E n \in DOMAIN Listed : Listed[n] = x BY DEF Room, Range
  <2>5. Listed \in Surjection(DOMAIN Listed, Room) BY <2>3, <2>4 DEF Surjection
  <2> QED BY <2>2, <2>5, FS_Surjection
<1>4. IsFiniteSet(Lines)
  <2>1. IsFiniteSet(Line1) /\ IsFiniteSet(Line2) BY <1>1, FS_Interval
  <2> HIDE DEF Line1, Line2
  <2>2. IsFiniteSet(Line1 \X Line2) BY <2>1, FS_Product
  <2> QED BY <1>3, <2>2, FS_Product
<1>5. ASSUME NEW r \in DOMAIN results
      PROVE  LinesOf(r) \subseteq Lines
  <2> DEFINE e == results[r]
             posts == IF Skipped(r) THEN {} ELSE IF Condensed(r) THEN {1} ELSE e.messages
             shown == {line \in (DOMAIN e.replies) \X (1..(PreviewReplies + 1)) :
                         line[2] <= Cardinality(DOMAIN e.replies[line[1]])}
  <2>1. EntryOK(r, e) /\ r \in Room BY DEF ResultsOK, MergedOK
  <2>2. {0} \cup posts \subseteq Line2
    <3>1. e.messages \subseteq 1..Len(sent) BY <2>1 DEF EntryOK
    <3> QED BY <1>1, <1>2, <3>1
  <2>3. DOMAIN e.replies \subseteq Line1 /\ 1..(PreviewReplies + 1) \subseteq Line2 BY <1>1, <2>1 DEF EntryOK
  <2>4. 0 \in Line1 BY <1>1
  <2>5. LinesOf(r) = {r} \X (({0} \X ({0} \cup posts)) \cup shown) BY DEF LinesOf
  <2> HIDE DEF e, posts, Line1, Line2
  <2>6. {0} \X ({0} \cup posts) \subseteq Line1 \X Line2 BY <2>2, <2>4
  <2>7. shown \subseteq Line1 \X Line2 BY <2>3
  <2> QED BY <2>1, <2>5, <2>6, <2>7
<1>6. ASSUME NEW S \in SUBSET DOMAIN results
      PROVE  IsFiniteSet(UNION {LinesOf(r) : r \in S})
  <2>1. UNION {LinesOf(r) : r \in S} \subseteq Lines BY <1>5
  <2> QED BY <1>4, <2>1, FS_Subset
<1> QED BY <1>6

\* More conversations take at least as many lines.
LEMMA LinesGrow ==
    ASSUME SentOK, ResultsOK, NEW T \in SUBSET DOMAIN results, NEW S \in SUBSET T
    PROVE  LinesTaken(S) \in Nat /\ LinesTaken(T) \in Nat /\ LinesTaken(S) <= LinesTaken(T)
<1> DEFINE A == UNION {LinesOf(r) : r \in S}
           B == UNION {LinesOf(r) : r \in T}
<1>1. IsFiniteSet(B) BY LinesFinite
<1>2. A \subseteq B OBVIOUS
<1>3. LinesTaken(S) = Cardinality(A) /\ LinesTaken(T) = Cardinality(B) BY DEF LinesTaken
<1> HIDE DEF A, B
<1>4. IsFiniteSet(A) /\ Cardinality(A) <= Cardinality(B) BY <1>1, <1>2, FS_Subset
<1> QED BY <1>1, <1>3, <1>4, FS_CardinalityType

-----------------------------------------------------------------------------
(***************************************************************************)
(* The call, step by step.                                                 *)
(***************************************************************************)
\* From the merges on all that is due is in the entries or hidden.
ToldOK ==
    answerStep \in {"probing", "writing", "done"} =>
        \A lane \in Lanes : \A r \in DOMAIN lanes[lane] : \A i \in Content(lanes[lane][r]) :
            Due(lane, r, i) => r \in hiddenRooms \/ (r \in DOMAIN results /\ i \in Content(results[r]))

\* What is written stands before what is left, and leaves no room for what
\* was left out.
WriteOK ==
    /\ written \in [shown : SUBSET Room, omitted : SUBSET Room]
    /\ written.shown \cup written.omitted \subseteq DOMAIN results
    /\ answerStep \in {"idle", "merging", "probing"} => written = Blank
    /\ \A s \in written.shown : \A r \in Left : Before(s, r)
    /\ \A r \in written.omitted : LinesTaken({s \in written.shown : Tier(s) >= Tier(r)} \cup {r}) > MaxLines
    /\ answerStep = "done" => Left = {}

StepOK ==
    /\ readUpTo \in [Room -> 0..MaxSent]
    /\ answerStep \in {"idle", "merging", "probing", "writing", "done"}
    /\ IF answerStep = "idle" THEN answering = <<>> ELSE answering \in Answering
    /\ answerStep = "idle" => \A lane \in Lanes : lanes[lane] = Nothing
    /\ answerStep \in {"idle", "merging"} => results = Nothing
    /\ answerStep \in {"idle", "merging", "probing"} => hiddenRooms = {}
    /\ hiddenRooms \subseteq DMRoom

AnswerInv == SentOK /\ StepOK /\ LanesOK /\ ResultsOK /\ ToldOK /\ HiddenIsSettled /\ WriteOK

\* Before anything is written all that is said of it holds.
LEMMA BlankIsOK ==
    ASSUME NEW d, d = Blank
    PROVE  d.shown = {} /\ d.omitted = {} /\ d \in [shown : SUBSET Room, omitted : SUBSET Room]
BY DEF Blank

LEMMA AnswerInvInit == AnswerInit => AnswerInv
<1> SUFFICES ASSUME AnswerInit PROVE AnswerInv OBVIOUS
<1> USE DEF AnswerInit
<1>1. MaxSent \in Nat BY AnswerAssumption
<1>2. SentOK
  <2>1. sent \in Seq(Message) /\ Len(sent) = 0 BY EmptySeq
  <2> QED BY <1>1, <2>1 DEF SentOK
<1>3. 0 \in 0..MaxSent BY <1>1
<1>4. StepOK BY <1>3, Zenon DEF StepOK
<1>5. LanesOK
  <2>1. DOMAIN lanes = Lanes /\ \A lane \in Lanes : lanes[lane] = Nothing OBVIOUS
  <2> QED BY <2>1, NothingType DEF LanesOK
<1>6. ResultsOK BY NothingType DEF ResultsOK
<1>7. ToldOK BY DEF ToldOK
<1>8. HiddenIsSettled BY DEF HiddenIsSettled
<1>9. WriteOK
  <2>1. written = Blank /\ answerStep # "done" OBVIOUS
  <2> QED BY <2>1, BlankIsOK DEF WriteOK
<1> QED BY <1>2, <1>4, <1>5, <1>6, <1>7, <1>8, <1>9 DEF AnswerInv

\* A message more changes nothing of what was read.
LEMMA SendGrows ==
    ASSUME AnswerInv, NEW line \in Line, NEW root \in 0..Len(sent), Send(line, root)
    PROVE  /\ SentOK' /\ Len(sent') = Len(sent) + 1 /\ Len(sent) \in Nat
           /\ \A i \in 1..Len(sent) : i \in 1..Len(sent') /\ sent'[i] = sent[i]
<1> DEFINE m == [room |-> line.room, by |-> line.by, says |-> line.says, root |-> root]
<1>1. sent \in Seq(Message) /\ Len(sent) \in Nat /\ Len(sent) <= MaxSent BY LenProperties DEF AnswerInv, SentOK
<1>2. Len(sent) < MaxSent /\ sent' = Append(sent, m) /\ MaxSent \in Nat BY AnswerAssumption DEF Send
<1>3. m \in Message
  <2>1. line \in [room : Room, by : {"me", "peer", "bot"}, says : {"live", "ack", "ping"}] BY AnswerAssumption
  <2>2. MaxSent \in Nat BY AnswerAssumption
  <2>3. root \in 0..MaxSent BY <1>1, <2>2
  <2> QED BY <2>1, <2>3 DEF Message
<1>4. m.root = root OBVIOUS
<1> HIDE DEF m
<1>5. /\ sent' \in Seq(Message) /\ Len(sent') = Len(sent) + 1
      /\ \A i \in 1..Len(sent) : sent'[i] = sent[i]
      /\ sent'[Len(sent) + 1] = m
      BY <1>1, <1>2, <1>3, AppendProperties
<1>6. \A i \in 1..Len(sent') : sent'[i].root < i
  <2>1. \A i \in 1..Len(sent) : sent[i].root < i BY DEF AnswerInv, SentOK
  <2> QED BY <1>1, <1>4, <1>5, <2>1
<1>7. SentOK'
  <2>1. Len(sent') <= MaxSent BY <1>1, <1>2, <1>5
  <2> QED BY <1>5, <1>6, <2>1 DEF SentOK, Message
<1> QED BY <1>1, <1>5, <1>7

LEMMA SendStep ==
    ASSUME AnswerInv, NEW line \in Line, NEW root \in 0..Len(sent), Send(line, root)
    PROVE  AnswerInv'
<1>1. /\ SentOK' /\ \A i \in 1..Len(sent) : i \in 1..Len(sent') /\ sent'[i] = sent[i]
      BY SendGrows
<1>2. /\ answerStep \in {"idle", "probing"}
      /\ UNCHANGED <<readUpTo, answerStep, answering, lanes, results, hiddenRooms, written>>
      BY DEF Send
<1>3. SentOK /\ StepOK /\ LanesOK /\ ResultsOK /\ ToldOK /\ WriteOK BY DEF AnswerInv
<1>4. StepOK' BY <1>2, <1>3 DEF StepOK
<1>5. LanesOK'
  <2> SUFFICES ASSUME NEW lane \in Lanes, NEW r \in DOMAIN lanes[lane]
               PROVE  IF lane \in {"thread-mentions", "own-threads"} THEN HitOK(r, lanes[lane][r])'
                      ELSE ReadOK(r, lanes[lane][r])'
      BY <1>2, <1>3 DEF LanesOK, LaneOK
  <2>1. LaneOK(lane, lanes[lane]) BY <1>3 DEF LanesOK
  <2>2. CASE lane \in {"thread-mentions", "own-threads"}
    <3>1. HitOK(r, lanes[lane][r]) BY <2>1, <2>2 DEF LaneOK
    <3>2. HitOK(r, lanes[lane][r])' BY <1>1, <1>2, <3>1 DEF HitOK, EntryOK
    <3> QED BY <2>2, <3>2
  <2>3. CASE lane \notin {"thread-mentions", "own-threads"}
    <3>1. ReadOK(r, lanes[lane][r]) BY <2>1, <2>3 DEF LaneOK
    <3>2. ReadOK(r, lanes[lane][r])' BY <1>1, <1>2, <3>1 DEF ReadOK, EntryOK
    <3> QED BY <2>3, <3>2
  <2> QED BY <2>2, <2>3
<1>6. ResultsOK'
  <2>1. ASSUME NEW r \in DOMAIN results
        PROVE  MergedOK(r, results[r])'
    <3>1. MergedOK(r, results[r]) BY <1>3 DEF ResultsOK
    <3> QED BY <1>1, <1>2, <3>1 DEF MergedOK, EntryOK
  <2> QED BY <1>2, <1>3, <2>1 DEF ResultsOK
<1>7. ToldOK'
  <2> SUFFICES ASSUME answerStep \in {"probing", "writing", "done"},
                      NEW lane \in Lanes, NEW r \in DOMAIN lanes[lane], NEW i \in Content(lanes[lane][r]),
                      Due(lane, r, i)'
               PROVE  Due(lane, r, i)
      BY <1>2, <1>3 DEF ToldOK
  <2>1. \A k \in Content(lanes[lane][r]) : sent'[k] = sent[k]
    <3>1. LaneOK(lane, lanes[lane]) BY <1>3 DEF LanesOK
    <3>2. EntryOK(r, lanes[lane][r]) BY <3>1 DEF LaneOK, HitOK, ReadOK
    <3> QED BY <1>1, <3>2, ContentSent
  <2>2. DirectMessages' = DirectMessages BY <1>2 DEF DirectMessages
  <2>3. \A k \in Content(lanes[lane][r]) : Replaced(lane, r, k)' <=> Replaced(lane, r, k)
        BY <1>2, <2>1, <2>2 DEF Replaced
  <2> QED BY <1>2, <2>1, <2>3 DEF Due, opted
<1>8. HiddenIsSettled' BY <1>2, <1>3 DEF StepOK, HiddenIsSettled
<1>9. WriteOK'
  <2>1. written' = Blank /\ answerStep' # "done" BY <1>2, <1>3 DEF WriteOK
  <2> QED BY <2>1, BlankIsOK DEF WriteOK
<1> QED BY <1>1, <1>4, <1>5, <1>6, <1>7, <1>8, <1>9 DEF AnswerInv

\* A conversation read in the client is read before any call.
LEMMA OpenStep ==
    ASSUME AnswerInv, NEW r \in Room, OpenRoom(r)
    PROVE  AnswerInv'
<1>1. /\ answerStep = "idle" /\ readUpTo' = [readUpTo EXCEPT ![r] = Len(sent)]
      /\ UNCHANGED <<sent, answerStep, answering, lanes, results, hiddenRooms, written>>
      BY DEF OpenRoom
<1>2. SentOK /\ StepOK /\ LanesOK /\ WriteOK BY DEF AnswerInv
<1>3. SentOK' BY <1>1, <1>2 DEF SentOK
<1>4. StepOK'
  <2>1. Len(sent) \in 0..MaxSent
    <3>1. Len(sent) \in Nat /\ Len(sent) <= MaxSent /\ MaxSent \in Nat
          BY <1>2, LenProperties, AnswerAssumption DEF SentOK
    <3> QED BY <3>1
  <2>2. readUpTo' \in [Room -> 0..MaxSent] BY <1>1, <1>2, <2>1 DEF StepOK
  <2> QED BY <1>1, <1>2, <2>2 DEF StepOK
<1>5. LanesOK'
  <2>1. DOMAIN lanes' = Lanes /\ \A lane \in Lanes : lanes'[lane] = Nothing
        BY <1>1, <1>2 DEF StepOK, LanesOK
  <2> QED BY <2>1, NothingType DEF LanesOK, LaneOK
<1>6. ResultsOK'
  <2>1. results' = Nothing BY <1>1, <1>2 DEF StepOK
  <2> QED BY <2>1, NothingType DEF ResultsOK
<1>7. ToldOK' BY <1>1 DEF ToldOK
<1>8. HiddenIsSettled' BY <1>1, <1>2 DEF StepOK, HiddenIsSettled
<1>9. WriteOK'
  <2>1. written' = Blank /\ answerStep' # "done" BY <1>1, <1>2 DEF WriteOK
  <2> QED BY <2>1, BlankIsOK DEF WriteOK
<1> QED BY <1>3, <1>4, <1>5, <1>6, <1>7, <1>8, <1>9 DEF AnswerInv

\* The phases return.
LEMMA AskStep ==
    ASSUME AnswerInv, NEW opts \in AnswerCall, NEW view \in AnswerView, Ask(opts, view)
    PROVE  AnswerInv'
<1>1. /\ answerStep = "idle" /\ answerStep' = "merging"
      /\ answering' = [opted |-> opts, view |-> view]
      /\ lanes' = [lane \in Lanes |-> Returned(lane)']
      /\ UNCHANGED <<sent, readUpTo, results, hiddenRooms, written>>
      BY DEF Ask, world
<1>2. SentOK /\ StepOK /\ LanesOK /\ WriteOK BY DEF AnswerInv
<1>3. SentOK' BY <1>1, <1>2 DEF SentOK
<1>4. StepOK'
  <2>1. answering' \in Answering BY <1>1 DEF Answering
  <2> QED BY <1>1, <1>2, <2>1 DEF StepOK
<1>5. LanesOK'
  <2>1. SentOK' => LanesReturned' BY ReturnedType, PTL
  <2>2. \A lane \in Lanes : LaneOK(lane, Returned(lane))' BY <1>3, <2>1 DEF LanesReturned
  <2>3. DOMAIN lanes' = Lanes /\ \A lane \in Lanes : lanes'[lane] = Returned(lane)' BY <1>1
  <2> QED BY <2>2, <2>3 DEF LanesOK
<1>6. ResultsOK'
  <2>1. results' = Nothing BY <1>1, <1>2 DEF StepOK
  <2> QED BY <2>1, NothingType DEF ResultsOK
<1>7. ToldOK' BY <1>1 DEF ToldOK
<1>8. HiddenIsSettled' BY <1>1, <1>2 DEF StepOK, HiddenIsSettled
<1>9. WriteOK'
  <2>1. written' = Blank /\ answerStep' # "done" BY <1>1, <1>2 DEF WriteOK
  <2> QED BY <2>1, BlankIsOK DEF WriteOK
<1> QED BY <1>3, <1>4, <1>5, <1>6, <1>7, <1>8, <1>9 DEF AnswerInv

\* Nothing is replaced, or due, but by what the lanes and the call are.
LEMMA DueFrame ==
    ASSUME UNCHANGED <<sent, answering, lanes>>
    PROVE  /\ SentOK <=> SentOK'
           /\ LanesOK <=> LanesOK'
           /\ \A lane, r, i : Replaced(lane, r, i)' <=> Replaced(lane, r, i)
           /\ \A lane, r, i : Due(lane, r, i)' <=> Due(lane, r, i)
<1>1. SentOK <=> SentOK' BY DEF SentOK
<1>2. LanesOK <=> LanesOK' BY DEF LanesOK, LaneOK, HitOK, ReadOK, EntryOK
<1>3. DirectMessages' = DirectMessages BY DEF DirectMessages
<1>4. \A lane, r, i : Replaced(lane, r, i)' <=> Replaced(lane, r, i) BY <1>3 DEF Replaced
<1>5. \A lane, r, i : Due(lane, r, i)' <=> Due(lane, r, i) BY <1>4 DEF Due, opted
<1> QED BY <1>1, <1>2, <1>4, <1>5

LEMMA MergeStep ==
    ASSUME AnswerInv, MergeAll
    PROVE  AnswerInv'
<1>1. /\ answerStep = "merging" /\ answerStep' = "probing" /\ results' = Arrived
      /\ UNCHANGED <<sent, readUpTo, answering, lanes, hiddenRooms, written>>
      BY DEF MergeAll, world
<1>2. SentOK /\ StepOK /\ LanesOK /\ WriteOK /\ answering \in Answering
      BY <1>1 DEF AnswerInv, StepOK
<1>3. SentOK' /\ LanesOK' BY <1>1, <1>2, DueFrame
<1>4. StepOK' BY <1>1, <1>2 DEF StepOK
<1>5. /\ DOMAIN Arrived \subseteq Room /\ \A r \in DOMAIN Arrived : MergedOK(r, Arrived[r])
      /\ \A lane \in Lanes : \A r \in DOMAIN lanes[lane] : \A i \in Content(lanes[lane][r]) :
            Due(lane, r, i) => r \in DOMAIN Arrived /\ i \in Content(Arrived[r])
      BY <1>2, ArrivedType
<1>6. ResultsOK' BY <1>1, <1>5 DEF ResultsOK, MergedOK, EntryOK
<1>7. ToldOK' BY <1>1, <1>5, DueFrame DEF ToldOK
<1>8. HiddenIsSettled' BY <1>1, <1>2 DEF StepOK, HiddenIsSettled
<1>9. WriteOK'
  <2>1. written' = Blank /\ answerStep' # "done" BY <1>1, <1>2 DEF WriteOK
  <2> QED BY <2>1, BlankIsOK DEF WriteOK
<1> QED BY <1>3, <1>4, <1>6, <1>7, <1>8, <1>9 DEF AnswerInv

\* A hidden conversation was answered when it was probed.
LEMMA DropStep ==
    ASSUME AnswerInv, DropAnswered
    PROVE  AnswerInv'
<1>1. /\ answerStep = "probing" /\ answerStep' = "writing"
      /\ hiddenRooms' \subseteq AnsweredRooms
      /\ results' = Restrict(results, DOMAIN results \ hiddenRooms')
      /\ UNCHANGED <<sent, readUpTo, answering, lanes, written>>
      BY DEF DropAnswered, world
<1>2. SentOK /\ StepOK /\ LanesOK /\ ResultsOK /\ ToldOK /\ WriteOK BY DEF AnswerInv
<1>3. SentOK' /\ LanesOK' BY <1>1, <1>2, DueFrame
<1>4. \A r \in hiddenRooms' : r \in DMRoom /\ r \in DOMAIN results /\ Answered(r, results[r])
      BY <1>1 DEF AnsweredRooms
<1>5. StepOK' BY <1>1, <1>2, <1>4 DEF StepOK
<1>6. /\ DOMAIN results' = DOMAIN results \ hiddenRooms'
      /\ \A r \in DOMAIN results' : results'[r] = results[r]
      BY <1>1 DEF Restrict
<1>7. ResultsOK'
  <2>1. ASSUME NEW r \in DOMAIN results'
        PROVE  MergedOK(r, results[r])'
    <3>1. MergedOK(r, results[r]) /\ results'[r] = results[r] BY <1>2, <1>6 DEF ResultsOK
    <3>2. sent' = sent BY <1>1
    <3> QED BY <3>1, <3>2 DEF MergedOK, EntryOK
  <2> QED BY <1>2, <1>6, <2>1 DEF ResultsOK
<1>8. \A lane \in Lanes : \A r \in DOMAIN lanes[lane] : \A i \in Content(lanes[lane][r]) :
         Due(lane, r, i) => r \in DOMAIN results /\ i \in Content(results[r])
      BY <1>1, <1>2 DEF ToldOK, StepOK
<1>9. ToldOK' BY <1>1, <1>6, <1>8, DueFrame DEF ToldOK
<1>10. HiddenIsSettled'
  <2> SUFFICES ASSUME NEW r \in hiddenRooms', NEW lane \in Lanes, r \in DOMAIN lanes[lane],
                      NEW i \in Content(lanes[lane][r]),
                      ~ (i <= opted.after), ~ Replaced(lane, r, i), sent[i].by # "me", sent[i].says # "ack"
               PROVE  SettledAfter(r, i)
      BY <1>1, DueFrame DEF HiddenIsSettled, SettledAfter, opted
  <2>1. i \in Nat /\ opted.after \in Nat
    <3>1. LaneOK(lane, lanes[lane]) BY <1>2 DEF LanesOK
    <3>2. EntryOK(r, lanes[lane][r]) BY <3>1 DEF LaneOK, HitOK, ReadOK
    <3>3. i \in 1..Len(sent) BY <3>2, ContentSent
    <3>4. answering \in Answering BY <1>1, <1>2 DEF StepOK
    <3> QED BY <1>2, <3>3, <3>4, MessageType, OptionType
  <2>2. Due(lane, r, i) BY <1>4, <2>1 DEF Due
  <2>3. r \in DOMAIN results /\ i \in Content(results[r]) BY <1>8, <2>2
  <2>4. MergedOK(r, results[r]) BY <1>2, <2>3 DEF ResultsOK
  <2> QED BY <1>2, <1>4, <2>3, <2>4, AnsweredIsSettled
<1>11. WriteOK'
  <2>1. written' = Blank /\ answerStep' = "writing" BY <1>1, <1>2 DEF WriteOK
  <2> QED BY <2>1, BlankIsOK DEF WriteOK
<1> QED BY <1>3, <1>5, <1>7, <1>9, <1>10, <1>11 DEF AnswerInv

\* While the answer is written nothing else changes.
LEMMA WritingFrame ==
    ASSUME UNCHANGED <<sent, answering, lanes, results, hiddenRooms>>, AnswerInv,
           answerStep \in {"writing", "done"}, answerStep' \in {"writing", "done"}, UNCHANGED readUpTo
    PROVE  /\ SentOK' /\ StepOK' /\ LanesOK' /\ ResultsOK' /\ ToldOK' /\ HiddenIsSettled'
           /\ \A r : Tier(r)' = Tier(r) /\ (Rendered(r)' <=> Rendered(r))
           /\ \A r, s : Before(r, s)' <=> Before(r, s)
           /\ \A r : LinesOf(r)' = LinesOf(r)
<1>1. SentOK /\ StepOK /\ LanesOK /\ ResultsOK /\ ToldOK /\ HiddenIsSettled BY DEF AnswerInv
<1>2. SentOK' /\ LanesOK' BY <1>1, DueFrame
<1>3. StepOK' BY <1>1 DEF StepOK
<1>4. ResultsOK' BY <1>1 DEF ResultsOK, MergedOK, EntryOK
<1>5. ToldOK' BY <1>1, DueFrame DEF ToldOK
<1>6. HiddenIsSettled' BY <1>1, DueFrame DEF HiddenIsSettled, opted
<1>7. \A e : Pings(e)' <=> Pings(e) BY DEF Pings
<1>8. \A e : Urgency(e)' = Urgency(e) BY DEF Urgency
<1>9. \A r, e : (IsLog(r, e)' <=> IsLog(r, e)) /\ (IsFeed(r, e)' <=> IsFeed(r, e)) BY DEF IsLog, IsFeed
<1>10. \A r : (Skipped(r)' <=> Skipped(r)) /\ (Condensed(r)' <=> Condensed(r))
       BY <1>9 DEF Skipped, Condensed, opted
<1>11. \A r : Rendered(r)' <=> Rendered(r) BY <1>10 DEF Rendered
<1>12. ASSUME NEW r
       PROVE  Tier(r)' = Tier(r)
  <2>1. (Pings(results[r]) <=> Pings(results[r])') /\ (IsFeed(r, results[r]) <=> IsFeed(r, results[r])')
        BY <1>7, <1>9
  <2> QED BY <2>1 DEF Tier, Bonus
<1>13. \A r, e : RankUnread(r, e)' = RankUnread(r, e) BY <1>7, <1>8, <1>9, SMT DEF RankUnread, Bonus
<1>14. \A r, s : Before(r, s)' <=> Before(r, s) BY <1>13 DEF Before
<1>15. \A r : LinesOf(r)' = LinesOf(r) BY <1>10 DEF LinesOf
<1> QED BY <1>2, <1>3, <1>4, <1>5, <1>6, <1>11, <1>12, <1>14, <1>15

LEMMA WriteStep ==
    ASSUME AnswerInv, WriteRoom
    PROVE  AnswerInv'
<1>1. /\ answerStep = "writing" /\ answerStep' = "writing"
      /\ UNCHANGED <<sent, readUpTo, answering, lanes, results, hiddenRooms>>
      BY DEF WriteRoom, world, AnswerInv
<1>2. PICK r \in Left : (\A s \in Left \ {r} : Before(r, s)) /\ written' = Emit(written, r) BY DEF WriteRoom
<1>3. SentOK /\ ResultsOK /\ WriteOK BY DEF AnswerInv
<1>4. /\ SentOK' /\ StepOK' /\ LanesOK' /\ ResultsOK' /\ ToldOK' /\ HiddenIsSettled'
      /\ \A x : Tier(x)' = Tier(x) /\ (Rendered(x)' <=> Rendered(x))
      /\ \A x, y : Before(x, y)' <=> Before(x, y)
      /\ \A x : LinesOf(x)' = LinesOf(x)
      BY <1>1, WritingFrame
<1> DEFINE shown == written.shown
           omitted == written.omitted
           fits == ~ (LinesTaken(shown \cup {r}) > MaxLines)
<1>5. /\ written'.shown = (IF fits THEN shown \cup {r} ELSE shown)
      /\ written'.omitted = (IF fits THEN omitted ELSE omitted \cup {r})
      /\ written' \in [shown : SUBSET Room, omitted : SUBSET Room]
  <2>1. r \in Room BY <1>2, <1>3 DEF Left, ResultsOK
  <2>2. written \in [shown : SUBSET Room, omitted : SUBSET Room] BY <1>3 DEF WriteOK
  <2>3. CASE fits
    <3>1. written' = [written EXCEPT !.shown = @ \cup {r}] BY <1>2, <2>3 DEF Emit
    <3> QED BY <2>1, <2>2, <2>3, <3>1
  <2>4. CASE ~ fits
    <3>1. written' = [written EXCEPT !.omitted = @ \cup {r}] BY <1>2, <2>4 DEF Emit
    <3> QED BY <2>1, <2>2, <2>4, <3>1
  <2> QED BY <2>3, <2>4
<1>6. shown \cup omitted \cup {r} \subseteq DOMAIN results BY <1>2, <1>3 DEF WriteOK, Left
<1>7. Left' = Left \ {r}
  <2>1. written'.shown \cup written'.omitted = (shown \cup omitted) \cup {r} BY <1>5
  <2> QED BY <1>1, <1>4, <2>1 DEF Left
<1>8. \A s \in written'.shown : \A x \in Left' : Before(s, x)'
  <2>1. \A s \in shown : \A x \in Left : Before(s, x) BY <1>3 DEF WriteOK
  <2>2. written'.shown \subseteq shown \cup {r} BY <1>5
  <2>3. ASSUME NEW s \in written'.shown, NEW x \in Left'
        PROVE  Before(s, x)
        BY <1>2, <1>7, <2>1, <2>2
  <2> QED BY <1>4, <2>3
<1>9. ASSUME NEW x \in written'.omitted
      PROVE  LinesTaken({s \in written'.shown : Tier(s) >= Tier(x)} \cup {x}) > MaxLines
  <2> DEFINE S == {s \in shown : Tier(s) >= Tier(x)} \cup {x}
             T == {s \in written'.shown : Tier(s) >= Tier(x)} \cup {x}
  <2>1. MaxLines \in Nat BY AnswerAssumption
  <2>2. S \subseteq T /\ T \subseteq DOMAIN results
    <3>1. x \in DOMAIN results BY <1>5, <1>6
    <3> QED BY <1>5, <1>6, <3>1
  <2>3. LinesTaken(S) > MaxLines
    <3>1. CASE x \in omitted BY <1>3, <3>1 DEF WriteOK
    <3>2. CASE x \notin omitted
      <4>1. x = r /\ ~ fits BY <1>5, <3>2
      <4>2. \A s \in shown : Tier(s) >= Tier(x)
        <5>1. \A s \in shown : Before(s, x) BY <1>2, <1>3, <4>1 DEF WriteOK
        <5> QED BY <1>3, <1>6, <4>1, <5>1, BeforeIsNoLess
      <4>3. S = shown \cup {r} BY <4>1, <4>2
      <4> QED BY <4>1, <4>3
    <3> QED BY <3>1, <3>2
  <2> HIDE DEF S, T
  <2>4. LinesTaken(T) \in Nat /\ LinesTaken(S) \in Nat /\ LinesTaken(S) <= LinesTaken(T)
        BY <1>3, <2>2, LinesGrow
  <2>5. LinesTaken(T) > MaxLines BY <2>1, <2>3, <2>4
  <2> QED BY <2>5 DEF T
<1>10. \A x \in written'.omitted :
          (LinesTaken({s \in written.shown : Tier(s) >= Tier(x)} \cup {x}) > MaxLines)'
       BY <1>4, <1>9 DEF LinesTaken
<1>11. WriteOK' BY <1>1, <1>5, <1>6, <1>8, <1>10 DEF WriteOK
<1> QED BY <1>4, <1>11 DEF AnswerInv

LEMMA EndStep ==
    ASSUME AnswerInv, EndAnswer
    PROVE  AnswerInv'
<1>1. /\ answerStep = "writing" /\ answerStep' = "done" /\ Left = {}
      /\ UNCHANGED <<sent, readUpTo, answering, lanes, results, hiddenRooms, written>>
      BY DEF EndAnswer, world
<1>2. WriteOK BY DEF AnswerInv
<1>3. /\ SentOK' /\ StepOK' /\ LanesOK' /\ ResultsOK' /\ ToldOK' /\ HiddenIsSettled'
      /\ \A x : Tier(x)' = Tier(x) /\ (Rendered(x)' <=> Rendered(x))
      /\ \A x : LinesOf(x)' = LinesOf(x)
      BY <1>1, WritingFrame
<1>4. Left' = {} BY <1>1, <1>3 DEF Left
<1>5. \A x \in written'.omitted :
         (LinesTaken({s \in written.shown : Tier(s) >= Tier(x)} \cup {x}) > MaxLines)'
      BY <1>1, <1>2, <1>3 DEF LinesTaken, WriteOK
<1>6. WriteOK' BY <1>1, <1>2, <1>4, <1>5 DEF WriteOK
<1> QED BY <1>3, <1>6 DEF AnswerInv

LEMMA AnswerStutter ==
    ASSUME AnswerInv, UNCHANGED answerVars
    PROVE  AnswerInv'
<1>1. /\ UNCHANGED <<sent, readUpTo, answering, lanes, results, hiddenRooms, written>>
      /\ UNCHANGED answerStep
      BY DEF answerVars, world
<1>2. SentOK /\ StepOK /\ LanesOK /\ ResultsOK /\ ToldOK /\ HiddenIsSettled /\ WriteOK BY DEF AnswerInv
<1>3. SentOK' /\ LanesOK' BY <1>1, <1>2, DueFrame
<1>4. StepOK' BY <1>1, <1>2 DEF StepOK
<1>5. ResultsOK' BY <1>1, <1>2 DEF ResultsOK, MergedOK, EntryOK
<1>6. ToldOK' BY <1>1, <1>2, DueFrame DEF ToldOK
<1>7. HiddenIsSettled' BY <1>1, <1>2, DueFrame DEF HiddenIsSettled, opted
<1>8. WriteOK'
  <2>1. CASE answerStep \in {"idle", "merging", "probing"}
    <3>1. written' = Blank /\ answerStep' # "done" BY <1>1, <1>2, <2>1 DEF WriteOK
    <3> QED BY <3>1, BlankIsOK DEF WriteOK
  <2>2. CASE answerStep \in {"writing", "done"}
    <3>1. /\ \A x : Tier(x)' = Tier(x) /\ (Rendered(x)' <=> Rendered(x))
          /\ \A x, y : Before(x, y)' <=> Before(x, y)
          /\ \A x : LinesOf(x)' = LinesOf(x)
          BY <1>1, <2>2, WritingFrame
    <3>2. Left' = Left BY <1>1, <3>1 DEF Left
    <3>3. \A x \in written'.omitted :
             (LinesTaken({s \in written.shown : Tier(s) >= Tier(x)} \cup {x}) > MaxLines)'
          BY <1>1, <1>2, <3>1 DEF LinesTaken, WriteOK
    <3>4. \A s \in written'.shown : \A x \in Left' : Before(s, x)' BY <1>1, <1>2, <3>1, <3>2 DEF WriteOK
    <3> QED BY <1>1, <1>2, <3>2, <3>3, <3>4 DEF WriteOK
  <2> QED BY <1>2, <2>1, <2>2 DEF StepOK
<1> QED BY <1>3, <1>4, <1>5, <1>6, <1>7, <1>8 DEF AnswerInv

LEMMA AnswerStepInv == AnswerInv /\ [AnswerNext]_answerVars => AnswerInv'
<1> SUFFICES ASSUME AnswerInv, [AnswerNext]_answerVars
             PROVE  AnswerInv'
    OBVIOUS
<1>1. CASE \E line \in Line, root \in 0..Len(sent) : Send(line, root) BY <1>1, SendStep
<1>2. CASE \E r \in Room : OpenRoom(r) BY <1>2, OpenStep
<1>3. CASE \E opts \in AnswerCall, view \in AnswerView : Ask(opts, view) BY <1>3, AskStep
<1>4. CASE MergeAll BY <1>4, MergeStep
<1>5. CASE DropAnswered BY <1>5, DropStep
<1>6. CASE WriteRoom BY <1>6, WriteStep
<1>7. CASE EndAnswer BY <1>7, EndStep
<1>8. CASE UNCHANGED answerVars BY <1>8, AnswerStutter
<1> QED BY <1>1, <1>2, <1>3, <1>4, <1>5, <1>6, <1>7, <1>8 DEF AnswerNext

LEMMA AnswerInvariant == AnswerSpec => []AnswerInv
BY AnswerInvInit, AnswerStepInv, PTL DEF AnswerSpec

-----------------------------------------------------------------------------
(***************************************************************************)
(* What the call keeps.                                                    *)
(***************************************************************************)
LEMMA AnswerInvTypes == AnswerInv => AnswerTypeOK
<1> SUFFICES ASSUME AnswerInv PROVE AnswerTypeOK OBVIOUS
<1>1. SentOK /\ StepOK /\ LanesOK /\ ResultsOK /\ WriteOK BY DEF AnswerInv
<1>2. sent \in Seq([room : Room, by : {"me", "peer", "bot"}, says : {"live", "ack", "ping"}, root : 0..MaxSent])
      BY <1>1 DEF SentOK, Message
<1>3. readUpTo \in [Room -> 0..MaxSent] /\ answerStep \in {"idle", "merging", "probing", "writing", "done"}
      BY <1>1 DEF StepOK
<1>4. answering = <<>> \/ answering \in [opted : AnswerCall, view : AnswerView] BY <1>1 DEF StepOK, Answering
<1>5. DOMAIN lanes = Lanes /\ \A lane \in Lanes : DOMAIN lanes[lane] \subseteq Room BY <1>1 DEF LanesOK, LaneOK
<1>6. DOMAIN results \cup hiddenRooms \cup written.shown \cup written.omitted \subseteq Room
  <2>1. hiddenRooms \subseteq Room BY <1>1, AnswerAssumption DEF StepOK
  <2> QED BY <1>1, <2>1 DEF ResultsOK, WriteOK
<1> QED BY <1>2, <1>3, <1>4, <1>5, <1>6 DEF AnswerTypeOK

\* When all that renders is written, what is due is written too.
LEMMA AnswerInvTells == AnswerInv => NothingReadIsUntold
<1> SUFFICES ASSUME AnswerInv, answerStep = "done",
                    NEW lane \in Lanes, NEW r \in DOMAIN lanes[lane], NEW i \in Content(lanes[lane][r]),
                    Due(lane, r, i), r \notin hiddenRooms
             PROVE  /\ r \in DOMAIN results /\ i \in Content(results[r])
                    /\ \/ r \in written.shown \cup written.omitted
                       \/ Skipped(r) /\ sent[i].root = 0
    BY DEF NothingReadIsUntold, Due
<1>1. ResultsOK /\ ToldOK /\ Left = {} BY DEF AnswerInv, WriteOK
<1>2. r \in DOMAIN results /\ i \in Content(results[r]) BY <1>1 DEF ToldOK
<1>3. CASE Rendered(r) BY <1>1, <1>2, <1>3 DEF Left
<1>4. CASE ~ Rendered(r)
  <2>1. Skipped(r) /\ DOMAIN results[r].replies = {} BY <1>2, <1>4 DEF Rendered
  <2>2. i \in results[r].messages BY <1>2, <2>1, ContentOf
  <2>3. EntryOK(r, results[r]) BY <1>1, <1>2 DEF ResultsOK, MergedOK
  <2> QED BY <1>2, <2>1, <2>2, <2>3 DEF EntryOK
<1> QED BY <1>2, <1>3, <1>4

\* The variables keep their types.
THEOREM AnswerTypeCorrect == AnswerSpec => []AnswerTypeOK
BY AnswerInvariant, AnswerInvTypes, PTL

\* No direct message is hidden as answered while a message the lanes brought
\* waits for the operator: in a merged thread every reply out of its order
\* is another's and stands last, so where the last live reply is the
\* operator's it is also the newest.
THEOREM HiddenStaysSettled == AnswerSpec => []HiddenIsSettled
<1>1. AnswerInv => HiddenIsSettled BY DEF AnswerInv
<1> QED BY <1>1, AnswerInvariant, PTL

\* What a lane has read and the cursor has not passed is in the answer when it
\* ends: no merge or filter loses it, and the loop leaves no entry that
\* renders to something unwritten.
THEOREM NothingGoesUntold == AnswerSpec => []NothingReadIsUntold
BY AnswerInvariant, AnswerInvTells, PTL

\* No conversation is left out at max_chars for one that matters less: the
\* bonuses of the rank are further apart than everything a conversation can
\* count, so what is written first is of no lower tier.
THEOREM FeedsYield == AnswerSpec => []FeedsCrowdNobodyOut
<1>1. AnswerInv => FeedsCrowdNobodyOut BY DEF AnswerInv, WriteOK, FeedsCrowdNobodyOut
<1> QED BY <1>1, AnswerInvariant, PTL
=============================================================================
