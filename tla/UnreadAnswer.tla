---------------------------- MODULE UnreadAnswer ----------------------------
(***************************************************************************)
(* What get_unread_summary makes of the lists its phases return (tools/    *)
(* unread.go, unread_helpers.go, digest/rank.go): the merges, the filters, *)
(* the answered direct messages it hides, the rank of the conversations    *)
(* and the cut at max_chars. A message's place in sent is its timestamp.   *)
(* The phases run side by side while messages arrive, so a lane sees all   *)
(* of sent, misses its last message, or fails; UnreadSweep models how they *)
(* fetch, and what pages, failures and deadlines do to the cursor.         *)
(***************************************************************************)
EXTENDS Integers, Sequences, FiniteSets, Functions

CONSTANTS
    Listed,             \* the conversations, in the order they are listed
    DMRoom,             \* those that are direct messages
    PriorityRoom,       \* the configured priority channels
    FeedRoom,           \* those whose name says log
    StatusRoom,         \* those whose name says status updates
    Line,               \* what is posted: [room, by, says]
    AnswerCall,         \* options of a call
    AnswerView,         \* what each lookup sees: "all", "late" or "lost"
    LookbackTicks,      \* threadLookbackHours, in ticks
    AnsweredWindow,     \* answeredDMWindow
    PreviewReplies,     \* thread_replies
    UrgencyWeight,      \* urgency_weight
    MaxLines,           \* max_chars, in lines
    MaxSent,            \* bound: messages posted
    MaxOpened           \* bound: conversations the operator opens

\* The gaps between the tiers of RankUnread, and what a keyword counts.
MentionBonus == 1000000
DMBonus == 500000
FeedPenalty == 250000
UrgencyPoints == 10

Room == Range(Listed)

Lanes == {"unread", "dm-window", "priority", "thread-mentions", "own-threads"}

ASSUME AnswerAssumption ==
    /\ Line \subseteq [room : Room, by : {"me", "peer", "bot"}, says : {"live", "ack", "ping"}]
    /\ AnswerCall \subseteq [after : Nat, showAnswered : BOOLEAN, dmWindow : BOOLEAN,
                             mentionsOnly : BOOLEAN, skipFeeds : BOOLEAN]
    /\ Listed \in Seq(Room)
    /\ DMRoom \cup PriorityRoom \cup FeedRoom \cup StatusRoom \subseteq Room
    /\ DMRoom \cap StatusRoom = {}
    /\ AnswerView \subseteq [Lanes \cup {"own-posts"} -> {"all", "late", "lost"}]
    /\ \A v \in AnswerView : v["unread"] # "lost"
    /\ UrgencyWeight \in Nat /\ (UrgencyWeight * UrgencyPoints + 1) * MaxSent < FeedPenalty
    /\ {LookbackTicks, AnsweredWindow, PreviewReplies, MaxLines, MaxSent, MaxOpened} \subseteq Nat

VARIABLES
    sent,               \* messages: [room, by, says, root], root 0 at top level
    readUpTo,           \* last_read of each conversation
    answerStep,         \* of the call: "idle", "merging", "probing", "writing", "done"
    answering,          \* what it was asked: [opted, view]
    lanes,              \* what each phase returned: its entries by conversation
    results,            \* the entries of the answer
    hiddenRooms,        \* DMs left out as answered
    written             \* the answer: conversations shown and omitted

world == <<sent, readUpTo>>
answerVars == <<world, answerStep, answering, lanes, results, hiddenRooms, written>>

\* No conversation, no thread, no reply.
Nothing == [x \in {} |-> x]

Blank == [shown |-> {}, omitted |-> {}]

AnswerInit ==
    /\ sent = <<>> /\ readUpTo = [r \in Room |-> 0]
    /\ answerStep = "idle" /\ answering = <<>> /\ lanes = [lane \in Lanes |-> Nothing] /\ results = Nothing
    /\ hiddenRooms = {} /\ written = Blank

Send(line, root) ==
    /\ answerStep \in {"idle", "probing"} /\ Len(sent) < MaxSent
    /\ root # 0 => sent[root].room = line.room /\ sent[root].root = 0
    /\ sent' = Append(sent, [room |-> line.room, by |-> line.by, says |-> line.says, root |-> root])
    /\ UNCHANGED <<readUpTo, answerStep, answering, lanes, results, hiddenRooms, written>>

\* The operator reads a conversation in the client. One without a read marker has
\* no entry in the unread lane, like one opened right before the call.
OpenRoom(r) ==
    /\ answerStep = "idle" /\ readUpTo[r] # Len(sent)
    /\ Cardinality({x \in Room : readUpTo[x] # 0} \cup {r}) <= MaxOpened
    /\ readUpTo' = [readUpTo EXCEPT ![r] = Len(sent)]
    /\ UNCHANGED <<sent, answerStep, answering, lanes, results, hiddenRooms, written>>

-----------------------------------------------------------------------------
(***************************************************************************)
(* The lanes. An entry holds a conversation's top-level messages, rendered *)
(* newest first, and the replies of each thread, every one with its place  *)
(* in the list: only the order of the places counts.                       *)
(***************************************************************************)
opted == answering.opted

Seen(lane) == 1..(IF answering.view[lane] = "late" THEN Len(sent) - 1 ELSE Len(sent))

In(lane, r) == {i \in Seen(lane) : sent[i].room = r}

RootThread(i) == IF sent[i].root = 0 THEN i ELSE sent[i].root

Ascending(S) == [i \in S |-> i]

Descending(S) == [i \in S |-> -i]

\* fetchReplies: of the given parents, those with a reply after since.
FetchReplies(lane, r, parents, since) ==
    LET newer(p) == {i \in In(lane, r) : sent[i].root = p /\ i > since}
    IN  [p \in {q \in parents : newer(q) # {}} |-> Ascending(newer(p))]

TopAfter(lane, r, since) == {i \in In(lane, r) : sent[i].root = 0 /\ i > since}

Entry(messages, replies) == [messages |-> messages, replies |-> replies, priority |-> FALSE]

Content(e) == e.messages \cup UNION {DOMAIN e.replies[p] : p \in DOMAIN e.replies}

Holding(entries) == Restrict(entries, {r \in DOMAIN entries : Content(entries[r]) # {}})

\* Unread: parents are also looked for among what was read lately.
UnreadLane ==
    LET since(r) == readUpTo[r]
        floor(r) == IF Len(sent) - LookbackTicks < since(r) THEN Len(sent) - LookbackTicks ELSE since(r)
    IN  Holding([r \in Room |->
            Entry(TopAfter("unread", r, since(r)),
                  FetchReplies("unread", r, TopAfter("unread", r, floor(r) - 1), since(r)))])

\* recentActivity, for the DM window and for the priority channels.
ActivitySince(lane, r, since) ==
    LET tops == TopAfter(lane, r, since)
    IN  Entry(tops, FetchReplies(lane, r, tops, since))

WindowLane ==
    IF ~ opted.dmWindow THEN Nothing
    ELSE Holding([r \in DMRoom |-> ActivitySince("dm-window", r, 0)])

PriorityLane ==
    [r \in PriorityRoom |-> [ActivitySince("priority", r, opted.after) EXCEPT !.priority = TRUE]]

\* answeredLater, on the operator's own posts.
SelfAfter(lane, i) ==
    \E j \in Seen(lane) : /\ sent[j].by = "me" /\ sent[j].room = sent[i].room
                          /\ RootThread(j) = RootThread(i) /\ j > i

\* UnreadThreadMentions: to:me finds what comes in a DM, the handle what
\* names the operator. Hits come newest first. The lookup of the operator's
\* own posts may fail, and every hit then counts.
MentionLane ==
    LET hits(r) == {i \in In("thread-mentions", r) :
                      /\ sent[i].by # "me" /\ (r \in DMRoom \/ sent[i].says = "ping")
                      /\ ~ (answering.view["own-posts"] = "all" /\ SelfAfter("thread-mentions", i))}
        replies(r) == {i \in hits(r) : sent[i].root # 0}
    IN  Holding([r \in Room |->
            Entry(hits(r) \ replies(r),
                  [p \in {sent[i].root : i \in replies(r)} |->
                      Descending({i \in replies(r) : sent[i].root = p})])])

\* UnreadOwnThreads with unseenAfterMine.
OwnLane ==
    LET mine(r) == {i \in In("own-threads", r) : sent[i].by = "me"}
        unseen(r, p) == {i \in In("own-threads", r) :
                           RootThread(i) = p /\ sent[i].by # "me" /\ ~ SelfAfter("own-threads", i)}
        roots(r) == {p \in {RootThread(i) : i \in mine(r)} : unseen(r, p) # {}}
    IN  Holding([r \in Room |-> Entry({}, [p \in roots(r) |-> Ascending(unseen(r, p))])])

\* A phase that failed or was cut before it had anything adds nothing.
Returned(lane) ==
    IF answering.view[lane] = "lost" THEN Nothing
    ELSE CASE lane = "unread"          -> UnreadLane
           [] lane = "dm-window"       -> WindowLane
           [] lane = "priority"        -> PriorityLane
           [] lane = "thread-mentions" -> MentionLane
           [] lane = "own-threads"     -> OwnLane

-----------------------------------------------------------------------------
(***************************************************************************)
(* The merges, in the order of sweepUnread.                                *)
(***************************************************************************)
\* What f says, and where it says nothing what g does.
Over(f, g) == [x \in DOMAIN f \cup DOMAIN g |-> IF x \in DOMAIN f THEN f[x] ELSE g[x]]

\* mergeDMOverride: the window's view of a DM replaces the unread pass's.
Override(base, window) == Over(window, base)

\* mergePriority: a thread the unread pass has keeps the replies it has.
Emphasise(base, prio) ==
    [r \in DOMAIN base \cup DOMAIN prio |->
        IF r \notin DOMAIN base THEN prio[r]
        ELSE IF r \notin DOMAIN prio THEN base[r]
        ELSE [messages |-> base[r].messages \cup prio[r].messages,
              replies |-> Over(base[r].replies, prio[r].replies), priority |-> TRUE]]

\* mergeThreadMentions: replies the entry lacks go behind those it has. The
\* places of the n-th list merged are beyond those of the lists before it.
Span == 2 * MaxSent + 1

MutantHitsFirst(old, new, n) == Over(old, [i \in DOMAIN new |-> new[i] - n * Span])

AppendReplies(old, new, n) == Over(old, [i \in DOMAIN new |-> n * Span + new[i]])

EntryOf(base, r) == IF r \in DOMAIN base THEN base[r] ELSE Entry({}, Nothing)

RepliesOf(e, p) == IF p \in DOMAIN e.replies THEN e.replies[p] ELSE Nothing

MutantOnlyNewRooms(base, hits, n) == Over(base, hits)

Augment(base, hits, n) ==
    [r \in DOMAIN base \cup DOMAIN hits |->
        LET old == EntryOf(base, r)
            new == EntryOf(hits, r)
        IN  [messages |-> old.messages \cup new.messages,
             replies |-> [p \in DOMAIN old.replies \cup DOMAIN new.replies |->
                             AppendReplies(RepliesOf(old, p), RepliesOf(new, p), n)],
             priority |-> old.priority]]

DirectMessages == Override(lanes["unread"], lanes["dm-window"])

MergedLanes ==
    Augment(Augment(Emphasise(DirectMessages, lanes["priority"]), lanes["thread-mentions"], 1),
            lanes["own-threads"], 2)

Pings(e) == \E i \in Content(e) : sent[i].says = "ping"

\* filterMentions
Addressed(entries) ==
    IF opted.mentionsOnly
    THEN Restrict(entries, {r \in DOMAIN entries : r \in DMRoom \/ Pings(entries[r])})
    ELSE entries

\* filterAfter: what the caller's cursor has passed, and what is then empty.
PastCursor(entries) ==
    LET newer(S) == {i \in S : i > opted.after}
        kept(e) == {p \in DOMAIN e.replies : newer(DOMAIN e.replies[p]) # {}}
        cut(e) == [messages |-> newer(e.messages),
                   replies |-> [p \in kept(e) |-> Restrict(e.replies[p], newer(DOMAIN e.replies[p]))],
                   priority |-> e.priority]
    IN  IF opted.after = 0 THEN entries
        ELSE Holding([r \in DOMAIN entries |-> cut(entries[r])])

\* threadEndsWithLiveCounterpart: closing words at the end do not count.
EndsLive(replies) ==
    LET said == {i \in DOMAIN replies : sent[i].by = "me" \/ sent[i].says # "ack"}
    IN  \E i \in said : sent[i].by # "me" /\ \A j \in said : replies[j] <= replies[i]

\* isAnsweredDM, on the newest messages the probe reads now: one of them is
\* the operator's, and what follows it closes the conversation.
Answered(r, e) ==
    LET tops == {i \in DOMAIN sent : sent[i].room = r /\ sent[i].root = 0}
        newer(i) == {j \in tops : j > i}
    IN  /\ \A p \in DOMAIN e.replies : ~ EndsLive(e.replies[p])
        /\ \E i \in tops :
              /\ Cardinality(newer(i)) < AnsweredWindow
              /\ sent[i].by = "me"
              /\ \A j \in newer(i) : sent[j].by # "me" /\ sent[j].says = "ack"

Arrived == PastCursor(Addressed(MergedLanes))

\* dropAnsweredDMs, unless the call asks for them or for the DM window.
AnsweredRooms ==
    IF opted.showAnswered \/ opted.dmWindow THEN {}
    ELSE {r \in DOMAIN results \cap DMRoom : Answered(r, results[r])}

-----------------------------------------------------------------------------
(***************************************************************************)
(* Rank and room: RankUnread, the detectors and budgetAppend.              *)
(***************************************************************************)
\* DetectLogChannel: the name, or who writes. In a small sample all must be
\* bots.
MinSample == 4

IsLog(r, e) ==
    LET bots == {i \in e.messages : sent[i].by = "bot"}
    IN  /\ e.messages # {}
        /\ \/ r \in FeedRoom
           \/ IF Cardinality(e.messages) < MinSample THEN bots = e.messages
              ELSE 2 * Cardinality(bots) >= Cardinality(e.messages)

IsFeed(r, e) == r \in StatusRoom \/ IsLog(r, e)

\* UrgencyScore: a keyword in each live message. The weight is the caller's.
Urgency(e) ==
    UrgencyWeight * UrgencyPoints * Cardinality({i \in Content(e) : sent[i].says = "live"})

Bonus(yes, n) == IF yes THEN n ELSE 0

MutantNoPenalty(r, e) ==
    Cardinality(Content(e)) + Urgency(e) + Bonus(r \in DMRoom, DMBonus) + Bonus(Pings(e), MentionBonus)

RankUnread(r, e) ==
    Cardinality(Content(e)) + Urgency(e)
        + Bonus(r \in DMRoom, DMBonus) + Bonus(Pings(e), MentionBonus)
        - Bonus(IsFeed(r, e), FeedPenalty)

Place(r) == CHOOSE n \in DOMAIN Listed : Listed[n] = r

\* Priority channels lead; the sort is stable.
Before(r, s) ==
    LET rank(x) == RankUnread(x, results[x])
    IN  IF results[r].priority # results[s].priority THEN results[r].priority
        ELSE rank(r) > rank(s) \/ (rank(r) = rank(s) /\ Place(r) < Place(s))

\* A feed the call skips keeps its thread replies.
Skipped(r) == opted.skipFeeds /\ IsLog(r, results[r])

Rendered(r) == IF Skipped(r) THEN DOMAIN results[r].replies # {} ELSE Content(results[r]) # {}

\* A feed's posts are condensed to one line.
Condensed(r) ==
    IsLog(r, results[r]) \/ (r \in StatusRoom /\ ~ results[r].priority)

\* The lines a conversation takes: its name, its posts (both as of thread 0),
\* of a long thread the first replies and the number of the others.
LinesOf(r) ==
    LET e == results[r]
        posts == IF Skipped(r) THEN {} ELSE IF Condensed(r) THEN {1} ELSE e.messages
    IN  {r} \X (({0} \X ({0} \cup posts))
                \cup {line \in (DOMAIN e.replies) \X (1..(PreviewReplies + 1)) :
                         line[2] <= Cardinality(DOMAIN e.replies[line[1]])})

LinesTaken(rooms) == Cardinality(UNION {LinesOf(r) : r \in rooms})

\* budgetAppend
Emit(done, r) ==
    IF LinesTaken(done.shown \cup {r}) > MaxLines THEN [done EXCEPT !.omitted = @ \cup {r}]
    ELSE [done EXCEPT !.shown = @ \cup {r}]

\* The loop passes over what renders to nothing.
Left == {r \in DOMAIN results : Rendered(r)} \ (written.shown \cup written.omitted)

-----------------------------------------------------------------------------
(***************************************************************************)
(* The call: sweepUnread. Messages go on arriving until the DMs are probed.*)
(***************************************************************************)
Ask(opts, view) ==
    /\ answerStep = "idle" /\ sent # <<>>
    /\ answerStep' = "merging"
    /\ answering' = [opted |-> opts, view |-> view]
    /\ UNCHANGED <<world, results, hiddenRooms, written>>
    /\ lanes' = [lane \in Lanes |-> Returned(lane)']

MergeAll ==
    /\ answerStep = "merging"
    /\ answerStep' = "probing" /\ results' = Arrived
    /\ UNCHANGED <<world, answering, lanes, hiddenRooms, written>>

\* A probe that fails hides nothing.
DropAnswered ==
    /\ answerStep = "probing"
    /\ answerStep' = "writing" /\ hiddenRooms' \in SUBSET AnsweredRooms
    /\ results' = Restrict(results, DOMAIN results \ hiddenRooms')
    /\ UNCHANGED <<world, answering, lanes, written>>

WriteRoom ==
    /\ answerStep = "writing"
    /\ \E r \in Left : (\A s \in Left \ {r} : Before(r, s)) /\ written' = Emit(written, r)
    /\ UNCHANGED <<world, answerStep, answering, lanes, results, hiddenRooms>>

EndAnswer ==
    /\ answerStep = "writing" /\ Left = {}
    /\ answerStep' = "done"
    /\ UNCHANGED <<world, answering, lanes, results, hiddenRooms, written>>

AnswerNext ==
    \/ \E line \in Line, root \in 0..Len(sent) : Send(line, root)
    \/ \E r \in Room : OpenRoom(r)
    \/ \E opts \in AnswerCall, view \in AnswerView : Ask(opts, view)
    \/ MergeAll \/ DropAnswered \/ WriteRoom \/ EndAnswer

AnswerSpec == AnswerInit /\ [][AnswerNext]_answerVars

-----------------------------------------------------------------------------
AnswerTypeOK ==
    /\ sent \in Seq([room : Room, by : {"me", "peer", "bot"}, says : {"live", "ack", "ping"},
                     root : 0..MaxSent])
    /\ readUpTo \in [Room -> 0..MaxSent]
    /\ answerStep \in {"idle", "merging", "probing", "writing", "done"}
    /\ answering = <<>> \/ answering \in [opted : AnswerCall, view : AnswerView]
    /\ DOMAIN lanes = Lanes /\ \A lane \in Lanes : DOMAIN lanes[lane] \subseteq Room
    /\ DOMAIN results \cup hiddenRooms \cup written.shown \cup written.omitted \subseteq Room

\* The unread view of a DM the window replaces, and the replies a priority
\* channel has of a thread the pass before it read too.
Replaced(lane, r, i) ==
    \/ lane = "unread" /\ r \in DOMAIN lanes["dm-window"]
    \/ /\ lane = "priority" /\ r \in DOMAIN DirectMessages
       /\ sent[i].root \in DOMAIN DirectMessages[r].replies

\* A direct message is hidden as answered only when nothing its lanes have
\* brought waits for the operator: each live message of the other side has
\* one of the operator's later in the same thread, or at top level, however
\* the lanes' replies were put together (isAnsweredDM, whose comment takes
\* the last reply for the newest).
HiddenIsSettled ==
    \A r \in hiddenRooms : \A lane \in Lanes : r \in DOMAIN lanes[lane] =>
        \A i \in Content(lanes[lane][r]) :
            \/ i <= opted.after \/ Replaced(lane, r, i)
            \/ sent[i].by = "me" \/ sent[i].says = "ack"
            \/ \E j \in (i + 1)..Len(sent) :
                 sent[j].by = "me" /\ sent[j].room = r /\ sent[j].root = sent[i].root

\* What a lane has read and the cursor has not passed is in the answer:
\* shown, counted with the conversations left out, or in a DM hidden as
\* answered. Left aside are the posts of a skipped feed, a conversation
\* that mentions_only drops, and what the merges replace (sweepUnread).
NothingReadIsUntold ==
    answerStep = "done" =>
        \A lane \in Lanes : \A r \in DOMAIN lanes[lane] : \A i \in Content(lanes[lane][r]) :
            /\ i > opted.after /\ ~ Replaced(lane, r, i)
            /\ \/ ~ opted.mentionsOnly \/ r \in DMRoom
               \/ \E j \in Content(lanes[lane][r]) : sent[j].says = "ping" /\ ~ Replaced(lane, r, j)
            => \/ r \in hiddenRooms
               \/ /\ r \in DOMAIN results /\ i \in Content(results[r])
                  /\ \/ r \in written.shown \cup written.omitted
                     \/ Skipped(r) /\ sent[i].root = 0

\* What a conversation is: a priority channel above all, then a mention, then
\* a direct message, and last a feed.
Tier(r) ==
    LET e == results[r]
    IN  Bonus(e.priority, 8) + Bonus(Pings(e), 4) + Bonus(r \in DMRoom, 2) + Bonus(~ IsFeed(r, e), 1)

\* A conversation is left out at max_chars only for those that matter more:
\* it would not fit beside the shown ones that are priority channels or at
\* least its equal in what they are - a mention before a direct message,
\* that before a channel, and last the feeds, however much these hold
\* (RankUnread and the loop over the ranked conversations).
FeedsCrowdNobodyOut ==
    answerStep = "done" =>
        \A r \in written.omitted : LinesTaken({s \in written.shown : Tier(s) >= Tier(r)} \cup {r}) > MaxLines
=============================================================================
