-------------------------- MODULE WorkspaceCursors --------------------------
(***************************************************************************)
(* get_unread_summary over several workspaces (runUnreadSummary). A pull   *)
(* sweeps its target workspaces concurrently, each from its own part of    *)
(* the cursor the caller passed, under one deadline; the answer carries    *)
(* one token with a cursor for every workspace, the excluded ones too. A   *)
(* pull that names one workspace answers with a plain cursor instead.      *)
(*                                                                         *)
(* What one sweep does inside is the subject of UnreadSweep. Here it is    *)
(* what its caller sees of it: the messages it returns and its cursor.     *)
(*                                                                         *)
(* A label is free text of the configuration. Of its characters the token  *)
(* only feels whether one is a separator of the token ("=", ";" or ","),   *)
(* and of the whole whether it differs from another in case alone. No two  *)
(* labels are the same.                                                    *)
(***************************************************************************)
EXTENDS Integers, FiniteSets, Sequences, Timestamps

CONSTANTS
    Registry,       \* the workspaces, in registry order
    LabelKey,       \* each workspace's label, in lower case
    Splits,         \* workspaces whose label holds a separator
    SweepExclude,   \* SLACK_SWEEP_EXCLUDE
    NoUserToken,    \* workspaces configured without a user token
    LastPost,       \* bound: the last clock tick
    MaxPulls        \* bound: pulls the caller makes

Workspaces == {Registry[i] : i \in DOMAIN Registry}

ASSUME RegistryAssumption ==
    /\ Registry \in Seq(Workspaces) /\ Registry # <<>>
    /\ \A i, j \in DOMAIN Registry : Registry[i] = Registry[j] => i = j
    /\ DOMAIN LabelKey = Workspaces

ASSUME SettingsAssumption ==
    /\ Splits \subseteq Workspaces
    /\ SweepExclude \subseteq Workspaces
    /\ NoUserToken \subseteq Workspaces
    /\ "all" \notin Workspaces /\ "none" \notin Workspaces

ASSUME BoundsAssumption == LastPost \in Nat /\ MaxPulls \in Nat

VARIABLES
    postClock,  \* the time
    allPosts,   \* the messages posted, each with its workspace and ts
    shown,      \* history: messages some pull has returned
    held,       \* the cursor the caller holds for each workspace, 0 for none
    pulls,      \* pulls started so far
    arg,        \* the workspace argument of the pull in progress, or "none"
    expired,    \* the pull's deadline has passed
    sweep,      \* how far each workspace's sweep is
    start,      \* when it started
    out,        \* the messages it returned
    cursor      \* the cursor it returned

callerVars == <<allPosts, shown, held, pulls>>
sweepVars == <<sweep, start, out, cursor>>
cursorVars == <<postClock, callerVars, arg, expired, sweepVars>>

PostedMessage == [ws : Workspaces, ts : Nat]

Of(w) == {m \in allPosts : m.ws = w}

CursorsInit ==
    /\ postClock = 1 /\ allPosts = {} /\ shown = {} /\ pulls = 0
    /\ held = [w \in Workspaces |-> 0]
    /\ arg = "none" /\ expired = FALSE
    /\ sweep = [w \in Workspaces |-> "idle"]
    /\ start = [w \in Workspaces |-> 0]
    /\ out = [w \in Workspaces |-> {}]
    /\ cursor = [w \in Workspaces |-> 0]

PostIn(w) ==
    /\ postClock < LastPost
    /\ postClock' = postClock + 1
    /\ allPosts' = allPosts \cup {[ws |-> w, ts |-> postClock + 1]}
    /\ UNCHANGED <<shown, held, pulls, arg, expired, sweepVars>>

(***************************************************************************)
(* The targets: workspaceTargets and sweepTargets.                         *)
(***************************************************************************)
Excluded ==
    IF arg = "all" /\ Workspaces \ SweepExclude # {} THEN SweepExclude ELSE {}

Targets == IF arg = "all" THEN Workspaces \ Excluded ELSE {arg}

Multi == Cardinality(Targets) > 1 \/ Excluded # {}

(***************************************************************************)
(* fanOut: every target's sweep runs in a goroutine of its own.            *)
(***************************************************************************)
Begin(a) ==
    /\ arg = "none" /\ pulls < MaxPulls
    /\ arg' = a
    /\ pulls' = pulls + 1
    /\ expired' = FALSE
    /\ UNCHANGED <<postClock, allPosts, shown, held, sweepVars>>

Deadline ==
    /\ arg # "none" /\ ~ expired
    /\ expired' = TRUE
    /\ UNCHANGED <<postClock, callerVars, arg, sweepVars>>

\* newSweep; without a user token there is nothing to sweep.
Start(w) ==
    /\ arg # "none" /\ w \in Targets /\ sweep[w] = "idle"
    /\ sweep' = [sweep EXCEPT ![w] = IF w \in NoUserToken THEN "no token" ELSE "sweeping"]
    /\ start' = [start EXCEPT ![w] = postClock]
    /\ UNCHANGED <<postClock, callerVars, arg, expired, out, cursor>>

MutantUncapped(w, t) == t

CapCursor(w, t) == IF t <= start[w] THEN t ELSE start[w]

Returns(w, how, msgs, c) ==
    /\ sweep[w] = "sweeping"
    /\ sweep' = [sweep EXCEPT ![w] = how]
    /\ out' = [out EXCEPT ![w] = msgs]
    /\ cursor' = [cursor EXCEPT ![w] = c]
    /\ UNCHANGED <<postClock, callerVars, arg, expired, start>>

Unseen(w) == {m \in Of(w) : m.ts > held[w]}

\* A complete sweep: everything beyond the cursor that was there when it
\* started, any of what arrived meanwhile and, when that is anything at
\* all, a cursor that reaches no further than the start.
Complete(w) ==
    /\ ~ expired
    /\ \E late \in SUBSET {m \in Unseen(w) : m.ts > start[w]} :
         LET msgs == {m \in Unseen(w) : m.ts <= start[w]} \cup late
         IN  IF msgs = {} THEN Returns(w, "empty", {}, held[w])
             ELSE Returns(w, "full", msgs, CapCursor(w, NewestTS(msgs)))

\* The deadline cuts a phase: what was read, and the cursor as it came.
Incomplete(w) ==
    /\ expired
    /\ \E msgs \in SUBSET Unseen(w) : Returns(w, "full", msgs, held[w])

\* The unread pass fails on an error of its own.
SweepErrs(w) == ~ expired /\ Returns(w, "error", {}, 0)

(***************************************************************************)
(* The answer, composed after every sweep has returned.                    *)
(***************************************************************************)
AllReturned == \A w \in Targets : sweep[w] \notin {"idle", "sweeping"}

\* A workspace that returned no cursor keeps the one it came with.
MutantNotCarried(w) == cursor[w]

Carried(w) == IF cursor[w] = 0 THEN held[w] ELSE cursor[w]

\* The cursors the answer is composed from, 0 for none.
MutantExcludedDropped(w) == IF w \in Targets \ NoUserToken THEN Carried(w) ELSE 0

CursorOf(w) ==
    IF w \in Targets \ NoUserToken THEN Carried(w)
    ELSE IF w \in Excluded THEN held[w] ELSE 0

\* combinedCursor: the entries of the token, by their places in the
\* registry order.
Combined == {i \in DOMAIN Registry : CursorOf(Registry[i]) # 0}

\* parseAfterCursor and cursorForWorkspace, applied to that token by the
\* next pull: of the entries with a workspace's key the last one counts,
\* and a label that holds a separator is cut up into some other key.
EntriesFor(w) ==
    {i \in Combined : Registry[i] \notin Splits /\ LabelKey[Registry[i]] = LabelKey[w]}

Parsed(w) ==
    IF w \in Splits \/ EntriesFor(w) = {} THEN 0
    ELSE CursorOf(Registry[CHOOSE i \in EntriesFor(w) : \A j \in EntriesFor(w) : j <= i])

MutantNeverReset == sweep

Reset == [w \in Workspaces |-> "idle"]

Answered ==
    /\ arg # "none" /\ AllReturned
    /\ arg' = "none"
    /\ sweep' = Reset
    /\ start' = [w \in Workspaces |-> 0]
    /\ out' = [w \in Workspaces |-> {}]
    /\ cursor' = [w \in Workspaces |-> 0]
    /\ UNCHANGED <<postClock, allPosts, pulls, expired>>

\* Two or more sections, and one token for all of them. The answer has no
\* cursor line when there is no cursor to report.
AnswerAll ==
    /\ Answered /\ Multi
    /\ shown' = shown \cup UNION {out[w] : w \in Targets}
    /\ held' = IF Combined = {} THEN held ELSE [w \in Workspaces |-> Parsed(w)]

\* One workspace and its plain cursor, which the caller keeps for this
\* workspace alone. An error, "all caught up" or "no user token" comes
\* without a cursor, and the caller keeps the one it has.
AnswerOne ==
    /\ Answered /\ ~ Multi
    /\ LET w == CHOOSE v \in Targets : TRUE
       IN  /\ shown' = shown \cup out[w]
           /\ held' = IF sweep[w] = "full" /\ cursor[w] # 0
                      THEN [held EXCEPT ![w] = cursor[w]] ELSE held

-----------------------------------------------------------------------------
Sweep(w) ==
    \/ Start(w) \/ Complete(w) \/ Incomplete(w) \/ SweepErrs(w)

CursorsNext ==
    \/ \E w \in Workspaces : PostIn(w) \/ Sweep(w)
    \/ \E a \in Workspaces \cup {"all"} : Begin(a)
    \/ Deadline
    \/ AnswerAll \/ AnswerOne

CursorsSpec == CursorsInit /\ [][CursorsNext]_cursorVars

-----------------------------------------------------------------------------
\* The types, and that no sweep outlives its pull: fanOut waits for all.
CursorsTypeOK ==
    /\ postClock \in Nat /\ pulls \in Nat
    /\ allPosts \subseteq PostedMessage /\ shown \subseteq allPosts
    /\ \A m \in allPosts : m.ts <= postClock
    /\ held \in [Workspaces -> Nat]
    /\ arg \in Workspaces \cup {"all", "none"} /\ expired \in BOOLEAN
    /\ sweep \in [Workspaces ->
         {"idle", "no token", "sweeping", "empty", "full", "error"}]
    /\ start \in [Workspaces -> Nat] /\ cursor \in [Workspaces -> Nat]
    /\ out \in [Workspaces -> SUBSET allPosts]
    /\ \A w \in Workspaces :
         sweep[w] # "idle" => arg # "none" /\ w \in Targets

\* Labels that survive the token: what the properties below need of the
\* configuration, and nothing in the code asks of it.
PlainLabels ==
    /\ Splits = {}
    /\ \A v, w \in Workspaces : LabelKey[v] = LabelKey[w] => v = w

\* A caller's cursor for a workspace never moves back and never past the
\* clock, whatever becomes of the other workspaces in the same pull: a
\* workspace that failed, was cut, was excluded or had nothing keeps its
\* part of the token (runUnreadSummary).
CursorsMonotone ==
    [][\A w \in Workspaces : held[w] <= held'[w] /\ held'[w] <= postClock]_held

\* No message of any workspace falls behind the caller's cursor for it
\* without having been returned, through any mix of default and named
\* pulls, exclusions and failures (runUnreadSummary, sweepTargets).
NothingBehind == \A m \in allPosts : m.ts <= held[m.ws] => m \in shown

\* Each workspace, seen alone, is delivered as the cursor promises
\* (DeltaDelivery): failures, exclusion and pulls of the others never show
\* in its deliveries (runUnreadSummary). Delivers is Delivery(w)!Spec for
\* every workspace w, with the quantifier inside the temporal operator.
Delivery(w) ==
    INSTANCE DeltaDelivery WITH
        posted <- Of(w), settled <- {}, shown <- {m \in shown : m.ws = w},
        passed <- {}, after <- held[w]

\* Each workspace, seen alone, implements the abstract delivery without exceptions.
Delivers ==
    /\ \A w \in Workspaces : Delivery(w)!Init
    /\ [][\A w \in Workspaces : [Delivery(w)!Next]_(Delivery(w)!deliveryVars)]_cursorVars
=============================================================================
