----------------------------- MODULE PostMessage -----------------------------
(***************************************************************************)
(* post_message and its duplicate guard skip_if_recent, and delete_message *)
(* (internal/tools/threads.go), with callers that repeat a call whose      *)
(* answer they never got. All callers post the same text into one channel; *)
(* the posts of others only fill pages.                                    *)
(***************************************************************************)
EXTENDS Integers, FiniteSets, SlackPages

CONSTANTS
    Caller,
    Somebody,       \* whoever else posts in the channel
    PostPage,       \* messages the guard reads
    SkipWindow,     \* skip_if_recent, in ticks
    PostRetries,    \* how often ratelimit.Do repeats a call
    PostTicks,      \* bound: the clock stops here
    MaxCalls        \* bound: calls of one caller

ASSUME PostAssumption ==
    /\ Somebody \notin Caller
    /\ PostPage \in Nat \ {0} /\ SkipWindow \in Nat /\ PostRetries \in Nat
    /\ PostTicks \in Nat /\ MaxCalls \in Nat

VARIABLES
    room,       \* Slack: the channel's messages
    moment,     \* one clock for Slack and the server
    tokens,     \* what the workspace is configured with: "user", "bot" or "both"
    doing,      \* per caller: "ready", "checking", "posting"
    postRequest,    \* its call: into a thread or not, guard on or off
    tries,      \* attempts of the post left after this one
    calls,      \* number of its current call
    sighted     \* history: the guard saw the whole window

postVars == <<room, moment, tokens, doing, postRequest, tries, calls, sighted>>

\* `who`, `call` and `sure` only record where a message came from.
Note == [ts : Nat, thread : BOOLEAN, by : {"self", "bot", "other"},
         who : Caller \cup {Somebody}, call : Nat, sure : BOOLEAN]
Request == [thread : BOOLEAN, guard : BOOLEAN]
NoRequest == [thread |-> FALSE, guard |-> FALSE]

\* New: the bot token is the primary one; Self is always the user token's.
PostedAs       == IF tokens = "user" THEN "self" ELSE "bot"
HasUserToken == tokens # "bot"

TopPosts == {m \in room : ~ m.thread}
Recent   == {m \in NewestOf(TopPosts, PostPage) : m.ts >= moment - SkipWindow}

Identical(m) == m.by = "self"
WholeWindowRead == {m \in TopPosts : m.ts >= moment - SkipWindow} \subseteq Recent

PostInit ==
    /\ room = {} /\ moment = 1 /\ tokens \in {"user", "bot", "both"}
    /\ doing = [c \in Caller |-> "ready"]
    /\ postRequest = [c \in Caller |-> NoRequest]
    /\ tries = [c \in Caller |-> 0] /\ calls = [c \in Caller |-> 0]
    /\ sighted = [c \in Caller |-> FALSE]

Passes == moment < PostTicks /\ moment' = moment + 1

\* Others post, or the operator does from a Slack client: the same text, or not.
SomebodyPosts(by) ==
    /\ Passes
    /\ room' = room \cup {[ts |-> moment, thread |-> FALSE, by |-> by,
                            who |-> Somebody, call |-> 0, sure |-> FALSE]}
    /\ UNCHANGED <<tokens, doing, postRequest, tries, calls, sighted>>

TimePasses ==
    /\ Passes /\ UNCHANGED <<room, tokens, doing, postRequest, tries, calls, sighted>>

\* A call whose workspace and channel are resolved; any other ends at once.
CallPost(c, r) ==
    /\ doing[c] = "ready" /\ calls[c] < MaxCalls
    /\ calls' = [calls EXCEPT ![c] = @ + 1]
    /\ postRequest' = [postRequest EXCEPT ![c] = r]
    /\ tries' = [tries EXCEPT ![c] = PostRetries]
    /\ doing' = [doing EXCEPT ![c] = "checking"]
    /\ UNCHANGED <<room, moment, tokens, sighted>>

\* The call returns and leaves nothing behind.
Returned(c) ==
    /\ doing' = [doing EXCEPT ![c] = "ready"] /\ tries' = [tries EXCEPT ![c] = 0]
    /\ postRequest' = [postRequest EXCEPT ![c] = NoRequest]
    /\ sighted' = [sighted EXCEPT ![c] = FALSE]
    /\ UNCHANGED <<tokens, calls>>

\* The guard is off, or cannot tell who the operator is, or cannot read.
PostUnchecked(c) ==
    /\ doing[c] = "checking"
    /\ doing' = [doing EXCEPT ![c] = "posting"]
    /\ UNCHANGED <<room, moment, tokens, postRequest, tries, calls, sighted>>

CheckRecent(c) ==
    /\ doing[c] = "checking" /\ postRequest[c].guard /\ HasUserToken
    /\ LET same == {m \in Recent : Identical(m)}
       IN  \/ same # {} /\ Returned(c)
           \/ /\ same = {} /\ doing' = [doing EXCEPT ![c] = "posting"]
              /\ sighted' = [sighted EXCEPT ![c] = WholeWindowRead]
              /\ UNCHANGED <<tokens, postRequest, tries, calls>>
    /\ UNCHANGED <<room, moment>>

Arrives(c) ==
    /\ Passes
    /\ room' = room \cup {[ts |-> moment, thread |-> postRequest[c].thread, by |-> PostedAs,
                            who |-> c, call |-> calls[c], sure |-> sighted[c]]}

MutantRepeatsAnyError(c) ==
    IF tries[c] = 0 THEN Returned(c)
    ELSE /\ tries' = [tries EXCEPT ![c] = @ - 1]
         /\ UNCHANGED <<tokens, doing, postRequest, calls, sighted>>

AnswerPost(c) == Returned(c)

\* The message is posted. The caller may not learn it: a time-out or a broken
\* connection loses the answer, and it repeats the call as after any error.
PostText(c) == doing[c] = "posting" /\ Arrives(c) /\ AnswerPost(c)
PostRefused(c) ==
    /\ doing[c] = "posting" /\ AnswerPost(c) /\ UNCHANGED <<room, moment>>
\* Rate-limited: nothing was posted, and Do tries again.
PostLimited(c) ==
    /\ doing[c] = "posting" /\ tries[c] > 0
    /\ tries' = [tries EXCEPT ![c] = @ - 1]
    /\ UNCHANGED <<room, moment, tokens, doing, postRequest, calls, sighted>>

\* delete_message: only what the token's own identity has posted.
DeleteMessage(m) ==
    /\ m \in room /\ m.by = PostedAs
    /\ room' = room \ {m}
    /\ UNCHANGED <<moment, tokens, doing, postRequest, tries, calls, sighted>>

PostNext ==
    \/ \E by \in {"self", "other"} : SomebodyPosts(by)
    \/ TimePasses
    \/ \E c \in Caller :
        \/ \E r \in Request : CallPost(c, r)
        \/ PostUnchecked(c) \/ CheckRecent(c)
        \/ PostText(c) \/ PostRefused(c) \/ PostLimited(c)
    \/ \E m \in room : DeleteMessage(m)

PostSpec == PostInit /\ [][PostNext]_postVars
----------------------------------------------------------------------------
PostTypeOK ==
    /\ room \subseteq Note /\ moment \in Nat /\ tokens \in {"user", "bot", "both"}
    /\ doing \in [Caller -> {"ready", "checking", "posting"}]
    /\ postRequest \in [Caller -> Request] /\ tries \in [Caller -> Nat]
    /\ calls \in [Caller -> Nat] /\ sighted \in [Caller -> BOOLEAN]

\* However often a caller repeats itself, whatever it was told: with the user
\* token, two of its posts that the guard let through after seeing the whole
\* window are further apart than the window.
RetriesDoNotRepeat ==
    tokens = "user" => \A m, n \in room :
        (m.who = n.who /\ m.sure /\ n.sure /\ ~ m.thread /\ m.ts < n.ts)
            => n.ts - m.ts > SkipWindow

\* One call posts one message at most, however often Slack is asked.
OnePostPerCall ==
    \A m, n \in room : (m.who \in Caller /\ m.who = n.who /\ m.call = n.call) => m = n

\* Neither the caller's retries nor those of the client post a text twice
\* (skip_if_recent and the single try of chat.postMessage).
NoSecondPost == RetriesDoNotRepeat /\ OnePostPerCall
=============================================================================
