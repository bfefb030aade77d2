------------------------------- MODULE MCReads -------------------------------
(***************************************************************************)
(* Small instances of what the server looks up and shows: mentions, the    *)
(* attachments of a conversation, permalinks, channel names, handles, the  *)
(* operator's actions, a channel's digest, the feeds of bots and the body  *)
(* of the unread summary. They do not touch each other's state, so each    *)
(* behaviour runs one of them, the part chosen at the start.               *)
(***************************************************************************)
EXTENDS Mentions, FileSearch, Routing, ChannelNames, Handles, MCActions, ChannelDigest, FeedDigest, UnreadAnswer

CONSTANTS w1, w2, w3, dm1, ch1, u1, u2, me, you

VARIABLE part

\* Mentions: a pending list without closing phrases, and a strict one.
MentionOptions ==
    { [dmHistory |-> TRUE, pendingOnly |-> TRUE, dropAcks |-> TRUE, strict |-> FALSE],
      [dmHistory |-> TRUE, pendingOnly |-> FALSE, dropAcks |-> FALSE, strict |-> TRUE] }

Registered == <<w1, w2, w3>>

\* FileSearch: a document with the name asked for, another one, and a clip with
\* that name that is no document; calls for the latest, for one message's, and
\* by number, by name or for a list.
Plan == [readable |-> TRUE, named |-> TRUE]
Memo == [readable |-> TRUE, named |-> FALSE]
Clip == [readable |-> FALSE, named |-> TRUE]

Attached == {[by |-> me, files |-> <<Memo, Plan>>], [by |-> you, files |-> <<Clip, Memo>>],
             [by |-> me, files |-> <<>>]}

FileCall(from, at, match, list, limit) ==
    [from |-> from, at |-> at, match |-> match, list |-> list, limit |-> limit]

FileCalls ==
    { FileCall(Anyone, 0, FALSE, FALSE, 1), FileCall(you, 0, FALSE, FALSE, 1),
      FileCall(Anyone, 2, FALSE, FALSE, 1), FileCall(Anyone, 0, FALSE, FALSE, 3), FileCall(Anyone, 0, TRUE, FALSE, 1),
      FileCall(me, 0, TRUE, FALSE, 2), FileCall(Anyone, 0, TRUE, TRUE, 1) }

\* ChannelDigest: windows with and without an upper bound, from different
\* parts of a second.
DigestCalls ==
    { [oldest |-> 3, latest |-> 0, replies |-> TRUE], [oldest |-> 2, latest |-> 0, replies |-> FALSE],
      [oldest |-> 2, latest |-> 4, replies |-> TRUE], [oldest |-> 4, latest |-> 0, replies |-> FALSE] }

\* FeedDigest: what the bots of a feed post.
Bot(repo, mr, branch, issue, terms, text) ==
    [repo |-> repo, mr |-> mr, branch |-> branch, issue |-> issue,
     deploy |-> IF text = "deploy" THEN "prod" ELSE "", terms |-> terms, text |-> text]

BotPosts ==
    { Bot("A", "!1", "fix", "", {}, "opened"), Bot("A", "", "fix", "X-1", {}, "pushed"),
      Bot("A", "!2", "fix", "", {}, "opened"), Bot("B", "!2", "fix", "", {}, "opened"),
      Bot("B", "", "fix", "", {"error"}, "pipeline"), Bot("A", "!1", "", "", {}, "merged"),
      Bot("A", "", "", "", {"fatal", "passed"}, "report"), Bot("", "", "", "", {"error", "warn"}, "deploy") }

\* UnreadAnswer: a direct message, a channel, one for status updates that is
\* a priority channel, and a log.
Conversations == <<"log", "status", "channel", "dm">>

InRoom(room, by, says) == [room |-> room, by |-> by, says |-> says]

Said ==
    { InRoom("dm", "me", "live"), InRoom("dm", "peer", "live"), InRoom("dm", "peer", "ack"),
      InRoom("channel", "peer", "live"), InRoom("channel", "peer", "ping"),
      InRoom("status", "peer", "live"), InRoom("log", "bot", "live") }

Summary(after, showAnswered, dmWindow, mentionsOnly, skipFeeds) ==
    [after |-> after, showAnswered |-> showAnswered, dmWindow |-> dmWindow,
     mentionsOnly |-> mentionsOnly, skipFeeds |-> skipFeeds]

SummaryCalls ==
    { Summary(0, FALSE, FALSE, FALSE, TRUE), Summary(2, FALSE, FALSE, FALSE, FALSE),
      Summary(0, TRUE, TRUE, TRUE, FALSE) }

SummaryViews ==
    LET sees(late, lost) == [lane \in Lanes \cup {"own-posts"} |->
            IF lane \in late THEN "late" ELSE IF lane \in lost THEN "lost" ELSE "all"]
    IN  { sees({}, {}), sees({"unread"}, {"own-posts"}),
          sees({"thread-mentions", "own-threads"}, {"priority"}) }

readVars == <<part, mentionVars, searchVars, routeVars, nameVars, handleVars, actionVars, digestVars, feedVars, answerVars>>

Init ==
    /\ part \in {"mentions", "files", "links", "channels", "handles", "actions", "digest", "feeds", "answers"}
    /\ MentionsInit /\ SearchInit /\ RoutingInit /\ NamesInit
    /\ HandlesInit /\ ActionsInit /\ DigestInit /\ FeedInit /\ AnswerInit
    /\ part = "handles" \/ (/\ handleOf[u1] = handle /\ displayOf[u1] = handle /\ displayOf[u2] = handle
                            /\ handle = "a" /\ handleOf[u2] = "b" /\ roster = {} /\ peers = {})
    /\ part = "actions" \/ place = "dm"
    /\ part = "digest" \/ (ask.oldest = 4)

Next ==
    \/ /\ part = "mentions" /\ MentionsNext
       /\ UNCHANGED <<part, searchVars, routeVars, nameVars, handleVars, actionVars, digestVars, feedVars, answerVars>>
    \/ /\ part = "files" /\ SearchNext
       /\ UNCHANGED <<part, mentionVars, routeVars, nameVars, handleVars, actionVars, digestVars, feedVars, answerVars>>
    \/ /\ part = "links" /\ RoutingNext
       /\ UNCHANGED <<part, mentionVars, searchVars, nameVars, handleVars, actionVars, digestVars, feedVars, answerVars>>
    \/ /\ part = "channels" /\ NamesNext
       /\ UNCHANGED <<part, mentionVars, searchVars, routeVars, handleVars, actionVars, digestVars, feedVars, answerVars>>
    \/ /\ part = "handles" /\ HandlesNext
       /\ UNCHANGED <<part, mentionVars, searchVars, routeVars, nameVars, actionVars, digestVars, feedVars, answerVars>>
    \/ /\ part = "actions" /\ ActionsNext
       /\ UNCHANGED <<part, mentionVars, searchVars, routeVars, nameVars, handleVars, digestVars, feedVars, answerVars>>
    \/ /\ part = "digest" /\ DigestNext
       /\ UNCHANGED <<part, mentionVars, searchVars, routeVars, nameVars, handleVars, actionVars, feedVars, answerVars>>
    \/ /\ part = "feeds" /\ FeedNext
       /\ UNCHANGED <<part, mentionVars, searchVars, routeVars, nameVars, handleVars, actionVars, digestVars, answerVars>>
    \/ /\ part = "answers" /\ AnswerNext
       /\ UNCHANGED <<part, mentionVars, searchVars, routeVars, nameVars, handleVars, actionVars, digestVars, feedVars>>

Spec == Init /\ [][Next]_readVars

\* Every variable of the nine parts stays in its type, whichever of them runs.
TypeOK ==
    /\ MentionsTypeOK /\ SearchTypeOK /\ RoutingTypeOK /\ NamesTypeOK /\ HandlesTypeOK /\ ActionsTypeOK /\ DigestTypeOK
    /\ FeedTypeOK /\ AnswerTypeOK
=============================================================================
