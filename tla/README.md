# A formal model of slk-mcp

slk-mcp is a Model Context Protocol server, written in Go, that reads and
writes Slack for one operator, usually an AI assistant working for them. Its
core is `get_unread_summary`: it is called again and again, each time with the
cursor the call before returned, and the operator relies on that loop to see
every message once. Around it stand some forty tools that post, edit canvases,
export, download attachments, resolve names and digest channels, several of
them at once and against a Slack that pages, fails, limits and goes on
changing. This project models that system in TLA+, checks it with TLC and
proves the properties that matter most with TLAPS.

Paths below are relative to the repository (`internal/...`; `tools/` and
`slack/` stand for `internal/tools/` and `internal/slack/`), line numbers to the
modelled commit. `PROJECT.json` maps every definition to the lines it stands
for and lists the hazards, each at its line.

## 1. Inventory

### The system's parts

| Part | Code | State it keeps | What makes it correct | Module |
|---|---|---|---|---|
| Unread sweep of one workspace | `tools/unread.go` (`sweepUnread`), `tools/sweep.go`, `slack/unread.go` | during a pull: what each phase read, `sweep.cut`, the deadline; between pulls nothing, the caller keeps the cursor | no message is passed over unseen; the cursor is monotone; every pull ends | `UnreadSweep` |
| The answer of a pull | `tools/unread.go`, `unread_helpers.go`, `digest/rank.go` | none | what was read is told; only settled DMs are hidden; a feed crowds nobody out | `UnreadAnswer` |
| Several workspaces, one token | `tools/unread.go` (`runUnreadSummary`), `tools/fanout.go`, `unread_helpers.go` | none; the token carries it | one workspace's failure, exclusion or silence costs no other a message | `WorkspaceCursors` |
| Rate-limit retry | `slack/ratelimit/retry.go` | loop variables | no wait outlasts the deadline; the outcome told is the outcome had | `RateLimit` |
| Shared listing | `slack/joined_cache.go` | the last listing, the call in flight | nobody goes back in time; errors are not cached; no waiter hangs | `JoinedCache` |
| Shared DM pages | `slack/history_pages.go` | per sweep and DM one page | a borrowed page is the page the borrower would have read | `HistoryPages` |
| `get_mentions` | `tools/unread.go`, `unread_helpers.go`, `slack/search.go` | none | an answered mention is not pending, an unanswered one is | `Mentions` |
| Posting | `tools/threads.go`, `slack/messages.go` | none | a retry does not post twice | `PostMessage` |
| Permalinks, workspaces | `tools/message.go`, `tools/hub.go` | per workspace the answer of `auth.test` | read where it lives; "not found" is thorough | `Routing` |
| Canvases | `tools/canvas*.go`, `slack/canvas*.go` | none | an edit changes the section that was asked for; no edit of others is passed over | `CanvasEdit`, `CanvasDelta` |
| Export corpus | `tools/export.go`, `internal/export/` | a JSONL file per workspace | each message once, whatever was interrupted | `ExportCorpus` |
| Attachments | `tools/audio.go`, `image.go`, `transcribe.go`, `tone.go`, `document.go`, `slack/messages.go` | files in one temp directory | the right message's files; a path handed out stays good | `FileSearch`, `FileTools` |
| Names | `slack/channels.go`, `slack/users.go` | name caches under locks | absent means absent; the handle itself; a name comes back | `ChannelNames`, `UserNames`, `Handles` |
| `get_my_actions` | `tools/actions.go`, `internal/actions/` | none | what is listed as unanswered is | `Actions` |
| Channel digest | `tools/digest.go`, `history.go`, `format/format.go` | none | the window is covered | `ChannelDigest` |
| Feeds of bots | `internal/digest/` | none | events join their story, the commonest alert is shown | `FeedDigest` |
| Process | `main.go`, `internal/lifecycle/parent.go` | the transport, the watcher | it ends when its signal, input or parent says so | `Lifecycle` |
| Read state | `slack/client_counts.go`, `read_state.go` | none | falls back to reading everything | in `UnreadSweep` |
| Status, presence, DND | `tools/status.go`, `dnd.go` | none | the report says what was set where | not modelled |
| Reactions, lists, scheduled messages, search, history, conversations | `tools/*.go` | none | one request, one answer | not modelled |

### How they interact

A tool call enters through the hub, which picks the target workspaces. With
several targets `fanOut` runs one `sweepUnread` per workspace in goroutines of
their own. A sweep spawns its phases at once and waits for all of them; the
phases share one listing (`joinedCache`, also shared with other tool calls on
the workspace) and one page per DM (`historyPages`, private to the sweep). Every
Slack call goes through `ratelimit.Do` under the sweep's deadline. After the
phases have returned, everything runs in one goroutine: merge, filter by the
cursor, probe the DMs for answers, render under `max_chars`, and cap the cursor
at the sweep's start. The answers of all workspaces are joined under one token.

Other tools meet each other in what outlives a call: the corpus file, the temp
directory, the name caches, the channel they post to, the canvas they edit. They
meet other people everywhere: between any two Slack calls of one tool, messages
arrive, channels are renamed, canvases are edited. The process around them ends
while calls are under way.

### What is hard here

- **Interleaving**: messages arrive between the reads of one pull, two exports
  append to one file, two calls download one attachment, several calls fill one
  name cache.
- **Failure**: a phase, one conversation of a phase, one of two identities, one
  workspace of several fails, and the rest goes on; an append is interrupted in
  the middle of a record; a post goes through and its answer is lost.
- **Time**: the deadline cuts some phases and not others; a rate limit ends a
  read *before* the deadline; caches go stale; the search index lags; Slack
  compares whole seconds where the server has microseconds.
- **Pages**: Slack's `history` starts with the newest messages, or with the
  oldest when only a lower bound is given, and `replies` always with the oldest.
  Which end a capped read loses decides what a tool may conclude from it.
- **Long sequences**: the cursor of one pull is the input of the next, so a
  mistake shows up pulls later, as a message nobody ever sees.

## 2. Modules

Each component has a module of its own, with its state, one action per step of
the code between two points where others may act, and its properties at the end.
An action that is one Slack call takes the state of Slack at that instant; what
the code does between two calls without leaving the goroutine is part of the
action before or after it. History variables (marked so at their declaration)
are read by properties only.

| Module | What it is |
|---|---|
| `DeltaDelivery` | abstract specification: what a cursor promises its caller, with no word on how |
| `SlackPages`, `Timestamps` | how Slack pages; `newestTS`. Shared by others |
| the modules of section 1 | one component each |
| `MCUnreadSweep` | scenario constraints for the delta loop |
| `MCClient`, `MCWrites`, `MCReads` | sums of components for TLC (below) |
| `MCActions`, `MCWorkspaceCursors` | model values |
| `UnreadSweepDocs`, `WorkspaceCursorsDocs` | sentences of the documents that the code does not keep |
| `*_proofs` | the theorems |

`MCClient`, `MCWrites` and `MCReads` put together components that do not touch
each other's state. Each behaviour runs one of them, chosen in `Init` by `part`;
the others stand still in a fixed initial state in which they owe no step, so
every property of a component means what it would mean alone, and the number of
states is the sum and not the product.

### The delta loop

| `UnreadSweep` | Code |
|---|---|
| `log`, `joined`, `lastRead`, `indexed` | Slack: messages, memberships, read markers, search index |
| `after`, `pulls` | the caller: the cursor it passes back, how often |
| `phase`, `got`, `cut`, `expired` | `sweepUnread`'s locals and `sweep.cut`; the context's deadline |
| `Begin` | `newSweep` and the `spawn`s, unread.go 451-577 |
| `List` | each phase's listing through `joinedCache.get`, and what the phase keeps of it |
| `Read`, `ReadFails` | one conversation: `Unread`, which reads no page of a conversation without a read marker (`ReadsNoPage`), `recentDMActivity`, `PriorityActivity`, a thread of `UnreadOwnThreads` |
| `SearchMentions`, `FindThreads` | the search backstops |
| `Cut`, `Fail`, `Done` | `runPhase`'s three ends |
| `GiveUp`, `Merge` | unread.go 578-680: the early returns, `mergeDMOverride`, `filterAfter` |
| `Probe` | `dropAnsweredDMs`, one DM at a time |
| `Finish` | `budgetAppend`, `newestTS`, `capCursor`, `sweep.incomplete`, 682-844 |

A message is a record of conversation, timestamp and kind. The kinds are what
the properties can tell apart: top-level by others (`top`) or by the operator
(`mine`); and, in one long-running thread per conversation that only search can
reach, a reply that tags the operator (`mention`), one that does not (`reply`)
and the operator's own (`answer`). One clock serves Slack and the server.

`UnreadAnswer` looks at one answer instead of the sequence of pulls. Its lanes
are the lists the phases return; a lane sees everything sent, misses the last
message, or fails. From there on it follows the code step by step: the override
of a DM by the window's view, the union with the priority channels, the replies
appended from the search backstops *in the order they are appended*, then
`mentions_only`, the cursor, `isAnsweredDM` (which takes the last reply for the
newest), `RankUnread` with its tiers, and the loop over the ranked conversations
that skips feeds, condenses and stops at `max_chars`, counted in lines.

| `UnreadAnswer` | Code |
|---|---|
| `Send`, `OpenRoom` | Slack: messages, also between the phases and the probes; the operator reads a conversation |
| `Ask` | the phases, each with its view: `lanes` is what they returned |
| `MergeAll` | the merges and filters, unread.go 587-640 |
| `DropAnswered` | `dropAnsweredDMs`, 642-668; a probe that fails hides nothing |
| `WriteRoom`, `EndAnswer` | one turn of the loop over the ranked conversations with `budgetAppend`; its end |

An entry holds the replies of a thread as a function from the reply to its place
in the list, because all the code ever asks of that list is which reply stands
last. Search hits come newest first and are appended behind what is there, so
their places run backwards and lie beyond those of the lists before them.

In `WorkspaceCursors` one sweep is abstracted to what its caller can see: it is
empty, full, in error or without a user token, and returns a set of messages and
a cursor, exactly those that `UnreadSweep` allows of a sweep without the
exceptions counted there. `CursorOf` and `Combined` are the token as
`runUnreadSummary` and `combinedCursor` write it, `EntriesFor` and `Parsed` what
`parseAfterCursor` and `cursorForWorkspace` make of it. The caller keeps a plain
cursor for the workspace that gave it; one that passes it to a pull of all
workspaces skips messages of the others. That is a hazard of the interface,
listed as one, not a behaviour of the model.

### What one process shares

`RateLimit` has one action per branch of the loop in `Do`; checking the deadline
and starting the wait is one instant. `JoinedCache` has one action per critical
section of `get` and one per event between them; a listing is the number of
membership changes it reflects. `HistoryPages` models one DM, since entries of
different DMs never touch. `UserNames` is `UserService.Name` with its memory of
failures, in which durations count down, so that its clock needs no bound.
`Lifecycle` has one action per branch of the `select`s of the three transports
and one per step of the parent watcher; the operating system reparents the
process, the host closes its pipe or forgets it, calls may never return.

### What the server writes

| Module | State and code |
|---|---|
| `ExportCorpus` | per run of `exportWorkspace` what it has found and still has to append; the file as a sequence of pieces, whole records or the beginning of one. `AppendPiece` is one write of `Write`, `Interrupt` a crash or an error between two of them; `Readable` is what `ReadKeys` makes of the lines: a piece joined to a beginning is lost. |
| `PostMessage` | per call where it stands in `runPostMessage`: `CheckRecent` reads one page for the guard, `Arrives` is Slack accepting the post, `PostLimited` a retry of `Do`, and the answer may be lost. Tokens are user, bot or both, which decides whose messages the guard takes for its own. |
| `CanvasEdit` | `resolveCanvasTarget` through the tab, the files list or the id, each question put to two identities of which either may fail, then `Lookup` and `EditCanvas`; `OthersEdit` between any two. |
| `CanvasDelta` | `canvasDelta` pull after pull; Slack's edit times are seconds, the cursor is finer. |
| `FileTools` | temp files by path (prefix, attachment), written piece by piece by `DownloadFile`, removed or handed out by each tool as the code does, with a refused download tried once more. |

### What the server looks up and digests

| Module | State and code |
|---|---|
| `Mentions` | `sweepMentions`: two searches, DM history, filters in their order, then `operatorRepliedSince` per mention: a page after it in the channel, the first page of its thread. |
| `FileSearch` | `fetchFilesIn`, `readRecentDocuments`: a page of the channel, then its newest threads one by one, `threadScanLimit` of them. A message carries a sequence of files, readable or not and with the name asked for or not; several documents are chosen as the code does: the newest `docScanLimit` messages with files, then the files that match, then the first `limit` of those. |
| `Routing` | `routeWorkspace`: the loop over the registry with an `auth.test` that may fail and whose success is remembered, then the read, then `hostFallbacks`. |
| `ChannelNames` | `ResolveID`: pages read without the lock, recorded under it, while channels are renamed, archived and restored and other calls walk as well. |
| `Handles` | `IDForHandle`: `matchHandle` over the roster, then over the external people of the operator's DMs, of which `maxExternalPeerLookups` are asked. |
| `Actions` | `myActions`: two searches of `searchPages` pages, detection by what a turn is (the phrases are inputs), follow-ups read per room, `Resolve`, folding, buckets, limit. |
| `ChannelDigest` | `channelDigestRange`: newest page, a page of older parents that moved, replies of each thread, then the lines `format.ChannelDigest` shows, cuts and counts. Timestamps are compared as `format.ParseTS` gives them, without their fraction of a second (`WholeSec`), with bounds that keep theirs. |
| `FeedDigest` | `GroupGitWorkflows` (`buildBranchAliases`, `chooseWorkflowKey`) as functions of the whole feed; `BuildLogBands` with `dedupLogSamples` post by post (`DigestPost`). A post is what the regular expressions find in it. |

## 3. What the runs check

Every bound is a constant named in the module (`MaxTime`, `MaxPulls`,
`LastTick`, `MaxCalls` and so on) and given in the `.cfg`. The theorems of
section 4 hold for every value of them.

| Run | Question | Properties |
|---|---|---|
| `sweep_unread` | Does the loop lose a message, hide an unanswered DM or move its cursor back? | `TypeOK`, `NoLoss`, `HiddenIsAnswered`, `CursorMonotone` |
| `sweep_backstops` | Do the search phases lose a mention or a reply? | `NoLoss` |
| `sweep_window` | Does the loop implement the abstract delivery? | `Delivers` |
| `sweep_ends` | Does every pull end? | `PullEnds` |
| `client` | Does what one process shares between calls go wrong, and does the process end? | `TypeOK`, `WaitFitsDeadline`, `HonestOutcome`, `MonotonicReads`, `ErrorIsFresh`, `ExactPage`, `EveryCallReturns`, `NameComesBack`, `ServerEnds` |
| `writes` | Does what outlives a call stay right when calls overlap, repeat and break off? | `TypeOK`, `FoundIsKeptOnce`, `NoSecondPost`, `TheTabIsTheTarget`, `OnlyTheSectionAskedFor`, `EditsAreNotPassed`, `FilesAreAccountedFor`, `NothingBehind`, `CursorsMonotone`, `Delivers` |
| `reads` | Is what is looked up and shown right while Slack goes on changing? | `TypeOK`, `EveryAskAccounted`, `PendingIsUnanswered`, `NothingPassedOver`, `LinksAreFollowed`, `NamesAreFound`, `TheHandleItself`, `PingsAreUnanswered`, `WindowIsCovered`, `BranchFollowsItsRequest`, `CommonestShown`, `HiddenIsSettled`, `NothingReadIsUntold`, `FeedsCrowdNobodyOut` |

### The bounds

- **sweep_\***: a DM that may be opened late and a channel, two pulls, four
  ticks, two ticks to a second so that rounding matters, pages of two so that a
  message can be buried, one conversation that may have no read marker, every
  failure and the deadline; the backstops on one
  channel with a thread and an index that lags at will; `sweep_ends` with one DM
  and one pull, because what ends a pull does not depend on what it read.
- **client**: two retries, with waits and budgets below, at and above each
  other; two callers of the listing, a TTL of one tick and two membership
  changes, so that a get can hit, wait, own and outlive an expiry; three readers
  of a DM with limits 1 to 3 while two messages arrive; two people asked for by
  two calls; two calls under way when the process is to end.
- **writes**: two exporters that start three exports within three ticks, on
  pages of two and threads of one, so that runs overlap, break off and run again
  over the same window; two callers with two calls each, a guard page of two and
  one retry; two canvases of three sections under two identities; three canvases
  on pages of two, two instants to a second; three tools and two attachments of
  one name, two calls; four workspaces, one excluded and one without a user
  token, three pulls, default or named: enough for a workspace to be swept, left
  out and swept again.
- **reads**: three messages in a DM and a channel against a page of one reply
  after a mention; four messages with up to two files each against a file page
  of two, one thread opened and a scan of two messages, for seven calls: the
  latest of anyone or of one author, one message's, by number, by name, by name
  and author, and as a list; three workspaces, one without a user token and one
  link host outside; three channels on pages of two, two callers; two people,
  three handle texts, one external look-up; three turns of a conversation on
  search pages of one, of which two are read (the code reads three of a
  hundred), so that a turn may lie beyond them; five posts against a digest page
  of two and one line shown; four posts of a feed, one pattern per severity;
  three messages against three lines of `max_chars`, with lanes that are late or
  lost.

Deadlock is off in every run: each system stops when its bounds are used up or
its process has exited, and the server has no obligation to be busy.

### What the properties leave room for

`NoLoss` names the cases in which the cursor does pass a message that no pull
returned, and they are the code's: the conversation was not in the listing that
pull used, it has no read marker and no other phase read it, its read failed
with a warning, the search index was behind, the DM
window replaced an older unread message of the same DM, or `max_chars` left no
room for it (its conversation is then named). A message that a full history page
of newer ones has pushed out is lost too. Everything else is kept, and *what
arrives while a pull is running is never lost*, which is what `capCursor` is
for. `passed` records those cases exactly, so that `NoLoss` says more than "lost
or not".

The other properties are as exact as the code allows, and say where it stops:

- `FoundIsKeptOnce`: no record twice as long as no two exports append at once,
  and what a finished export found stays readable except the records it joined
  to an interrupted end of the file. ADR 111's "repeated runs fill in the rest"
  is not among it: a window that a page has cut is not revisited.
- `NoSecondPost`: one call posts one message at most; two posts of one caller
  that the guard let through after seeing its whole window are further apart
  than the window. The guard looks at the channel's top level with the user's
  identity: a thread reply, or a bot's post when both tokens are set, is posted
  again although its text is identical.
- `EditsAreNotPassed`: an edit made in the very second of a cursor, and one
  beyond a list that was cut or failed, may be passed (ADR 075 lists the canvases
  edited since the cursor).
- `PendingIsUnanswered`, `EveryAskAccounted`: answers beyond the page that
  `operatorRepliedSince` reads, and a look-up that failed, leave a mention listed.
- `NothingPassedOver`: a single latest file is taken from the channel's top level
  even when a thread holds a newer one. By name, by number or in a list, a file
  behind `docScanLimit` newer messages with files is not considered, whether those
  carry the name or not (`BeyondTheScan`): the cut comes before the match.
- `LinksAreFollowed`: an owner that cannot say who it is when a link is routed
  may be missed.
- `WindowIsCovered`: replies to a hidden line are not covered, and nothing that
  was posted in the second the lower bound falls in (`InBoundSecond`): cut to the
  second, its time lies before a bound that is not cut, so `tsWithin` and
  `threadMovedInWindow` drop it although it is of the window.
- `BranchFollowsItsRequest`: aliases are keyed by branch name alone and the
  oldest merge request wins, so it holds for names that link one request only.
- `HiddenIsSettled` holds although the replies are appended unsorted, as
  `isAnsweredDM` takes the last one for the newest.
- `ServerEnds`: a parent that dies before the watcher has first read it is never
  noticed (parent.go 81), and the network transports do not watch their parent.

### Where the code differs from what is said of it

Five runs end in a violation; each finding in `PROJECT.json` quotes the sentence.

| Run | The sentence | What the code does |
|---|---|---|
| `docs_window_cut` | ADR 132: a sweep no longer loses its DM window to a deadline in the unread pass | `sweepUnread` returns the note alone when the unread pass is cut; the window that was read is not shown. The cursor is held, so a later pull may show it. |
| `docs_hidden_dm` | ADR 131: a DM someone new opens is never hidden for longer than a minute | A pull on the cached listing may move the cursor over the DM's first message; every later pull then filters it out. |
| `docs_rate_limit` | ADR 125: a sweep cut by its deadline always says so and always holds its cursor | A read that `ratelimit.Do` gives up because its wait would outlast the deadline is a warning, not a cut; the cursor moves. |
| `docs_labels` | `combinedCursor`: the token round-trips | A label with `;`, `,` or `=` does not survive it. |
| `docs_open_promises` | ADR 133: `due=all` lists every open item | `dropAnsweringPromises` removes an own promise that replies to an item which is itself not listed. |

### Fairness

Only liveness uses it.

- `PullEnds`: every phase keeps running and so does the rendering goroutine. A
  Slack call returns because the HTTP transport bounds dialling and the wait for
  headers and the sweep's context bounds the rest. Nothing is assumed of Slack's
  users, of the caller or of the deadline.
- `EveryCallReturns`: a goroutine inside `get` or `load` keeps running and its
  fetch returns, with an answer or an error; no waiter's context is assumed to
  end.
- `NameComesBack`: time passes and a `users.info` under way returns; whether
  Slack answers again, and whether anybody asks, are premises of the property.
- `ServerEnds`: goroutines run, the watcher's ticker ticks, the timer of a
  shutdown expires, and `ServeStdio` comes back once its input has ended and no
  call is under way. Calls may hang for ever, and neither a signal nor the end
  of the input need come.

## 4. What is proved

TLAPS checks these for every value of the constants that satisfies the
assumptions the modules name: conversations, workspaces, callers, canvases and
channels of any number, any page length, deadline, TTL and number of pulls.

**`UnreadSweep_proofs`**: `TypeCorrect`, `CursorNeverMovesBack`, `NothingLost`,
`OnlyAnsweredHidden`, `LoopDelivers`. `NoLoss` is not inductive: at `Finish` one
must know that what the pull did not see is on record. The inductive invariant
`LossInv` therefore adds

- `BaseInv`: types, nothing newer than the clock, the cursor never beyond the
  second the pull began in, and a phase the deadline stopped is in `sweep.cut`;
- `FetchedInv`: while phases run, an owed message from before the pull's start
  is still to be read by the phase responsible for it, or that phase has it, or
  it is on record as missed;
- `KeptInv`: after the merge, in a pull that was not cut, such a message is
  among the results, behind the old cursor, missed or buried;
- `HiddenIsAnswered`: hiding a DM hides nothing owed.

`Finish` then moves the cursor no further than the start, so everything it
passes is from before the start, and falls under `KeptInv`. `LoopDelivers` shows
each step of the loop to be a step of `DeltaDelivery` or none, with the owed,
unburied messages as what is not settled.

**`WorkspaceCursors_proofs`**: `CursorsTypeCorrect`, for any labels: whatever a
label does to the token, the next pull reads a number out of it. Under
`PlainLabels` (labels without separators that differ in more than case;
`docs_labels` shows why that is needed) `NothingFallsBehind`,
`CursorsOnlyAdvance`, `EveryWorkspaceDelivered`. The lemma `RoundTrip` says the
token returns what was written; the invariant, that a cursor a sweep has
returned passes over nothing that it neither returned nor found returned.

**`Writes_proofs`**

- `CorpusIsSound` (`FoundIsKeptOnce`). `ExportInv`: no two messages share an
  instant (`OwnInstants`), what an exporter still has to append is part of what
  it found, once each (`Collected`); and while no
  two append at once, only one is the writer (`OneWriter`), the tail of the file
  is what it wrote of its record, or follows something interrupted and then the
  record stands at the seam (`OwnTail`, `KeptInFile`), and no two lines bear one
  key (`LinesApart`).
- `NothingIsPostedTwice` (`NoSecondPost`). `PostInv`: a caller whose call is
  under way has posted in earlier calls only (`PostedEarlier`), and while its
  guard has seen the whole window, none of its posts is in it (`GuardSaw`).
- `ChannelMeansItsTab`, `OnlyThatSectionChanges`. `CanvasInv`: a call by channel
  that has gone past the tab has asked every identity for it (`TabSought`); a
  section about to be edited was found by the text asked for, alone in its canvas
  or to be replaced everywhere (`SectionFound`).
- `NoEditIsPassed` (`EditsAreNotPassed`). `DeltaInv`: owed edits are the latest
  of their canvas, and once a pull has its list, an edit from before its start is
  on it or in a cursor's second.
- `FilesKeptApart` (`FilesAreAccountedFor`). `FilesInv`: every attachment of a
  call is still to come, open or saved (`OwnFiles`), a file that nobody else has
  taken up since is the call's own, and whole once saved (`Undisturbed`), so is
  what was handed out or read (`WholeFiles`), and every file belongs to a call
  under way or was told of (`AnsweredFor`).
- `WritesTypeCorrect`, `WritesAreSound`: all of it for the sum `MCWrites`.

**`Answer_proofs`**: `AnswerTypeCorrect`, `HiddenStaysSettled`
(`HiddenIsSettled`), `NothingGoesUntold` (`NothingReadIsUntold`), `FeedsYield`
(`FeedsCrowdNobodyOut`). `AnswerInv` says of the lists of the phases who may have
written what in them and in which order (`LanesOK`), of the merged entries that
nothing of the lists is missing but what is named (`ResultsOK`, `ToldOK`), and of
what is written that the conversations come in the order of their rank
(`WriteOK`).

- `HiddenIsSettled` rests on `MergedOK`: merging puts replies out of order, but
  one that is out of order comes from a search, is never the operator's and
  stands behind those in order. So when the last reply that counts is the
  operator's, it is also the newest, and taking the last for the newest does no
  harm.
- `FeedsCrowdNobodyOut`: the rank is a sum, and its tiers hold only while what a
  conversation can gain by messages and keywords stays below the smallest gap
  between them. `AnswerAssumption` states that as an inequality between
  `UrgencyWeight`, the number of messages and `FeedPenalty`; the configured
  default is far inside it. A shown conversation of a lower tier was written
  later, and then did not take the omitted one's room.

**`Listings_proofs`**

- `NoAskIsDropped`, `PendingMeansUnanswered`, `MentionsTypeCorrect`.
  `MentionsInv`: what each stage leaves for the next (`StagesOK`); a fresh message
  of a DM is among the hits, or its DM is still to be read (`BackstopOK`); an
  answer the check has seen exists (`AnswersExist`), and a hit that a look-up let
  stand had no answer from before the call on the page it read (`ChecksOK`). A
  page can only lose messages, so one that is on it at the end was on it when it
  was read.
- `NoSilentGap` (`WindowIsCovered`), `DigestTypeCorrect`. `DigestInv`: what is on
  the page now was on the page that was read (`WindowRead`), every parent that
  moved was found (`ThreadsFound`), and each thread read holds the replies it had
  when the call began (`AllRead`). Dropping the fraction of a second keeps the
  order of times (`WholeSecMonotone`), so outside the bound's second the code's
  comparison is the exact one (`WindowPassesFilter`).
- `NoFileIsPassedOver` (`NothingPassedOver`), `FileSearchTypeCorrect`:
  `WeighedSoFar`, what must be weighed at the end had to be weighed at every step
  before, and `MatchesOK`, what was found carries a file asked for. That the first
  `limit` files are that many and come before every other rests on `FirstInOrder`.
- `PingsStayHonest` (`PingsAreUnanswered`), `ActionsTypeCorrect`: an item is
  judged by what followed it up to the next of its side (`ResolveIs`).
- `BranchKeepsItsRequest` (`BranchFollowsItsRequest`), `CommonestStays`
  (`CommonestShown`), `FeedTypeCorrect`. `FeedInv`: a pattern's sample is the
  newest post read of its severity and text, and its count is the number of
  those posts. `Foremost` says that of finitely many patterns in a strict order
  exactly the allowed number, or all, have fewer than that many before them.

**`Reads_proofs`**: `LinksFollowed` (by how far the loop over the registry is:
whom it passed, whom it asked), `NamesFound` (a channel steady through the walk
is on a page still ahead or was found), `HandlesAreTheirBearers`; and
`ReadsTypeCorrect`, `ReadsAreSound`: the thirteen properties of the run for the
sum `MCReads`, whose behaviours are behaviours of each of its parts
(`EachIsItsOwn`).

**`Client_proofs`**

- `NoHopelessWait`, `OutcomeIsHonest`, `RetryTypeCorrect`, from where the loop of
  `Do` stands (`LoopOK`).
- `NobodyGoesBack`, `ErrorsAreFresh`, `CacheTypeCorrect`. One call is in flight at
  a time and has one owner (`OneFetch`), so listings are stored in the order they
  were read (`InOrder`), and a failure a waiter may still report was published
  after it began to wait (`ErrorsInOrder`).
- `SharingIsExact`, `PagesTypeCorrect`. A page in the map has an owner whose
  length is settled (`Settled`), a page that is done is the one of its length at
  some moment (`PagesExact`), and the head of a page is the shorter page of the
  same moment (`HeadOfNewest`).
- `UserTypeCorrect`, `LifeTypeCorrect`, and `ClientTypeCorrect`, `ClientIsSound`
  for the sum `MCClient`.

**`Timestamps_proofs`**: lemmas on newest messages, on pages (a page that leaves
something out is full, and newer than what it leaves out) and on the first n of
things in order (`FirstInOrder`), for the modules that take them.

Each theorem is about the component's own specification (`ExportSpec`,
`RoutingSpec`, ...) or, where it says so, about a sum module's `Spec`. Every
invariant, action property and refinement that a passing run checks is the
statement of one of them.

What the proofs changed in the model: the replies of an entry became functions
to places instead of sequences, `AnswerAssumption` got the inequality that the
tiers need, the log bands are read post by post, and `NothingReadIsUntold` got
an exception that TLC's lanes had been too small to show: of a thread that the
unread pass has too, `mergePriority` drops the replies only the priority view
had.

**Model-checked only**: the four liveness properties `PullEnds`,
`EveryCallReturns`, `NameComesBack` and `ServerEnds` (the prover reasons neither
about fairness nor about `ENABLED`), and the five findings, which are
counterexamples.

## 5. What is left out

Inside the modelled parts: regular expressions and phrase lists (what a text
*is* is an input), wording and markup, decoding of audio, PDF, spreadsheets and
canvas HTML, redaction in the export, clock skew between Slack and the
server (unread.go 724 compares the two), and how many messages of one
conversation an answer spells out. `read_document` names the chosen files that
live outside Slack in place of fetching them, and with `keep_file` takes the
latest message's files whatever the name or number asked for; `FileSearch` ends
where the files are chosen, and its calls are those without `keep_file`. After its last attempt `Do` waits once
more for nothing (retry.go 95-107); the model has that wait and no property
forbids it. `urgency_weight` is unbounded in the code and large values undo the
tiers of `RankUnread`; the model takes it small against them.

Three hazards have no property: a plain cursor of one workspace passed to a pull
of all (unread.go 728; the caller's choice), a long thread of which
`UnreadOwnThreads` reads one page of a hundred (slack/unread.go 1156; the thread
of `UnreadSweep` is shorter than a page), and a status set in some workspaces
only (status.go 200; the report says so line by line).

Smaller differences between code and comment that were met on the way and have
no run: a cached channel name may be stale after a rename (channels.go 67);
`list_channels` cuts at `limit` before it filters; `ParticipationChannels` keeps
group DMs under `include_dms=false`; `mergePriority`'s comment
(unread_helpers.go 971) does not hold for the replies of a thread both sides
have; `writeReplies` shows the first of an unsorted list; alerts that are
attachments only share an empty signature; follow-ups in a DM are read from the
oldest 200 messages on; actions beyond `limit` are cut without a word.

### Not modelled

Status, presence and do-not-disturb, and the tools that are one request and one
answer (scheduled messages, reactions, lists, search, history, conversations):
nothing is kept between calls, no order of steps matters and no other actor
writes what they write. Registration, flags, configuration and logging are
wiring. Formatting is modelled where it decides *what* is shown
(`ChannelDigest`, `UnreadAnswer`) and left out where it decides how.

## 6. Plan

Done, in this order: `UnreadSweep` with `DeltaDelivery`, `RateLimit`,
`JoinedCache`, `HistoryPages`, `WorkspaceCursors` and their proofs; then
`ExportCorpus`, `PostMessage`, `CanvasEdit`, `CanvasDelta`, `FileTools` and their
proofs; `Mentions`, `FileSearch`, `Routing`, `ChannelNames`, `Handles`,
`UserNames`, `Actions`, `ChannelDigest`, `FeedDigest`, `UnreadAnswer`,
`Lifecycle`; proofs of `Routing`, `ChannelNames`, `Handles`, of the mentions, the
digests, the file search and the actions, of the answer of a pull, and of the
three sums.

What would add most next:

1. `JoinedCache` inside `UnreadSweep` by refinement: its `List` shown to be an
   atomic abstraction of `get`; the same for `HistoryPages` and `Read`.
2. Abstract specifications of the corpus file and of the name cache, with
   refinement theorems like `LoopDelivers`.
3. Threads longer than a page in `UnreadSweep`, for the hazard at
   slack/unread.go 1156.
