----------------------------- MODULE FileSearch -----------------------------
(***************************************************************************)
(* Which message's attachments a file tool takes (internal/tools/audio.go  *)
(* fetchFilesIn, document.go readRecentDocuments) and how they are found   *)
(* in a conversation (internal/slack/messages.go), where messages and      *)
(* thread replies, some with attachments, keep arriving.                   *)
(***************************************************************************)
EXTENDS Naturals, FiniteSets, Sequences, SlackPages

CONSTANTS
    Author,
    NoteKind,       \* who writes a message, and the files it carries in order
    FileAsk,        \* what a call asks for
    FilePage,       \* messages one look into the channel reads
    ThreadScan,     \* threadScanLimit
    ScanLimit,      \* docScanLimit
    MaxNotes        \* bound: messages written

Anyone == "anyone"

\* readable: isReadableDocument; named: its name contains what is asked for.
Attachment == [readable : BOOLEAN, named : BOOLEAN]

\* The arguments of a tool; with a permalink or timestamp (at) the others, which
\* the code then ignores, are left at their defaults.
Asks == {r \in [from : Author \cup {Anyone}, at : Nat, match : BOOLEAN, list : BOOLEAN, limit : Nat \ {0}] :
            r.at # 0 => r.from = Anyone /\ ~ r.match /\ ~ r.list /\ r.limit = 1}

ASSUME FileSearchAssumption ==
    /\ NoteKind \subseteq [by : Author, files : Seq(Attachment)]
    /\ FileAsk \subseteq Asks /\ FileAsk # {}
    /\ FilePage \in Nat \ {0} /\ ThreadScan \in Nat \ {0} /\ ScanLimit \in Nat \ {0}
    /\ MaxNotes \in Nat

VARIABLES
    notes,      \* Slack: the messages of the conversation
    request,    \* what the call asks for
    scanStep,   \* "idle", "channel", "threads", "done"
    fromTop,    \* history page the call has read
    roots,      \* threads it still has to open
    matches,    \* the accepted messages found so far
    result,     \* the files it takes or lists: [note, nth]
    before,     \* history: what there was when the call was made
    unopened    \* history: threads that could not be read

searchVars == <<notes, request, scanStep, fromTop, roots, matches, result, before, unopened>>

NoteMessage == [ts : Nat, root : Nat, by : Author, files : Seq(Attachment)]

\* runReadDocument: a permalink or timestamp names one message; match, list_only
\* or a limit select among several documents; else the latest is meant.
Mode == IF request.at # 0 THEN "at"
        ELSE IF request.match \/ request.list \/ request.limit > 1 THEN "recent" ELSE "latest"

TopNotes  == {m \in notes : m.root = 0}
Thread(r) == {m \in notes : r \in {m.ts, m.root}}

\* accept: a listing takes any file; then the author, and the name asked for.
Acceptable(f) == f.readable \/ request.list
Accepted(m)   == request.from \in {Anyone, m.by} /\ \E i \in DOMAIN m.files : Acceptable(m.files[i])
Wanted(f)     == Acceptable(f) /\ (request.match => f.named)

\* threadRoots: of the newest messages on the page that have replies.
ThreadRoots(page) == {m.ts : m \in NewestOf({p \in page : \E x \in notes : x.root = p.ts}, ThreadScan)}

\* collectDocuments: the wanted files of some messages, newest message first.
WantedIn(m)        == {i \in DOMAIN m.files : Wanted(m.files[i])}
FilesOf(ms)        == UNION {{[note |-> m, nth |-> i] : i \in WantedIn(m)} : m \in ms}
ComesBefore(c, d)  == c.note.ts > d.note.ts \/ (c.note.ts = d.note.ts /\ c.nth < d.nth)
FirstFiles(fs, n)  == {c \in fs : Cardinality({d \in fs : ComesBefore(d, c)}) < n}

SearchInit ==
    /\ notes = {} /\ scanStep = "idle" /\ fromTop = {} /\ roots = {} /\ matches = {} /\ result = {}
    /\ before = {} /\ unopened = {}
    /\ request = CHOOSE r \in FileAsk : TRUE

WriteNote(k) ==
    /\ Cardinality(notes) < MaxNotes /\ scanStep # "done"
    /\ \E root \in {0} \cup {m.ts : m \in TopNotes} :
         notes' = notes \cup {[ts |-> Cardinality(notes) + 1, root |-> root, by |-> k.by, files |-> k.files]}
    /\ UNCHANGED <<request, scanStep, fromTop, roots, matches, result, before, unopened>>

AskForFiles(r) ==
    /\ scanStep = "idle" /\ scanStep' = "channel" /\ request' = r
    /\ before' = notes
    /\ UNCHANGED <<notes, fromTop, roots, matches, result, unopened>>

Done(taken) == scanStep' = "done" /\ result' = taken

\* LatestFileMessage: a message of the channel itself wins at once.
ReadLatest ==
    /\ scanStep = "channel" /\ Mode = "latest"
    /\ LET page == NewestOf(TopNotes, FilePage)
           own  == {m \in page : Accepted(m)}
       IN  /\ fromTop' = page
           /\ IF own # {} THEN Done(FilesOf(NewestOf(own, 1))) /\ UNCHANGED roots
                          ELSE roots' = ThreadRoots(page) /\ scanStep' = "threads" /\ UNCHANGED result
    /\ UNCHANGED <<notes, request, matches, before, unopened>>

\* RecentFileMessages, the channel's page.
ReadRecent ==
    /\ scanStep = "channel" /\ Mode = "recent"
    /\ LET page == NewestOf(TopNotes, FilePage)
       IN  fromTop' = page /\ roots' = ThreadRoots(page) /\ matches' = {m \in page : Accepted(m)}
    /\ scanStep' = "threads"
    /\ UNCHANGED <<notes, request, result, before, unopened>>

\* MessageAt: the message itself. For the timestamp of a reply Slack may answer the
\* thread look-up that follows with the reply, or with nothing.
MessageAt(ts) == {{m \in notes : m.ts = ts /\ m.root = 0}, {m \in notes : m.ts = ts}}
RootOf(m) == IF m.root = 0 THEN m.ts ELSE m.root

\* fetchFilesIn: the message's own attachments, or the newest of its thread's.
ReadAt ==
    /\ scanStep = "channel" /\ Mode = "at"
    /\ \E own \in MessageAt(request.at) :
         Done(FilesOf(IF \E m \in own : Accepted(m) THEN own
              ELSE NewestOf({x \in UNION {Thread(RootOf(m)) : m \in own} : Accepted(x)}, 1)))
    /\ UNCHANGED <<notes, request, fromTop, roots, matches, before, unopened>>

\* Of a thread, latest mode keeps the newest match, recent mode every one.
MutantNewestOfThread(r) == NewestOf({m \in Thread(r) : Accepted(m)}, 1)
FoundIn(r) ==
    LET all == {m \in Thread(r) : Accepted(m)}
    IN  IF Mode = "latest" THEN NewestOf(all, 1) ELSE all

OpenThread(r) ==
    /\ scanStep = "threads" /\ r \in roots /\ roots' = roots \ {r}
    /\ matches' = matches \cup FoundIn(r)
    /\ UNCHANGED <<notes, request, scanStep, fromTop, result, before, unopened>>

OpenThreadFails(r) ==
    /\ scanStep = "threads" /\ r \in roots /\ roots' = roots \ {r}
    /\ unopened' = unopened \cup {r}
    /\ UNCHANGED <<notes, request, scanStep, fromTop, matches, result, before>>

\* readRecentDocuments: the scan is cut to the newest messages found before the
\* names are looked at; a limit counts files, and a listing has none.
Selected ==
    LET files == FilesOf(NewestOf(matches, ScanLimit))
    IN  IF request.list THEN files ELSE FirstFiles(files, request.limit)

ThreadsDone ==
    /\ scanStep = "threads" /\ roots = {}
    /\ Done(IF Mode = "latest" THEN FilesOf(NewestOf(matches, 1)) ELSE Selected)
    /\ UNCHANGED <<notes, request, fromTop, roots, matches, before, unopened>>

SearchNext ==
    \/ \E k \in NoteKind : WriteNote(k)
    \/ \E r \in FileAsk : AskForFiles(r)
    \/ ReadLatest \/ ReadRecent \/ ReadAt
    \/ \E r \in roots : OpenThread(r) \/ OpenThreadFails(r)
    \/ ThreadsDone

SearchSpec == SearchInit /\ [][SearchNext]_searchVars
----------------------------------------------------------------------------
SearchTypeOK ==
    /\ notes \subseteq NoteMessage /\ request \in FileAsk
    /\ scanStep \in {"idle", "channel", "threads", "done"}
    /\ fromTop \cup matches \cup before \subseteq notes
    /\ \A c \in result : c.note \in notes /\ c.nth \in DOMAIN c.note.files
    /\ roots \cup unopened \subseteq {m.ts : m \in TopNotes}

\* What a call must weigh: a message there was when it was made, on the channel's
\* page still, or in one of the threads that page leads to.
StillOnPage == NewestOf(TopNotes, FilePage)
Weighed(m) ==
    /\ m \in before /\ Accepted(m)
    /\ IF m.root = 0 THEN m \in StillOnPage
       ELSE /\ m.root \in {x.ts : x \in NewestOf({p \in StillOnPage : \E y \in notes : y.root = p.ts}, ThreadScan)}
            /\ m.root \notin unopened

\* Behind as many newer messages with files as the scan considers, whether these
\* carry the name asked for or not.
BeyondTheScan(m) == Cardinality({x \in matches : x.ts > m.ts}) >= ScanLimit

\* Asked for documents by name, by number or for a list, the tool passes over no
\* file it asks for, in the channel or in a reply, whatever is posted meanwhile:
\* it takes the file, or as many as it may that come before it, unless the file
\* lies beyond the scan.
PassesNoneOver ==
    Mode = "recent" => \A m \in notes : Weighed(m) =>
        \A i \in WantedIn(m) :
            \/ [note |-> m, nth |-> i] \in result
            \/ /\ ~ request.list /\ Cardinality(result) = request.limit
               /\ \A c \in result : ComesBefore(c, [note |-> m, nth |-> i])
            \/ BeyondTheScan(m)

\* Asked for the latest file alone, it takes a message's when there is one, and an
\* older one only where the channel itself wins over its threads.
LatestOfItsKind ==
    Mode = "latest" => \A m \in notes : Weighed(m) =>
        /\ result # {}
        /\ \A c \in result : c.note.ts < m.ts => m.root # 0 /\ c.note.root = 0

\* A file tool that is done has passed over no file it had to weigh, but for those
\* beyond the scan (document.go docScanLimit).
NothingPassedOver == scanStep = "done" => PassesNoneOver /\ LatestOfItsKind
=============================================================================
