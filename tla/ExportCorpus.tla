---------------------------- MODULE ExportCorpus ----------------------------
(***************************************************************************)
(* export_conversations (internal/tools/export.go): each run collects the  *)
(* messages of some conversations, drops those whose key is already in the *)
(* workspace's JSONL file, and appends the rest. Runs may overlap (two     *)
(* tool calls, two servers) and may be interrupted at any byte, so the     *)
(* file is modelled by what a later reader can make of its lines.          *)
(***************************************************************************)
EXTENDS Naturals, Sequences, FiniteSets, Functions, SlackPages

CONSTANTS
    Channel,
    Exporter,       \* the calls that may run, in this server or another one
    MessageKind,    \* the kinds of messages that get posted (bounds the model)
    PageCap,        \* max_per_channel
    ThreadCap,      \* exportThreadCap
    Window,         \* hours, in ticks
    LastTick,       \* bound: the clock stops here
    MaxRuns         \* bound: exports started

ASSUME ExportAssumption ==
    /\ MessageKind \subseteq [shape : {"top", "reply", "broadcast"}, mine : BOOLEAN]
    /\ PageCap \in Nat /\ ThreadCap \in Nat /\ Window \in Nat
    /\ LastTick \in Nat /\ MaxRuns \in Nat

VARIABLES
    posted,     \* Slack: every message of the workspace
    clock,
    stage,      \* per exporter: "idle", "reading", "writing"
    since,      \* its lower bound, exportWorkspace's `oldest`
    todo,       \* channels it has not read yet
    threads,    \* parents whose replies it has not read yet
    found,      \* what it has collected: a message, and where it was found
    fresh,      \* what it still has to append
    at,         \* how far it is with the record it is appending
    lines,      \* the file: its complete lines
    tail,       \*   and what stands after the last newline
    runs,       \* bound
    overlapped, \* history: two exports have been appending at once
    seam,       \* history: what stood in the tail when an export read the keys,
                \*   and the first record it puts behind it
    kept        \* history: what finished exports found, but for their seams

exportSlack     == <<posted, clock>>
corpusFile      == <<lines, tail>>
exportReading   == <<since, todo, threads, found>>
exportHistory   == <<overlapped, seam, kept>>
exportVars == <<exportSlack, stage, exportReading, fresh, at, corpusFile, runs, exportHistory>>

CorpusMessage == [ch : Channel, ts : Nat, root : Nat, kind : MessageKind]
Find    == [msg : CorpusMessage, via : {"history", "thread"}]
RecordKey(m)  == <<m.ch, m.ts>>
KeysOf(finds) == {RecordKey(f.msg) : f \in finds}

\* A record goes out in pieces: part of its JSON, the rest of it, a newline.
Piece == (Channel \X Nat) \X {"head", "rest"}
Whole(k) == <<<<k, "head">>, <<k, "rest">>>>
Garbled  == <<>>

\* A line json.Unmarshal accepts stays; any other is one more malformed line.
Readable(pieces) == Len(pieces) = 2 /\ pieces = Whole(pieces[1][1])
Line(pieces)     == IF Readable(pieces) THEN pieces ELSE Garbled

\* ReadKeys: malformed lines are skipped, a last line without newline counts.
CorpusKeys(ls, t) == {l[1][1] : l \in {x \in Range(ls) \cup {t} : Readable(x)}}

\* conversations.history shows no replies, except those also sent to the channel.
TopLevel(c)   == {m \in posted : m.ch = c /\ m.kind.shape # "reply"}
RepliesTo(p)  == {m \in posted : m.ch = p.ch /\ m.root = p.ts}
RecentHistory(c, oldest, n) == {m \in NewestOf(TopLevel(c), n) : m.ts >= oldest}
ExportReplies(p) == OldestOf(RepliesTo(p), ThreadCap)

\* Where the operator posted during the window, as far as search knows.
Participation(oldest) == {c \in Channel : \E m \in posted : m.ch = c /\ m.kind.mine /\ m.ts >= oldest}

MutantAgainstTheFile(finds, keys) == {f \in finds : RecordKey(f.msg) \notin keys}

\* Dedup, against the file and within the run; the history page comes first.
Dedup(finds, keys) ==
    {f \in finds : /\ RecordKey(f.msg) \notin keys
                   /\ ~ (f.via = "thread" /\ [f EXCEPT !.via = "history"] \in finds)}

Oldest(finds) == CHOOSE f \in finds : \A g \in finds : f.msg.ts <= g.msg.ts

ExportInit ==
    /\ posted = {} /\ clock = 1
    /\ stage = [e \in Exporter |-> "idle"] /\ since = [e \in Exporter |-> 0]
    /\ todo = [e \in Exporter |-> {}] /\ threads = [e \in Exporter |-> {}]
    /\ found = [e \in Exporter |-> {}] /\ fresh = [e \in Exporter |-> {}]
    /\ at = [e \in Exporter |-> 0]
    /\ lines = <<>> /\ tail = <<>> /\ runs = 0
    /\ overlapped = FALSE /\ seam = [e \in Exporter |-> {}] /\ kept = {}

(* Slack. *)
MessageArrives(c, k) ==
    /\ clock < LastTick
    /\ \E root \in {0} \cup {m.ts : m \in {x \in posted : x.ch = c /\ x.kind.shape = "top"}} :
        /\ (root = 0) <=> (k.shape = "top")
        /\ posted' = posted \cup {[ch |-> c, ts |-> clock, root |-> root, kind |-> k]}
    /\ clock' = clock + 1
    /\ UNCHANGED <<stage, exportReading, fresh, at, corpusFile, runs, exportHistory>>

ClockAdvances ==
    /\ clock < LastTick /\ clock' = clock + 1
    /\ UNCHANGED <<posted, stage, exportReading, fresh, at, corpusFile, runs, exportHistory>>

(* One export: the channels that were named and resolve, or those search
   finds; fewer of either when a lookup fails or the index lags. *)
StartExport(e, channels) ==
    /\ stage[e] = "idle" /\ runs < MaxRuns /\ channels # {}
    /\ LET oldest == IF clock > Window THEN clock - Window ELSE 0
       IN  since' = [since EXCEPT ![e] = oldest]
    /\ stage' = [stage EXCEPT ![e] = "reading"]
    /\ todo' = [todo EXCEPT ![e] = channels]
    /\ found' = [found EXCEPT ![e] = {}]
    /\ runs' = runs + 1
    /\ UNCHANGED <<exportSlack, threads, fresh, at, corpusFile, exportHistory>>

StartNamed(e) == \E channels \in SUBSET Channel : StartExport(e, channels)
StartWhereActive(e) ==
    \E channels \in SUBSET Participation(IF clock > Window THEN clock - Window ELSE 0) :
        StartExport(e, channels)

ReadHistory(e, c) ==
    /\ stage[e] = "reading" /\ threads[e] = {} /\ c \in todo[e]
    /\ LET page == RecentHistory(c, since[e], PageCap)
       IN  /\ found' = [found EXCEPT ![e] = @ \cup [msg : page, via : {"history"}]]
           /\ threads' = [threads EXCEPT ![e] = {m \in page : RepliesTo(m) # {}}]
    /\ todo' = [todo EXCEPT ![e] = @ \ {c}]
    /\ UNCHANGED <<exportSlack, stage, since, fresh, at, corpusFile, runs, exportHistory>>

HistoryFails(e, c) ==
    /\ stage[e] = "reading" /\ threads[e] = {} /\ c \in todo[e]
    /\ todo' = [todo EXCEPT ![e] = @ \ {c}]
    /\ UNCHANGED <<exportSlack, stage, since, threads, found, fresh, at, corpusFile, runs, exportHistory>>

ReadThread(e, p) ==
    /\ p \in threads[e]
    /\ threads' = [threads EXCEPT ![e] = @ \ {p}]
    /\ found' = [found EXCEPT ![e] = @ \cup [msg : ExportReplies(p), via : {"thread"}]]
    /\ UNCHANGED <<exportSlack, stage, since, todo, fresh, at, corpusFile, runs, exportHistory>>

ThreadFails(e, p) ==
    /\ p \in threads[e]
    /\ threads' = [threads EXCEPT ![e] = @ \ {p}]
    /\ UNCHANGED <<exportSlack, stage, since, todo, found, fresh, at, corpusFile, runs, exportHistory>>

Appending(e) == stage[e] = "writing" /\ fresh[e] # {}

\* loadCorpusKeys, Dedup, and the file opened for appending.
LoadKeys(e) ==
    /\ stage[e] = "reading" /\ todo[e] = {} /\ threads[e] = {}
    /\ LET new == Dedup(found[e], CorpusKeys(lines, tail))
       IN  /\ fresh' = [fresh EXCEPT ![e] = new]
           /\ overlapped' = (\/ overlapped
                              \/ /\ new # {}
                                 /\ \E o \in Exporter \ {e} : Appending(o))
           /\ seam' = [seam EXCEPT ![e] =
                IF tail = <<>> THEN {}
                ELSE {tail[i][1] : i \in DOMAIN tail} \cup (IF new = {} THEN {} ELSE {RecordKey(Oldest(new).msg)})]
    /\ stage' = [stage EXCEPT ![e] = "writing"]
    /\ UNCHANGED <<exportSlack, exportReading, at, corpusFile, runs, kept>>

\* export.Write: the records by timestamp, piece after piece.
AppendPiece(e) ==
    /\ Appending(e)
    /\ LET r == Oldest(fresh[e])
           k == RecordKey(r.msg)
       IN  \/ /\ at[e] = 0 /\ tail' = Append(tail, <<k, "head">>)
              /\ at' = [at EXCEPT ![e] = 1] /\ UNCHANGED <<lines, fresh>>
           \/ /\ at[e] = 1 /\ tail' = Append(tail, <<k, "rest">>)
              /\ at' = [at EXCEPT ![e] = 2] /\ UNCHANGED <<lines, fresh>>
           \/ /\ at[e] = 2 /\ tail' = <<>> /\ lines' = Append(lines, Line(tail))
              /\ at' = [at EXCEPT ![e] = 0]
              /\ fresh' = [fresh EXCEPT ![e] = @ \ {r}]
    /\ UNCHANGED <<exportSlack, stage, exportReading, runs, exportHistory>>

FinishExport(e) ==
    /\ stage[e] = "writing" /\ fresh[e] = {}
    /\ stage' = [stage EXCEPT ![e] = "idle"]
    /\ kept' = kept \cup (KeysOf(found[e]) \ seam[e])
    /\ found' = [found EXCEPT ![e] = {}]
    /\ seam' = [seam EXCEPT ![e] = {}]
    /\ UNCHANGED <<exportSlack, since, todo, threads, fresh, at, corpusFile, runs, overlapped>>

\* The process is killed, the call is cancelled, or a write fails.
Interrupt(e) ==
    /\ stage[e] # "idle"
    /\ stage' = [stage EXCEPT ![e] = "idle"]
    /\ todo' = [todo EXCEPT ![e] = {}] /\ threads' = [threads EXCEPT ![e] = {}]
    /\ found' = [found EXCEPT ![e] = {}] /\ fresh' = [fresh EXCEPT ![e] = {}]
    /\ at' = [at EXCEPT ![e] = 0] /\ seam' = [seam EXCEPT ![e] = {}]
    /\ UNCHANGED <<exportSlack, since, corpusFile, runs, overlapped, kept>>

ExportStep(e) ==
    \/ StartNamed(e) \/ StartWhereActive(e)
    \/ \E c \in Channel : ReadHistory(e, c) \/ HistoryFails(e, c)
    \/ \E p \in threads[e] : ReadThread(e, p) \/ ThreadFails(e, p)
    \/ LoadKeys(e) \/ AppendPiece(e) \/ FinishExport(e) \/ Interrupt(e)

ExportNext ==
    \/ \E c \in Channel, k \in MessageKind : MessageArrives(c, k)
    \/ ClockAdvances
    \/ \E e \in Exporter : ExportStep(e)

ExportSpec == ExportInit /\ [][ExportNext]_exportVars
----------------------------------------------------------------------------
Pieces == Seq(Piece)

ExportTypeOK ==
    /\ posted \subseteq CorpusMessage /\ clock \in Nat
    /\ stage \in [Exporter -> {"idle", "reading", "writing"}]
    /\ since \in [Exporter -> Nat]
    /\ todo \in [Exporter -> SUBSET Channel] /\ threads \in [Exporter -> SUBSET CorpusMessage]
    /\ found \in [Exporter -> SUBSET Find] /\ fresh \in [Exporter -> SUBSET Find]
    /\ at \in [Exporter -> 0..2]
    /\ lines \in Seq(Pieces) /\ tail \in Pieces /\ runs \in Nat
    /\ overlapped \in BOOLEAN /\ seam \in [Exporter -> SUBSET (Channel \X Nat)]
    /\ kept \subseteq (Channel \X Nat)

\* "Re-running over an overlapping window does not duplicate": as long as no two
\* exports append at once, however many were interrupted and wherever.
OneCopy ==
    ~ overlapped => \A i, j \in DOMAIN lines :
        lines[i] = lines[j] /\ lines[i] # Garbled => i = j

\* What a finished export found stays readable, whatever is interrupted later,
\* except the records it put together at an interrupted end of the file.
CapturedStays == ~ overlapped => kept \subseteq CorpusKeys(lines, tail)

\* The corpus holds what was found, once (ReadKeys, Dedup and Write).
FoundIsKeptOnce == OneCopy /\ CapturedStays
=============================================================================
