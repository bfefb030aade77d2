---------------------------- MODULE HistoryPages ----------------------------
(***************************************************************************)
(* historyPages: the newest history page of one DM, shared by the phases   *)
(* of one sweep. Whoever asks first reads the page outside the lock; later *)
(* readers wait for it and take the part they asked for, or read the page  *)
(* themselves when the shared one is too short or failed. Entries of       *)
(* different DMs do not touch each other, so one DM is modelled.           *)
(*                                                                         *)
(* Messages are numbered in the order they are posted.                     *)
(***************************************************************************)
EXTENDS Integers, FiniteSets

CONSTANTS
    Readers,        \* loads of the DM's page in one sweep, one per phase
    Limits,         \* page lengths a phase may ask for
    Posted0,        \* messages in the DM when the sweep starts
    MaxPosted,      \* bound: messages in the DM
    NoPage          \* no page in the map

ASSUME PagesAssumption ==
    /\ NoPage \notin Readers
    /\ Limits \subseteq Nat
    /\ Posted0 \in Nat /\ MaxPosted \in Nat

VARIABLES
    posted,     \* messages posted so far
    sweepOver,       \* the sweep's context has ended
    entry,      \* the reader whose page is in the map, or NoPage
    page,       \* the historyPage each reader made: msgs, failed, done
    limit,      \* the length each reader asked for
    from,       \* the reader whose page a waiting reader waits for
    loadAt,         \* where each reader is
    got,        \* the messages a reader's load returned
    lent        \* pages served to a second reader

pagesVars == <<posted, sweepOver, entry, page, limit, from, loadAt, got, lent>>

PagesInit ==
    /\ posted = Posted0 /\ sweepOver = FALSE
    /\ entry = NoPage
    /\ page = [r \in Readers |-> [msgs |-> {}, failed |-> FALSE, done |-> FALSE]]
    /\ limit = [r \in Readers |-> 0]
    /\ from = [r \in Readers |-> NoPage]
    /\ loadAt = [r \in Readers |-> "idle"]
    /\ got = [r \in Readers |-> {}]
    /\ lent = 0

\* conversations.history, newest first, anchored at now.
Newest(n, l) == {i \in 1 .. n : i > n - l}

Post ==
    /\ posted < MaxPosted
    /\ posted' = posted + 1
    /\ UNCHANGED <<sweepOver, entry, page, limit, from, loadAt, got, lent>>

SweepEnds ==
    /\ ~ sweepOver
    /\ sweepOver' = TRUE
    /\ UNCHANGED <<posted, entry, page, limit, from, loadAt, got, lent>>

(***************************************************************************)
(* historyPages.load.                                                      *)
(***************************************************************************)
MutantAnyLength(l) == entry # NoPage

LongEnough(l) == entry # NoPage /\ limit[entry] >= l

WaitForPage(r, l) ==
    /\ loadAt[r] = "idle" /\ LongEnough(l)
    /\ limit' = [limit EXCEPT ![r] = l]
    /\ from' = [from EXCEPT ![r] = entry]
    /\ loadAt' = [loadAt EXCEPT ![r] = "waiting"]
    /\ UNCHANGED <<posted, sweepOver, entry, page, got, lent>>

OwnPage(r, l) ==
    /\ loadAt[r] = "idle" /\ ~ LongEnough(l)
    /\ limit' = [limit EXCEPT ![r] = l]
    /\ entry' = r
    /\ loadAt' = [loadAt EXCEPT ![r] = "fetching"]
    /\ UNCHANGED <<posted, sweepOver, page, from, got, lent>>

Fetched(r, msgs, failed) ==
    /\ page' = [page EXCEPT ![r] = [msgs |-> msgs, failed |-> failed, done |-> FALSE]]
    /\ loadAt' = [loadAt EXCEPT ![r] = "closing"]
    /\ UNCHANGED <<posted, sweepOver, entry, limit, from, got, lent>>

Fetch(r) ==
    /\ loadAt[r] = "fetching"
    /\ \/ ~ sweepOver /\ Fetched(r, Newest(posted, limit[r]), FALSE)
       \/ Fetched(r, {}, TRUE)

MutantDoneIfRead(r) == ~ page[r].failed

Done(r) == TRUE

\* close(pg.done), and the owner's load returns.
ClosePage(r) ==
    /\ loadAt[r] = "closing"
    /\ page' = [page EXCEPT ![r] =
         [msgs |-> @.msgs, failed |-> @.failed, done |-> Done(r)]]
    /\ got' = [got EXCEPT ![r] = page[r].msgs]
    /\ loadAt' = [loadAt EXCEPT ![r] = IF page[r].failed THEN "failed" ELSE "returned"]
    /\ UNCHANGED <<posted, sweepOver, entry, limit, from, lent>>

\* The newest n messages of a page.
MutantWholePage(msgs, n) == msgs

Head(msgs, n) == {i \in msgs : Cardinality({j \in msgs : j > i}) < n}

Borrow(r) ==
    /\ loadAt[r] = "waiting" /\ page[from[r]].done /\ ~ page[from[r]].failed
    /\ got' = [got EXCEPT ![r] = Head(page[from[r]].msgs, limit[r])]
    /\ lent' = lent + 1
    /\ loadAt' = [loadAt EXCEPT ![r] = "returned"]
    /\ UNCHANGED <<posted, sweepOver, entry, page, limit, from>>

\* The shared read failed: the reader reads for itself, and shares nothing.
ReadAlone(r) ==
    /\ loadAt[r] = "waiting" /\ page[from[r]].done /\ page[from[r]].failed
    /\ \/ /\ ~ sweepOver
          /\ got' = [got EXCEPT ![r] = Newest(posted, limit[r])]
          /\ loadAt' = [loadAt EXCEPT ![r] = "returned"]
       \/ /\ got' = got
          /\ loadAt' = [loadAt EXCEPT ![r] = "failed"]
    /\ UNCHANGED <<posted, sweepOver, entry, page, limit, from, lent>>

\* ctx.Done() while waiting; when the page is ready too, either may happen.
LeavePage(r) ==
    /\ loadAt[r] = "waiting" /\ sweepOver
    /\ loadAt' = [loadAt EXCEPT ![r] = "failed"]
    /\ UNCHANGED <<posted, sweepOver, entry, page, limit, from, got, lent>>

Load(r) == Fetch(r) \/ ClosePage(r) \/ Borrow(r) \/ ReadAlone(r) \/ LeavePage(r)

PagesNext ==
    \/ Post \/ SweepEnds
    \/ \E r \in Readers :
         Load(r) \/ \E l \in Limits : WaitForPage(r, l) \/ OwnPage(r, l)

PagesSpec == PagesInit /\ [][PagesNext]_pagesVars

\* A reader inside load keeps running, and its fetch returns.
PagesFairness == \A r \in Readers : WF_pagesVars(Load(r))

PagesFairSpec == PagesSpec /\ PagesFairness

-----------------------------------------------------------------------------
\* The types, and that a reader only ever waits for another's page of at
\* least the length it asked for.
PagesTypeOK ==
    /\ posted \in Nat /\ sweepOver \in BOOLEAN /\ lent \in Nat
    /\ entry \in Readers \cup {NoPage}
    /\ page \in [Readers -> [msgs : SUBSET Nat, failed : BOOLEAN, done : BOOLEAN]]
    /\ limit \in [Readers -> Nat]
    /\ from \in [Readers -> Readers \cup {NoPage}]
    /\ loadAt \in [Readers -> {"idle", "waiting", "fetching", "closing", "returned", "failed"}]
    /\ got \in [Readers -> SUBSET Nat]
    /\ \A r \in Readers : loadAt[r] = "waiting" =>
         from[r] \in Readers \ {r} /\ limit[from[r]] >= limit[r]

\* Sharing is exact: whatever a reader gets, borrowed or read, is the page
\* of the length it asked for as Slack held it at some moment of the sweep,
\* so that only messages newer than the sweep's start can be missing.
ExactPage ==
    \A r \in Readers :
        loadAt[r] = "returned" =>
            \E n \in Posted0 .. posted : got[r] = Newest(n, limit[r])

\* Every load returns, however the shared read ends.
EveryLoadReturns ==
    \A r \in Readers :
        loadAt[r] \in {"waiting", "fetching"} ~> loadAt[r] \in {"returned", "failed"}
=============================================================================
