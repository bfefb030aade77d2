---------------------------- MODULE ChannelNames ----------------------------
(***************************************************************************)
(* The name cache of ChannelService (internal/slack/channels.go): ResolveID *)
(* walks the pages of active channels and remembers all it sees, for the   *)
(* life of the process, while channels are renamed, archived and restored, *)
(* by others and by archive_channel and unarchive_channel themselves       *)
(* (internal/tools/channels.go), and calls run side by side.               *)
(***************************************************************************)
EXTENDS Naturals, FiniteSets

CONSTANTS
    Chan,           \* channels, in the order Slack lists them
    ChanName,       \* the names calls use
    OtherName,      \* any name no call uses; several channels may bear one
    Resolver,       \* calls that run side by side
    ChanPage        \* channels of one page

ASSUME ChannelNamesAssumption ==
    /\ Chan \subseteq Nat \ {0} /\ IsFiniteSet(Chan) /\ OtherName \notin ChanName
    /\ ChanPage \in Nat \ {0}

VARIABLES
    nameOf,     \* Slack: the name of every channel
    archived,   \* Slack: the archived channels
    cache,      \* name -> channel; 0 where the cache has none
    step,       \* per call: "idle", "walk", "record"
    purpose,    \* what the call does with the channel: "archive", "unarchive", "list"
    wanted,     \* the name it looks for
    seenTo,     \* the page cursor, a channel; 0 before the first page and after the last
    pageOf,     \* what the page just read says of those names, as <<channel, name>>
    steady,     \* history: the channels that had the name, active, all through the walk
    absent,     \* history: the last walk ended without the name
    hidden      \* history: what the tool archived by name since the process started

slackN   == <<nameOf, archived>>
callN    == <<step, purpose, wanted, seenTo, pageOf, steady, absent>>
nameVars == <<slackN, cache, callN, hidden>>

Active(n) == {c \in Chan \ archived : nameOf[c] = n}
\* The next page of active channels after one of them.
PageAfter(c) ==
    {d \in Chan \ archived : d > c /\ Cardinality({e \in Chan \ archived : c < e /\ e < d}) < ChanPage}

NamesInit ==
    /\ nameOf \in [Chan -> {OtherName}] /\ archived = {} /\ cache = [n \in ChanName |-> 0]
    /\ step = [r \in Resolver |-> "idle"] /\ purpose = [r \in Resolver |-> "list"]
    /\ wanted = [r \in Resolver |-> OtherName] /\ seenTo = [r \in Resolver |-> 0]
    /\ pageOf = [r \in Resolver |-> {}] /\ steady = [r \in Resolver |-> {}]
    /\ absent = [r \in Resolver |-> FALSE] /\ hidden = {}

\* After Slack has changed, fewer channels have borne a name all through a walk.
StillSteady(names, arch) ==
    steady' = [r \in Resolver |-> {c \in steady[r] : names[c] = wanted[r] /\ c \notin arch}]

(* Others rename, archive and restore; a name belongs to one channel at a time. *)
RenameChannel(c, n) ==
    /\ n = OtherName \/ \A d \in Chan : nameOf[d] # n
    /\ nameOf' = [nameOf EXCEPT ![c] = n]
    /\ StillSteady(nameOf', archived)
    /\ UNCHANGED <<archived, cache, step, purpose, wanted, seenTo, pageOf, absent, hidden>>

OthersArchive(c) ==
    /\ archived' \in {archived \cup {c}, archived \ {c}}
    /\ StillSteady(nameOf, archived')
    /\ UNCHANGED <<nameOf, cache, step, purpose, wanted, seenTo, pageOf, absent, hidden>>

\* A call that is done leaves nothing but its outcome.
Rest(r, found) ==
    /\ step' = [step EXCEPT ![r] = "idle"]
    /\ wanted' = [wanted EXCEPT ![r] = OtherName] /\ purpose' = [purpose EXCEPT ![r] = "list"]
    /\ seenTo' = [seenTo EXCEPT ![r] = 0] /\ pageOf' = [pageOf EXCEPT ![r] = {}]
    /\ absent' = [absent EXCEPT ![r] = ~ found]

\* Archive and Unarchive of the channel that was resolved; Slack may refuse. A call
\* that lists channels has no use for one of them.
ActOn(r, c, p, n) ==
    LET take == {archived, IF p = "archive" THEN archived \cup {c} ELSE archived \ {c}} IN
    /\ archived' \in IF p = "list" THEN {archived} ELSE take
    /\ hidden' = IF archived' = archived THEN hidden
                 ELSE IF p = "archive" THEN hidden \cup {n} ELSE hidden \ {n}
    /\ steady' = [q \in Resolver |-> IF q = r THEN {} ELSE steady[q] \ archived']
    /\ UNCHANGED nameOf

\* ResolveID: the cache first.
ResolveCached(r, p, n) ==
    /\ step[r] = "idle" /\ cache[n] # 0
    /\ ActOn(r, cache[n], p, n) /\ Rest(r, TRUE) /\ UNCHANGED cache

StartWalk(r, p, n) ==
    /\ step[r] = "idle" /\ (p # "list" => cache[n] = 0)
    /\ step' = [step EXCEPT ![r] = "walk"]
    /\ purpose' = [purpose EXCEPT ![r] = p] /\ wanted' = [wanted EXCEPT ![r] = n]
    /\ steady' = [steady EXCEPT ![r] = IF p = "list" THEN {} ELSE Active(n)]
    /\ absent' = [absent EXCEPT ![r] = FALSE]
    /\ UNCHANGED <<slackN, cache, seenTo, pageOf, hidden>>

\* Slack's cursor names the last channel of a page that is not the last one.
MutantOnePage(page) == 0

CursorAfter(page) ==
    IF page = {} THEN 0
    ELSE LET last == CHOOSE c \in page : \A d \in page : d <= c
         IN  IF PageAfter(last) = {} THEN 0 ELSE last

ReadPage(r) ==
    /\ step[r] = "walk"
    /\ step' = [step EXCEPT ![r] = "record"]
    /\ LET page == PageAfter(seenTo[r]) IN
         /\ pageOf' = [pageOf EXCEPT ![r] = {<<c, nameOf[c]>> : c \in {d \in page : nameOf[d] # OtherName}}]
         /\ seenTo' = [seenTo EXCEPT ![r] = CursorAfter(page)]
    /\ UNCHANGED <<slackN, cache, purpose, wanted, steady, absent, hidden>>

ReadFails(r) ==
    /\ step[r] = "walk" /\ Rest(r, TRUE)
    /\ steady' = [steady EXCEPT ![r] = {}]
    /\ UNCHANGED <<slackN, cache, hidden>>

\* recordChannel of a whole page, then the name among them, then the next page.
Recorded(r) ==
    [n \in ChanName |->
        IF \E e \in pageOf[r] : e[2] = n THEN (CHOOSE e \in pageOf[r] : e[2] = n)[1] ELSE cache[n]]

RecordPage(r) ==
    /\ step[r] = "record"
    /\ cache' = Recorded(r)
    /\ LET hit == {e \in pageOf[r] : e[2] = wanted[r] /\ purpose[r] # "list"} IN
          \/ /\ hit # {}
             /\ \E e \in hit : ActOn(r, e[1], purpose[r], wanted[r])
             /\ Rest(r, TRUE)
          \/ /\ hit = {} /\ seenTo[r] # 0
             /\ step' = [step EXCEPT ![r] = "walk"]
             /\ pageOf' = [pageOf EXCEPT ![r] = {}]
             /\ UNCHANGED <<slackN, purpose, wanted, seenTo, steady, absent, hidden>>
          \/ /\ hit = {} /\ seenTo[r] = 0
             /\ Rest(r, purpose[r] = "list")
             /\ UNCHANGED <<slackN, steady, hidden>>

\* Info and NamesForIDs record the channel they ask for, under its present name.
LookUpChannel(c) ==
    /\ nameOf[c] \in ChanName
    /\ cache' = [cache EXCEPT ![nameOf[c]] = c]
    /\ UNCHANGED <<slackN, callN, hidden>>

\* The cache does not outlive the process.
RestartServer ==
    /\ cache' = [n \in ChanName |-> 0] /\ hidden' = {}
    /\ step' = [r \in Resolver |-> "idle"] /\ purpose' = [r \in Resolver |-> "list"]
    /\ wanted' = [r \in Resolver |-> OtherName] /\ seenTo' = [r \in Resolver |-> 0]
    /\ pageOf' = [r \in Resolver |-> {}] /\ steady' = [r \in Resolver |-> {}]
    /\ absent' = [r \in Resolver |-> FALSE]
    /\ UNCHANGED slackN

NamesNext ==
    \/ \E c \in Chan : OthersArchive(c) \/ LookUpChannel(c)
    \/ \E c \in Chan, n \in ChanName \cup {OtherName} : RenameChannel(c, n)
    \/ \E r \in Resolver :
         \/ StartWalk(r, "list", OtherName)
         \/ \E p \in {"archive", "unarchive"}, n \in ChanName :
              ResolveCached(r, p, n) \/ StartWalk(r, p, n)
         \/ ReadPage(r) \/ ReadFails(r) \/ RecordPage(r)
    \/ RestartServer

NamesSpec == NamesInit /\ [][NamesNext]_nameVars
-----------------------------------------------------------------------------
NamesTypeOK ==
    /\ nameOf \in [Chan -> ChanName \cup {OtherName}] /\ archived \subseteq Chan
    /\ cache \in [ChanName -> Chan \cup {0}] /\ hidden \subseteq ChanName
    /\ step \in [Resolver -> {"idle", "walk", "record"}]
    /\ purpose \in [Resolver -> {"archive", "unarchive", "list"}]
    /\ wanted \in [Resolver -> ChanName \cup {OtherName}]
    /\ seenTo \in [Resolver -> Chan \cup {0}] /\ steady \in [Resolver -> SUBSET Chan]
    /\ pageOf \in [Resolver -> SUBSET (Chan \X ChanName)]
    /\ absent \in [Resolver -> BOOLEAN]

\* "channel not found" is only said of a name that no active channel has borne all
\* through the walk, whatever is renamed or archived between its pages.
NotFoundIsAbsent == \A r \in Resolver : absent[r] => steady[r] = {}

\* "reversible via unarchive_channel": as long as the process lives, a name
\* archive_channel was called with is one unarchive_channel can resolve, although the
\* listing no longer shows the channel.
ArchivedStaysReachable == \A n \in hidden : cache[n] # 0

\* A name that a channel bears is found, by a walk of the listing or, for an
\* archived channel, from what the process remembers (ResolveID and recordChannel).
NamesAreFound == NotFoundIsAbsent /\ ArchivedStaysReachable
=============================================================================
