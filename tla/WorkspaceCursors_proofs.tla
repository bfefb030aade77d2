---------------------- MODULE WorkspaceCursors_proofs ----------------------
(***************************************************************************)
(* Theorems about runUnreadSummary's cursors, for any registry whose       *)
(* labels survive the token (PlainLabels), any exclusion and any messages. *)
(*                                                                         *)
(* Why nothing falls behind: no sweep returns a cursor beyond a message    *)
(* that it neither returned nor found returned before, a workspace without *)
(* a cursor of its own keeps the one it came with, and the token gives     *)
(* every workspace back what was written for it.                           *)
(***************************************************************************)
EXTENDS WorkspaceCursors, Timestamps_proofs, FiniteSetTheorems, TLAPS

\* Nothing is newer than the clock, and a sweep started no earlier than the
\* cursor it was given.
TimesOK ==
    \A w \in Workspaces :
        /\ held[w] <= postClock
        /\ sweep[w] # "idle" => held[w] <= start[w] /\ start[w] <= postClock

\* What a sweep is worth to its caller at each of its stages.
SweepOK ==
    \A w \in Workspaces :
        /\ sweep[w] \in {"idle", "no token", "sweeping", "error"} =>
             cursor[w] = 0 /\ out[w] = {}
        /\ sweep[w] \notin {"idle", "no token"} => w \notin NoUserToken
        /\ sweep[w] = "no token" => w \in NoUserToken
        /\ w \in NoUserToken => held[w] = 0

\* A cursor a sweep has returned passes over nothing.
CursorOK ==
    \A w \in Workspaces :
        sweep[w] \in {"empty", "full"} =>
            /\ held[w] <= cursor[w] /\ cursor[w] <= postClock
            /\ \A m \in allPosts :
                 m.ws = w /\ m.ts <= cursor[w] => m \in shown \cup out[w]

CursorsInv == CursorsTypeOK /\ TimesOK /\ SweepOK /\ CursorOK /\ NothingBehind

USE DEF cursorVars, callerVars, sweepVars

-----------------------------------------------------------------------------
\* There is at least one workspace, and the targets of a pull are some of
\* them.
LEMMA TargetsType ==
    ASSUME arg \in Workspaces \cup {"all"}
    PROVE  Targets \subseteq Workspaces /\ Targets # {} /\ Excluded \subseteq Workspaces
<1>1. Workspaces # {}
  BY RegistryAssumption DEF Workspaces
<1> QED
  BY <1>1, SettingsAssumption DEF Targets, Excluded

\* A pull with several sections covers every workspace, swept or excluded.
LEMMA MultiCovers ==
    ASSUME arg \in Workspaces \cup {"all"}, Multi
    PROVE  Targets = Workspaces \ Excluded
<1>1. CASE arg = "all"
  BY <1>1 DEF Targets
<1>2. CASE arg # "all"
  <2>1. Targets = {arg} /\ Excluded = {}
    BY <1>2 DEF Targets, Excluded
  <2>2. Cardinality({arg}) = 1
    BY FS_Singleton
  <2> QED
    BY <2>1, <2>2 DEF Multi
<1> QED
  BY <1>1, <1>2

\* The token round-trips when the labels survive it: the next pull reads
\* for each workspace what was written for it (combinedCursor,
\* parseAfterCursor, cursorForWorkspace).
LEMMA RoundTrip ==
    ASSUME PlainLabels, NEW w \in Workspaces
    PROVE  Parsed(w) = CursorOf(w)
<1>1. PICK k \in DOMAIN Registry : Registry[k] = w
  BY DEF Workspaces
<1>2. \A i \in DOMAIN Registry : Registry[i] \in Workspaces
  BY DEF Workspaces
<1>3. \A i \in DOMAIN Registry : LabelKey[Registry[i]] = LabelKey[w] => i = k
  BY <1>1, <1>2, RegistryAssumption DEF PlainLabels
<1>4. EntriesFor(w) = IF CursorOf(w) # 0 THEN {k} ELSE {}
  BY <1>1, <1>3 DEF EntriesFor, Combined, PlainLabels
<1>5. CASE CursorOf(w) = 0
  BY <1>4, <1>5 DEF Parsed
<1>6. CASE CursorOf(w) # 0
  <2>1. EntriesFor(w) = {k}
    BY <1>4, <1>6
  <2>2. k <= k
    BY RegistryAssumption
  <2>3. (CHOOSE i \in {k} : \A j \in {k} : j <= i) = k
    BY <2>2
  <2>4. w \notin Splits
    BY DEF PlainLabels
  <2> QED
    BY <1>1, <2>1, <2>3, <2>4 DEF Parsed
<1> QED
  BY <1>5, <1>6

\* The first state satisfies the invariant.
LEMMA CursorsInvInit == CursorsInit => CursorsInv
<1> SUFFICES ASSUME CursorsInit PROVE CursorsInv
  OBVIOUS
<1>1. CursorsTypeOK
  BY DEF CursorsInit, CursorsTypeOK
<1>2. TimesOK /\ SweepOK /\ CursorOK /\ NothingBehind
  BY DEF CursorsInit, TimesOK, SweepOK, CursorOK, NothingBehind
<1> QED
  BY <1>1, <1>2 DEF CursorsInv

-----------------------------------------------------------------------------
(* The types, which ask nothing of the labels. *)

\* Whatever the labels, the next pull reads a number out of the token.
LEMMA ParsedType ==
    ASSUME CursorsTypeOK, NEW w \in Workspaces
    PROVE  Parsed(w) \in Nat
<1>1. \A v \in Workspaces : CursorOf(v) \in Nat
  BY DEF CursorOf, Carried, CursorsTypeOK
<1>2. \A i \in DOMAIN Registry : Registry[i] \in Workspaces
  BY DEF Workspaces
<1>3. EntriesFor(w) \subseteq DOMAIN Registry
  BY DEF EntriesFor, Combined
<1>4. CASE EntriesFor(w) = {}
  BY <1>4 DEF Parsed
<1>5. CASE EntriesFor(w) # {}
  <2>1. DOMAIN Registry = 1 .. Len(Registry) /\ Len(Registry) \in Nat
    BY RegistryAssumption
  <2>2. \E i \in EntriesFor(w) : \A j \in EntriesFor(w) : j <= i
    <3>1. IsFiniteSet(1 .. Len(Registry)) /\ 1 .. Len(Registry) \subseteq Nat
      BY <2>1, FS_Interval
    <3>2. EntriesFor(w) \in SUBSET Nat /\ IsFiniteSet(EntriesFor(w))
      BY <1>3, <2>1, <3>1, FS_Subset
    <3> QED
      BY <1>5, <3>2, Largest
  <2> DEFINE last == CHOOSE i \in EntriesFor(w) : \A j \in EntriesFor(w) : j <= i
  <2>3. last \in EntriesFor(w)
    BY <2>2
  <2> HIDE DEF last
  <2>4. CursorOf(Registry[last]) \in Nat
    BY <1>1, <1>2, <1>3, <2>3
  <2> QED
    BY <2>4 DEF Parsed, last
<1> QED
  BY <1>4, <1>5

LEMMA ReturnsType ==
    ASSUME CursorsTypeOK, NEW w \in Workspaces, NEW how \in {"empty", "full", "error"},
           NEW msgs \in SUBSET allPosts, NEW c \in Nat, Returns(w, how, msgs, c)
    PROVE  CursorsTypeOK'
<1>1. /\ sweep[w] = "sweeping" /\ sweep' = [sweep EXCEPT ![w] = how]
      /\ out' = [out EXCEPT ![w] = msgs] /\ cursor' = [cursor EXCEPT ![w] = c]
      /\ UNCHANGED <<postClock, allPosts, shown, held, pulls, arg, expired, start>>
  BY DEF Returns
<1>2. Targets' = Targets
  BY <1>1 DEF Targets, Excluded
<1>3. sweep' \in [Workspaces -> {"idle", "no token", "sweeping", "empty", "full", "error"}]
  BY <1>1 DEF CursorsTypeOK
<1>4. out' \in [Workspaces -> SUBSET allPosts] /\ cursor' \in [Workspaces -> Nat]
  BY <1>1 DEF CursorsTypeOK
<1>5. \A v \in Workspaces : sweep'[v] # "idle" => arg # "none" /\ v \in Targets
  BY <1>1 DEF CursorsTypeOK
<1> QED
  BY <1>1, <1>2, <1>3, <1>4, <1>5 DEF CursorsTypeOK

LEMMA AnswersType ==
    ASSUME CursorsTypeOK, Answered, shown' \subseteq allPosts, held' \in [Workspaces -> Nat]
    PROVE  CursorsTypeOK'
BY DEF Answered, Reset, CursorsTypeOK

LEMMA CursorsTypeStep == CursorsTypeOK /\ [CursorsNext]_cursorVars => CursorsTypeOK'
<1> SUFFICES ASSUME CursorsTypeOK, [CursorsNext]_cursorVars PROVE CursorsTypeOK'
  OBVIOUS
<1>1. ASSUME NEW w \in Workspaces, PostIn(w) PROVE CursorsTypeOK'
  <2> DEFINE new == [ws |-> w, ts |-> postClock + 1]
  <2>1. /\ allPosts' = allPosts \cup {new} /\ postClock' = postClock + 1
        /\ UNCHANGED <<shown, held, pulls, arg, expired, sweep, start, out, cursor>>
    BY <1>1 DEF PostIn
  <2>2. postClock' \in Nat /\ new \in PostedMessage /\ new.ts = postClock'
    <3>0. postClock \in Nat
      BY DEF CursorsTypeOK
    <3>1. postClock' \in Nat
      BY <2>1, <3>0
    <3>2. new.ws \in Workspaces /\ new.ts = postClock + 1 /\ new = [ws |-> new.ws, ts |-> new.ts]
      OBVIOUS
    <3>3. new.ts = postClock' /\ new.ts \in Nat
      BY <2>1, <3>1, <3>2
    <3> HIDE DEF new
    <3> QED
      BY <3>1, <3>2, <3>3 DEF PostedMessage
  <2> HIDE DEF new
  <2>3. Targets' = Targets
    BY <2>1 DEF Targets, Excluded
  <2>4. \A m \in allPosts' : m.ts <= postClock'
    <3>1. ASSUME NEW m \in allPosts PROVE m.ts <= postClock + 1
      <4>1. m.ts \in Nat /\ postClock \in Nat /\ m.ts <= postClock
        BY DEF CursorsTypeOK, PostedMessage
      <4> QED
        BY <4>1
    <3> QED
      BY <2>1, <2>2, <3>1
  <2>5. allPosts' \subseteq PostedMessage /\ shown' \subseteq allPosts'
        /\ out' \in [Workspaces -> SUBSET allPosts']
    BY <2>1, <2>2 DEF CursorsTypeOK
  <2> QED
    BY <2>1, <2>2, <2>3, <2>4, <2>5 DEF CursorsTypeOK
<1>2. ASSUME NEW w \in Workspaces, Start(w) PROVE CursorsTypeOK'
  <2>1. Targets' = Targets
    BY <1>2 DEF Start, Targets, Excluded
  <2>2. sweep' \in [Workspaces -> {"idle", "no token", "sweeping", "empty", "full", "error"}]
    BY <1>2 DEF Start, CursorsTypeOK
  <2>3. start' \in [Workspaces -> Nat]
    BY <1>2 DEF Start, CursorsTypeOK
  <2> QED
    BY <1>2, <2>1, <2>2, <2>3 DEF Start, CursorsTypeOK
<1>3. ASSUME NEW w \in Workspaces, Complete(w) PROVE CursorsTypeOK'
  <2>1. PICK late \in SUBSET {m \in Unseen(w) : m.ts > start[w]} :
          LET msgs == {m \in Unseen(w) : m.ts <= start[w]} \cup late
          IN  IF msgs = {} THEN Returns(w, "empty", {}, held[w])
              ELSE Returns(w, "full", msgs, CapCursor(w, NewestTS(msgs)))
    BY <1>3 DEF Complete
  <2> DEFINE msgs == {m \in Unseen(w) : m.ts <= start[w]} \cup late
  <2>2. msgs \in SUBSET allPosts /\ held[w] \in Nat /\ start[w] \in Nat
    BY DEF Unseen, Of, CursorsTypeOK
  <2>3. \/ Returns(w, "empty", {}, held[w])
        \/ msgs # {} /\ Returns(w, "full", msgs, CapCursor(w, NewestTS(msgs)))
    BY <2>1
  <2> HIDE DEF msgs
  <2>4. msgs # {} => CapCursor(w, NewestTS(msgs)) \in Nat
    <3>1. \A m \in msgs : m.ts \in Nat /\ m.ts <= postClock
      BY <2>2 DEF CursorsTypeOK, PostedMessage
    <3>2. msgs # {} => NewestTS(msgs) \in Nat
      BY <3>1, NewestTSProperties DEF CursorsTypeOK
    <3> QED
      BY <2>2, <3>2 DEF CapCursor
  <2>5. {} \in SUBSET allPosts
    OBVIOUS
  <2> QED
    BY <2>2, <2>3, <2>4, <2>5, ReturnsType
<1>4. ASSUME NEW w \in Workspaces, Incomplete(w) \/ SweepErrs(w) PROVE CursorsTypeOK'
  <2>1. /\ held[w] \in Nat /\ 0 \in Nat /\ {} \in SUBSET allPosts
        /\ \A msgs \in SUBSET Unseen(w) : msgs \in SUBSET allPosts
    BY DEF Unseen, Of, CursorsTypeOK
  <2> QED
    <3>1. CASE Incomplete(w)
      <4>1. PICK msgs \in SUBSET Unseen(w) : Returns(w, "full", msgs, held[w])
        BY <3>1 DEF Incomplete
      <4> QED
        BY <2>1, <4>1, ReturnsType
    <3>2. CASE SweepErrs(w)
      <4>1. Returns(w, "error", {}, 0)
        BY <3>2 DEF SweepErrs
      <4> QED
        BY <2>1, <4>1, ReturnsType
    <3> QED
      BY <1>4, <3>1, <3>2
<1>5. ASSUME NEW a \in Workspaces \cup {"all"}, Begin(a) PROVE CursorsTypeOK'
  <2>1. \A w \in Workspaces : sweep[w] = "idle"
    BY <1>5 DEF Begin, CursorsTypeOK
  <2> QED
    <3>1. /\ arg' = a /\ pulls' = pulls + 1 /\ expired' = FALSE
          /\ UNCHANGED <<postClock, allPosts, shown, held, sweep, start, out, cursor>>
      BY <1>5 DEF Begin
    <3>2. pulls \in Nat
      BY DEF CursorsTypeOK
    <3>3. pulls' \in Nat /\ arg' \in Workspaces \cup {"all", "none"}
      BY <3>1, <3>2
    <3> QED
      BY <2>1, <3>1, <3>3 DEF CursorsTypeOK
<1>6. CASE Deadline \/ UNCHANGED cursorVars
  <2>1. Targets' = Targets
    BY <1>6 DEF Deadline, Targets, Excluded
  <2> QED
    BY <1>6, <2>1 DEF Deadline, CursorsTypeOK
<1>7. CASE AnswerAll
  <2>1. Targets \subseteq Workspaces
    BY <1>7, TargetsType DEF AnswerAll, Answered, CursorsTypeOK
  <2>2. shown' \subseteq allPosts
    BY <1>7, <2>1 DEF AnswerAll, CursorsTypeOK
  <2>3. held' \in [Workspaces -> Nat]
    BY <1>7, ParsedType DEF AnswerAll, CursorsTypeOK
  <2> QED
    BY <1>7, <2>2, <2>3, AnswersType DEF AnswerAll
<1>8. CASE AnswerOne
  <2> DEFINE w == CHOOSE v \in Targets : TRUE
  <2>1. w \in Workspaces
    BY <1>8, TargetsType DEF AnswerOne, Answered, CursorsTypeOK
  <2>2. Answered /\ shown' = shown \cup out[w]
        /\ held' \in {held, [held EXCEPT ![w] = cursor[w]]}
    BY <1>8 DEF AnswerOne
  <2> HIDE DEF w
  <2>3. shown' \subseteq allPosts /\ held' \in [Workspaces -> Nat]
    BY <2>1, <2>2 DEF CursorsTypeOK
  <2> QED
    BY <2>2, <2>3, AnswersType
<1> QED
  BY <1>1, <1>2, <1>3, <1>4, <1>5, <1>6, <1>7, <1>8 DEF CursorsNext, Sweep

\* Types, and no sweep outlives its pull, whatever the labels are: the next pull
\* always reads a number out of the token (parseAfterCursor).
THEOREM CursorsTypeCorrect == CursorsSpec => []CursorsTypeOK
<1>1. CursorsInit => CursorsTypeOK
  BY CursorsInvInit DEF CursorsInv
<1> QED
  BY <1>1, CursorsTypeStep, PTL DEF CursorsSpec

-----------------------------------------------------------------------------
\* A sweep that returns keeps the invariant if its cursor passes over
\* nothing.
LEMMA ReturnStep ==
    ASSUME CursorsInv, NEW w \in Workspaces,
           NEW how \in {"empty", "full", "error"},
           NEW msgs \in SUBSET allPosts, NEW c \in Nat, Returns(w, how, msgs, c),
           how = "error" => c = 0 /\ msgs = {},
           how # "error" => /\ held[w] <= c /\ c <= postClock
                            /\ \A m \in allPosts :
                                 m.ws = w /\ m.ts <= c => m \in shown \cup msgs
    PROVE  CursorsInv'
<1> USE DEF CursorsInv
<1>1. sweep[w] = "sweeping" /\ w \notin NoUserToken
  BY DEF Returns, SweepOK
<1>2. Targets' = Targets
  BY DEF Returns, Targets, Excluded
<1>3. CursorsTypeOK'
  BY <1>1, <1>2 DEF Returns, CursorsTypeOK
<1>4. TimesOK'
  BY <1>1 DEF Returns, CursorsTypeOK, TimesOK
<1>5. SweepOK'
  BY <1>1 DEF Returns, CursorsTypeOK, SweepOK
<1>6. CursorOK'
  BY <1>1 DEF Returns, CursorsTypeOK, CursorOK
<1>7. NothingBehind'
  BY DEF Returns, NothingBehind
<1> QED
  BY <1>3, <1>4, <1>5, <1>6, <1>7

\* A sweep that runs to its end passes over nothing: what it returns is all
\* that was there, and its cursor is capped at its start (capCursor).
LEMMA CompleteStep ==
    ASSUME CursorsInv, NEW w \in Workspaces, Complete(w)
    PROVE  CursorsInv'
<1> USE DEF CursorsInv
<1>1. sweep[w] = "sweeping"
  BY DEF Complete, Returns
<1>2. /\ held[w] \in Nat /\ start[w] \in Nat /\ postClock \in Nat
      /\ held[w] <= start[w] /\ start[w] <= postClock
  BY <1>1 DEF CursorsTypeOK, TimesOK
<1>3. PICK late \in SUBSET {m \in Unseen(w) : m.ts > start[w]} :
        LET msgs == {m \in Unseen(w) : m.ts <= start[w]} \cup late
        IN  IF msgs = {} THEN Returns(w, "empty", {}, held[w])
            ELSE Returns(w, "full", msgs, CapCursor(w, NewestTS(msgs)))
  BY DEF Complete
<1> DEFINE msgs == {m \in Unseen(w) : m.ts <= start[w]} \cup late
<1>4. /\ msgs \subseteq Unseen(w) /\ msgs \in SUBSET allPosts
      /\ \A m \in msgs : m.ts \in Nat /\ m.ts <= postClock /\ m.ts > held[w]
  BY DEF Unseen, Of, CursorsTypeOK, PostedMessage
<1>5. \A m \in allPosts : m.ws = w /\ m.ts <= held[w] => m \in shown
  BY DEF NothingBehind
<1>6. CASE msgs = {}
  BY <1>2, <1>3, <1>5, <1>6, ReturnStep
<1>7. CASE msgs # {}
  <2>1. /\ NewestTS(msgs) \in Nat
        /\ \E m \in msgs : NewestTS(msgs) = m.ts
    BY <1>2, <1>4, <1>7, NewestTSProperties
  <2> DEFINE c == CapCursor(w, NewestTS(msgs))
  <2>2. c \in Nat /\ held[w] <= c /\ c <= start[w] /\ c <= postClock
    BY <1>2, <1>4, <2>1 DEF CapCursor
  <2>3. ASSUME NEW m \in allPosts, m.ws = w, m.ts <= c
        PROVE  m \in shown \cup msgs
    <3>1. m.ts \in Nat
      BY DEF CursorsTypeOK, PostedMessage
    <3>2. CASE m.ts <= held[w]
      BY <1>5, <2>3, <3>2
    <3>3. CASE m.ts > held[w]
      BY <1>2, <2>2, <2>3, <3>1, <3>3 DEF Unseen, Of
    <3> QED
      BY <1>2, <3>1, <3>2, <3>3
  <2>4. Returns(w, "full", msgs, c)
    BY <1>3, <1>7
  <2> HIDE DEF msgs, c
  <2> QED
    BY <1>4, <2>2, <2>3, <2>4, ReturnStep
<1> QED
  BY <1>6, <1>7

\* A sweep that is cut keeps its cursor, and one that fails has none.
LEMMA CutStep ==
    ASSUME CursorsInv, NEW w \in Workspaces, Incomplete(w) \/ SweepErrs(w)
    PROVE  CursorsInv'
<1> USE DEF CursorsInv
<1>1. CASE Incomplete(w)
  <2>1. PICK msgs \in SUBSET Unseen(w) : Returns(w, "full", msgs, held[w])
    BY <1>1 DEF Incomplete
  <2>2. msgs \in SUBSET allPosts
    BY <2>1 DEF Unseen, Of
  <2>3. held[w] \in Nat /\ held[w] <= postClock
    BY DEF CursorsTypeOK, TimesOK
  <2>4. \A m \in allPosts : m.ws = w /\ m.ts <= held[w] => m \in shown
    BY DEF NothingBehind
  <2> QED
    BY <2>1, <2>2, <2>3, <2>4, ReturnStep
<1>2. CASE SweepErrs(w)
  BY <1>2, ReturnStep DEF SweepErrs
<1> QED
  BY <1>1, <1>2

-----------------------------------------------------------------------------
\* What an answer with several sections hands back to the caller for a
\* workspace is no earlier than what it came with, no later than the clock,
\* and passes over nothing that the answer does not show.
LEMMA ComposedCursor ==
    ASSUME CursorsInv, arg # "none", AllReturned, Multi, NEW w \in Workspaces
    PROVE  /\ CursorOf(w) \in Nat /\ held[w] <= CursorOf(w) /\ CursorOf(w) <= postClock
           /\ w \in NoUserToken => CursorOf(w) = 0
           /\ \A m \in allPosts :
                m.ws = w /\ m.ts <= CursorOf(w) =>
                    m \in shown \cup UNION {out[v] : v \in Targets}
<1> USE DEF CursorsInv
<1>1. /\ arg \in Workspaces \cup {"all"}
      /\ held[w] \in Nat /\ cursor[w] \in Nat /\ postClock \in Nat /\ held[w] <= postClock
  BY DEF CursorsTypeOK, TimesOK
<1>2. Targets = Workspaces \ Excluded
  BY <1>1, MultiCovers
<1>3. \A m \in allPosts : m.ws = w /\ m.ts <= held[w] => m \in shown
  BY DEF NothingBehind
<1>4. w \in NoUserToken => held[w] = 0
  BY DEF SweepOK
<1>5. CASE w \in Targets \ NoUserToken
  <2>1. sweep[w] \in {"empty", "full", "error"}
    BY <1>5 DEF AllReturned, CursorsTypeOK, SweepOK
  <2>2. CASE cursor[w] = 0
    BY <1>1, <1>3, <1>5, <2>2 DEF CursorOf, Carried
  <2>3. CASE cursor[w] # 0
    <3>1. sweep[w] \in {"empty", "full"}
      BY <2>1, <2>3 DEF SweepOK
    <3>2. /\ held[w] <= cursor[w] /\ cursor[w] <= postClock
          /\ \A m \in allPosts : m.ws = w /\ m.ts <= cursor[w] => m \in shown \cup out[w]
      BY <3>1 DEF CursorOK
    <3>3. CursorOf(w) = cursor[w]
      BY <1>5, <2>3 DEF CursorOf, Carried
    <3>4. out[w] \subseteq UNION {out[v] : v \in Targets}
      BY <1>5
    <3> QED
      BY <1>1, <1>5, <3>2, <3>3, <3>4
  <2> QED
    BY <2>2, <2>3
<1>6. CASE w \notin Targets \ NoUserToken
  <2>1. CursorOf(w) = held[w]
    BY <1>2, <1>4, <1>6 DEF CursorOf
  <2> QED
    BY <1>1, <1>3, <1>4, <2>1
<1> QED
  BY <1>5, <1>6

\* What remains of a pull once it is answered: nothing.
LEMMA AnswerStep ==
    ASSUME CursorsInv, Answered,
           shown' \subseteq allPosts, shown \subseteq shown',
           held' \in [Workspaces -> Nat],
           \A w \in Workspaces :
               /\ held'[w] <= postClock
               /\ w \in NoUserToken => held'[w] = 0
               /\ \A m \in allPosts : m.ws = w /\ m.ts <= held'[w] => m \in shown'
    PROVE  CursorsInv'
<1> USE DEF CursorsInv
<1>1. allPosts' = allPosts /\ postClock' = postClock
  BY DEF Answered
<1>2. CursorsTypeOK'
  BY DEF Answered, Reset, CursorsTypeOK, PostedMessage
<1>3. TimesOK' /\ SweepOK' /\ CursorOK'
  BY DEF Answered, Reset, TimesOK, SweepOK, CursorOK
<1>4. NothingBehind'
  BY <1>1 DEF NothingBehind, CursorsTypeOK, PostedMessage
<1> QED
  BY <1>2, <1>3, <1>4

\* The answer to a pull moves no cursor back, none past the clock, and
\* keeps the invariant (runUnreadSummary).
LEMMA AnswerAllStep ==
    ASSUME PlainLabels, CursorsInv, AnswerAll
    PROVE  /\ CursorsInv'
           /\ \A w \in Workspaces : held[w] <= held'[w] /\ held'[w] <= postClock
<1> USE DEF CursorsInv
<1> DEFINE fresh == UNION {out[v] : v \in Targets}
<1>1. Answered /\ Multi /\ AllReturned /\ arg # "none" /\ shown' = shown \cup fresh
  BY DEF AnswerAll, Answered
<1>2. arg \in Workspaces \cup {"all"} /\ Targets \subseteq Workspaces
  BY <1>1, TargetsType DEF CursorsTypeOK
<1>3. fresh \subseteq allPosts
  BY <1>2 DEF CursorsTypeOK
<1>4. held \in [Workspaces -> Nat] /\ postClock \in Nat /\ shown \subseteq allPosts
  BY DEF CursorsTypeOK
<1>5. CASE Combined = {}
  <2>1. held' = held
    BY <1>5 DEF AnswerAll
  <2>2. QED
    <3>1. \A w \in Workspaces :
            /\ held[w] \in Nat /\ held'[w] <= postClock
            /\ w \in NoUserToken => held'[w] = 0
            /\ \A m \in allPosts : m.ws = w /\ m.ts <= held'[w] => m \in shown'
      BY <1>1, <1>4, <2>1 DEF TimesOK, SweepOK, NothingBehind
    <3>2. CursorsInv'
      BY <1>1, <1>3, <1>4, <2>1, <3>1, AnswerStep
    <3> QED
      BY <2>1, <3>1, <3>2
<1>6. CASE Combined # {}
  <2>1. held' = [w \in Workspaces |-> CursorOf(w)]
    BY <1>6, RoundTrip DEF AnswerAll
  <2>2. \A w \in Workspaces :
          /\ CursorOf(w) \in Nat /\ held[w] <= CursorOf(w) /\ CursorOf(w) <= postClock
          /\ w \in NoUserToken => CursorOf(w) = 0
          /\ \A m \in allPosts : m.ws = w /\ m.ts <= CursorOf(w) => m \in shown \cup fresh
    BY <1>1, ComposedCursor
  <2> HIDE DEF fresh
  <2>3. held' \in [Workspaces -> Nat] /\ \A w \in Workspaces : held'[w] = CursorOf(w)
    BY <2>1, <2>2
  <2> QED
    BY <1>1, <1>3, <1>4, <2>2, <2>3, AnswerStep
<1> QED
  BY <1>5, <1>6

LEMMA AnswerOneStep ==
    ASSUME CursorsInv, AnswerOne
    PROVE  /\ CursorsInv'
           /\ \A w \in Workspaces : held[w] <= held'[w] /\ held'[w] <= postClock
<1> USE DEF CursorsInv
<1> DEFINE w == CHOOSE v \in Targets : TRUE
<1>1. Answered /\ arg # "none" /\ shown' = shown \cup out[w]
  BY DEF AnswerOne, Answered
<1>2. w \in Workspaces
  BY <1>1, TargetsType DEF CursorsTypeOK
<1>3. held' = IF sweep[w] = "full" /\ cursor[w] # 0
              THEN [held EXCEPT ![w] = cursor[w]] ELSE held
  BY DEF AnswerOne
<1> HIDE DEF w
<1>4. /\ held \in [Workspaces -> Nat] /\ postClock \in Nat /\ cursor[w] \in Nat
      /\ shown \subseteq allPosts /\ out[w] \subseteq allPosts
  BY <1>2 DEF CursorsTypeOK
<1>5. CASE sweep[w] = "full" /\ cursor[w] # 0
  <2>1. held' = [held EXCEPT ![w] = cursor[w]]
    BY <1>3, <1>5
  <2>2. /\ held[w] <= cursor[w] /\ cursor[w] <= postClock /\ w \notin NoUserToken
        /\ \A m \in allPosts : m.ws = w /\ m.ts <= cursor[w] => m \in shown \cup out[w]
    BY <1>2, <1>5 DEF CursorOK, SweepOK
  <2>3. held' \in [Workspaces -> Nat] /\ held'[w] = cursor[w]
        /\ \A v \in Workspaces : v # w => held'[v] = held[v]
    BY <1>2, <1>4, <2>1
  <2>4. \A v \in Workspaces :
          /\ held[v] <= held'[v] /\ held'[v] <= postClock
          /\ v \in NoUserToken => held'[v] = 0
          /\ \A m \in allPosts : m.ws = v /\ m.ts <= held'[v] => m \in shown'
    <3> SUFFICES ASSUME NEW v \in Workspaces
                 PROVE  /\ held[v] <= held'[v] /\ held'[v] <= postClock
                        /\ v \in NoUserToken => held'[v] = 0
                        /\ \A m \in allPosts : m.ws = v /\ m.ts <= held'[v] => m \in shown'
      OBVIOUS
    <3>1. CASE v = w
      BY <1>1, <2>2, <2>3, <3>1
    <3>2. CASE v # w
      <4>1. held'[v] = held[v] /\ held[v] \in Nat /\ held[v] <= postClock
        BY <1>4, <2>3, <3>2 DEF TimesOK
      <4>2. v \in NoUserToken => held[v] = 0
        BY DEF SweepOK
      <4>3. \A m \in allPosts : m.ws = v /\ m.ts <= held[v] => m \in shown
        BY DEF NothingBehind
      <4> QED
        BY <1>1, <4>1, <4>2, <4>3
    <3> QED
      BY <3>1, <3>2
  <2> QED
    BY <1>1, <1>4, <2>3, <2>4, AnswerStep
<1>6. CASE ~ (sweep[w] = "full" /\ cursor[w] # 0)
  <2>1. held' = held
    BY <1>3, <1>6
  <2> QED
    <3>1. \A v \in Workspaces :
            /\ held[v] \in Nat /\ held'[v] <= postClock
            /\ v \in NoUserToken => held'[v] = 0
            /\ \A m \in allPosts : m.ws = v /\ m.ts <= held'[v] => m \in shown'
      BY <1>1, <1>4, <2>1 DEF TimesOK, SweepOK, NothingBehind
    <3>2. CursorsInv'
      BY <1>1, <1>4, <2>1, <3>1, AnswerStep
    <3> QED
      BY <2>1, <3>1, <3>2
<1> QED
  BY <1>5, <1>6

-----------------------------------------------------------------------------
\* Every action keeps the invariant and moves the caller's cursors forward.
LEMMA CursorsStep ==
    ASSUME PlainLabels, CursorsInv, [CursorsNext]_cursorVars
    PROVE  /\ CursorsInv'
           /\ held' # held =>
                \A w \in Workspaces : held[w] <= held'[w] /\ held'[w] <= postClock
<1> USE DEF CursorsInv
<1>0. /\ postClock \in Nat /\ pulls \in Nat /\ expired \in BOOLEAN
      /\ held \in [Workspaces -> Nat]
      /\ start \in [Workspaces -> Nat] /\ cursor \in [Workspaces -> Nat]
      /\ \A m \in allPosts : m.ts \in Nat /\ m.ts <= postClock
  BY DEF CursorsTypeOK, PostedMessage
<1>1. ASSUME NEW w \in Workspaces, PostIn(w) PROVE CursorsInv' /\ held' = held
  <2> DEFINE new == [ws |-> w, ts |-> postClock + 1]
  <2>1. /\ allPosts' = allPosts \cup {new} /\ postClock' = postClock + 1
        /\ UNCHANGED <<shown, held, pulls, arg, expired, sweep, start, out, cursor>>
    BY <1>1 DEF PostIn
  <2>2. new \in PostedMessage /\ new.ts = postClock + 1
    BY <1>0 DEF PostedMessage
  <2> HIDE DEF new
  <2>3. Targets' = Targets
    BY <2>1 DEF Targets, Excluded
  <2>4. CursorsTypeOK'
    <3>1. \A m \in allPosts' : m.ts <= postClock'
      BY <1>0, <2>1, <2>2
    <3>2. allPosts' \subseteq PostedMessage /\ out' \in [Workspaces -> SUBSET allPosts']
      BY <2>1, <2>2 DEF CursorsTypeOK
    <3>3. shown' \subseteq allPosts'
      BY <2>1 DEF CursorsTypeOK
    <3>4. /\ arg' \in Workspaces \cup {"all", "none"}
          /\ sweep' \in [Workspaces ->
               {"idle", "no token", "sweeping", "empty", "full", "error"}]
          /\ \A v \in Workspaces : sweep'[v] # "idle" => arg' # "none" /\ v \in Targets'
      BY <2>1, <2>3 DEF CursorsTypeOK
    <3>5. /\ postClock' \in Nat /\ pulls' \in Nat /\ expired' \in BOOLEAN
          /\ held' \in [Workspaces -> Nat]
          /\ start' \in [Workspaces -> Nat] /\ cursor' \in [Workspaces -> Nat]
      BY <1>0, <2>1
    <3> QED
      BY <3>1, <3>2, <3>3, <3>4, <3>5 DEF CursorsTypeOK
  <2>5. TimesOK' /\ SweepOK'
    <3>1. ASSUME NEW v \in Workspaces
          PROVE  held[v] <= postClock' /\ (sweep[v] # "idle" => held[v] <= start[v] /\ start[v] <= postClock')
      <4>1. held[v] \in Nat /\ start[v] \in Nat
        BY <1>0
      <4> QED
        BY <1>0, <2>1, <4>1 DEF TimesOK
    <3> QED
      BY <2>1, <3>1 DEF TimesOK, SweepOK
  <2>6. CursorOK'
    BY <1>0, <2>1, <2>2 DEF CursorOK
  <2>7. NothingBehind'
    <3> SUFFICES ASSUME NEW m \in allPosts', m.ts <= held[m.ws] PROVE m \in shown
      BY <2>1 DEF NothingBehind
    <3>1. m.ws \in Workspaces
      BY <2>1, <2>2 DEF CursorsTypeOK, PostedMessage
    <3>2. held[m.ws] \in Nat /\ held[m.ws] <= postClock
      BY <1>0, <3>1 DEF TimesOK
    <3>3. m # new
      BY <1>0, <2>2, <3>2
    <3> QED
      BY <2>1, <3>3 DEF NothingBehind
  <2> QED
    BY <2>1, <2>4, <2>5, <2>6, <2>7
<1>2. ASSUME NEW w \in Workspaces, Start(w) PROVE CursorsInv' /\ held' = held
  <2> DEFINE now == IF w \in NoUserToken THEN "no token" ELSE "sweeping"
  <2>1. /\ sweep' = [sweep EXCEPT ![w] = now] /\ start' = [start EXCEPT ![w] = postClock]
        /\ UNCHANGED <<postClock, allPosts, shown, held, pulls, arg, expired, out, cursor>>
        /\ arg # "none" /\ w \in Targets /\ sweep[w] = "idle"
    BY <1>2 DEF Start
  <2>2. now \in {"no token", "sweeping"} /\ (now = "no token" <=> w \in NoUserToken)
    OBVIOUS
  <2> HIDE DEF now
  <2>3. Targets' = Targets
    BY <2>1 DEF Targets, Excluded
  <2>4. CursorsTypeOK'
    BY <1>0, <2>1, <2>2, <2>3 DEF CursorsTypeOK
  <2>5. sweep \in [Workspaces -> {"idle", "no token", "sweeping", "empty", "full", "error"}]
    BY DEF CursorsTypeOK
  <2>6. TimesOK'
    <3>1. ASSUME NEW v \in Workspaces, sweep'[v] # "idle"
          PROVE  held[v] <= start'[v] /\ start'[v] <= postClock
      <4>1. CASE v = w
        BY <1>0, <2>1, <4>1 DEF TimesOK
      <4>2. CASE v # w
        BY <1>0, <2>1, <2>5, <3>1, <4>2 DEF TimesOK
      <4> QED
        BY <4>1, <4>2
    <3> QED
      BY <2>1, <3>1 DEF TimesOK
  <2>7. SweepOK'
    BY <2>1, <2>2, <2>5 DEF SweepOK
  <2>8. CursorOK' /\ NothingBehind'
    BY <2>1, <2>2, <2>5 DEF CursorOK, NothingBehind
  <2> QED
    BY <2>1, <2>4, <2>6, <2>7, <2>8
<1>3. ASSUME NEW w \in Workspaces, Complete(w) PROVE CursorsInv' /\ held' = held
  BY <1>3, CompleteStep DEF Complete, Returns
<1>4. ASSUME NEW w \in Workspaces, Incomplete(w) \/ SweepErrs(w)
      PROVE  CursorsInv' /\ held' = held
  BY <1>4, CutStep DEF Incomplete, SweepErrs, Returns
<1>5. ASSUME NEW a \in Workspaces \cup {"all"}, Begin(a) PROVE CursorsInv' /\ held' = held
  <2>1. CursorsTypeOK'
    <3>1. \A w \in Workspaces : sweep'[w] = "idle"
      BY <1>5 DEF Begin, CursorsTypeOK
    <3>2. pulls' \in Nat
      BY <1>0, <1>5 DEF Begin
    <3>4. arg' \in Workspaces \cup {"all", "none"}
      BY <1>5 DEF Begin
    <3>5. expired' \in BOOLEAN
      BY <1>5 DEF Begin
    <3>3. UNCHANGED <<postClock, allPosts, shown, held, sweep, start, out, cursor>>
      BY <1>5 DEF Begin
    <3> QED
      BY <3>1, <3>2, <3>3, <3>4, <3>5 DEF CursorsTypeOK
  <2>2. TimesOK' /\ SweepOK' /\ CursorOK' /\ NothingBehind'
    BY <1>5 DEF Begin, TimesOK, SweepOK, CursorOK, NothingBehind
  <2> QED
    BY <1>5, <2>1, <2>2 DEF Begin
<1>6. CASE Deadline
  <2>1. CursorsTypeOK' /\ held' = held
    BY <1>6 DEF Deadline, CursorsTypeOK, Targets, Excluded
  <2>2. TimesOK' /\ SweepOK' /\ CursorOK' /\ NothingBehind'
    BY <1>6 DEF Deadline, TimesOK, SweepOK, CursorOK, NothingBehind
  <2> QED
    BY <2>1, <2>2
<1>7. CASE UNCHANGED cursorVars
  <2>1. CursorsTypeOK' /\ held' = held
    BY <1>7 DEF CursorsTypeOK, Targets, Excluded
  <2>2. TimesOK' /\ SweepOK' /\ CursorOK' /\ NothingBehind'
    BY <1>7 DEF TimesOK, SweepOK, CursorOK, NothingBehind
  <2> QED
    BY <2>1, <2>2
<1> QED
  BY <1>1, <1>2, <1>3, <1>4, <1>5, <1>6, <1>7, AnswerAllStep, AnswerOneStep
  DEF CursorsNext, Sweep

\* The invariant holds throughout when the labels survive the token.
LEMMA CursorsInvariant == CursorsSpec /\ PlainLabels => [](CursorsInv /\ PlainLabels)
<1>1. CursorsInv /\ PlainLabels /\ [CursorsNext]_cursorVars => (CursorsInv /\ PlainLabels)'
  BY CursorsStep DEF PlainLabels
<1> QED
  BY <1>1, CursorsInvInit, PTL DEF CursorsSpec

\* No message of any workspace falls behind the caller's cursor for it
\* without having been returned, through any mix of default and named
\* pulls, exclusions and failures (runUnreadSummary).
THEOREM NothingFallsBehind == CursorsSpec /\ PlainLabels => []NothingBehind
<1>1. CursorsInv => NothingBehind
  BY DEF CursorsInv
<1> QED
  BY <1>1, CursorsInvariant, PTL

\* A caller's cursor for a workspace never moves back and never past the
\* clock (runUnreadSummary, capCursor).
THEOREM CursorsOnlyAdvance == CursorsSpec /\ PlainLabels => CursorsMonotone
<1>1. CursorsInv /\ PlainLabels /\ [CursorsNext]_cursorVars =>
        [\A w \in Workspaces : held[w] <= held'[w] /\ held'[w] <= postClock]_held
  BY CursorsStep
<1> QED
  BY <1>1, CursorsInvariant, PTL DEF CursorsSpec, CursorsMonotone

-----------------------------------------------------------------------------
\* Each step is, for each workspace, a step of the abstract delivery, or
\* none.
LEMMA StepDelivers ==
    ASSUME PlainLabels, CursorsInv, [CursorsNext]_cursorVars, NEW w \in Workspaces
    PROVE  [Delivery(w)!Next]_(Delivery(w)!deliveryVars)
<1> USE DEF Delivery!Next, Delivery!deliveryVars
<1>1. /\ CursorsInv'
      /\ held' # held =>
           \A v \in Workspaces : held[v] <= held'[v] /\ held'[v] <= postClock
  BY CursorsStep
<1>2. /\ held[w] \in Nat /\ held'[w] \in Nat /\ postClock \in Nat /\ held[w] <= postClock
      /\ \A m \in allPosts : m.ts \in Nat /\ m.ts <= postClock
      /\ shown' \subseteq allPosts'
  BY <1>1 DEF CursorsInv, CursorsTypeOK, TimesOK, PostedMessage
<1>3. CASE UNCHANGED <<allPosts, shown, held>>
  BY <1>3 DEF Of
<1>4. ASSUME NEW v \in Workspaces, PostIn(v)
      PROVE  [Delivery(w)!Next]_(Delivery(w)!deliveryVars)
  <2> DEFINE m == [ws |-> v, ts |-> postClock + 1]
  <2>1. allPosts' = allPosts \cup {m} /\ shown' = shown /\ held' = held
    BY <1>4 DEF PostIn
  <2>2. m \notin allPosts
    BY <1>2
  <2>3. CASE v = w
    <3>1. Of(w)' = Of(w) \cup {m} /\ m \in Of(w)' \ Of(w) /\ m.ts > held[w]
      BY <1>2, <2>1, <2>2, <2>3 DEF Of
    <3> QED
      BY <2>1, <3>1 DEF Delivery!Arrive, Delivery!Settle
  <2>4. CASE v # w
    <3>1. Of(w)' = Of(w)
      BY <2>1, <2>4 DEF Of
    <3> QED
      BY <2>1, <3>1
  <2> QED
    BY <2>3, <2>4
<1>5. ASSUME AnswerAll \/ AnswerOne
      PROVE  Delivery(w)!Pull
  <2>1. allPosts' = allPosts /\ shown \subseteq shown'
    BY <1>5 DEF AnswerAll, AnswerOne, Answered
  <2>2. held[w] <= held'[w]
    BY <1>1, <1>2
  <2>3. \A m \in allPosts : m.ts <= held'[m.ws] => m \in shown'
    BY <1>1, <2>1 DEF CursorsInv, NothingBehind
  <2>4. Of(w)' = Of(w)
    BY <2>1 DEF Of
  <2>5. {m \in shown' : m.ws = w} \subseteq Of(w)
    BY <1>2, <2>1 DEF Of
  <2> QED
    BY <2>1, <2>2, <2>3, <2>4, <2>5 DEF Delivery!Pull, Of
<1>6. \/ UNCHANGED <<allPosts, shown, held>>
      \/ \E v \in Workspaces : PostIn(v)
      \/ AnswerAll \/ AnswerOne
  BY DEF CursorsNext, Sweep, Start, Complete, Incomplete, SweepErrs, Returns, Begin, Deadline
<1> QED
  BY <1>3, <1>4, <1>5, <1>6

\* Each workspace, seen alone, is delivered as the cursor promises
\* (runUnreadSummary).
THEOREM EveryWorkspaceDelivered == CursorsSpec /\ PlainLabels => Delivers
<1>1. CursorsInit => \A w \in Workspaces : Delivery(w)!Init
  BY DEF CursorsInit, Delivery!Init, Of
<1>2. CursorsInv /\ PlainLabels /\ [CursorsNext]_cursorVars
        => [\A w \in Workspaces : [Delivery(w)!Next]_(Delivery(w)!deliveryVars)]_cursorVars
  BY StepDelivers
<1> QED
  BY <1>1, <1>2, CursorsInvariant, PTL DEF CursorsSpec, Delivers
=============================================================================
