---------------------------- MODULE Reads_proofs ----------------------------
(***************************************************************************)
(* Theorems about what the server looks up: the workspace of a permalink,  *)
(* the person of a handle, the channel of a name, each about the           *)
(* specification of one module, for every value of its constants; and      *)
(* about MCReads, which composes these modules and those of the lists.     *)
(***************************************************************************)
EXTENDS MCReads, Listings_proofs, Answer_proofs

(***************************************************************************)
(* Permalinks.                                                             *)
(***************************************************************************)
\* The host is none of the workspaces the loop has passed, but for those that
\* could not say who they are.
PassedBy ==
    lookStep \in {"routing", "falling back"} =>
        \A i \in 1 .. position - 1 : RouteOrder[i] # host \/ RouteOrder[i] \in unanswered

\* A link without a name goes to its owner when the owner answered.
RoutedHome ==
    lookStep \in {"reading", "falling back"} /\ label = Elsewhere =>
        (host \in Routes \ unanswered => routed = host /\ host \in identified)

\* What has been asked, by how far the lookup is.
AskedSoFar ==
    /\ lookStep # "idle" => ended.how = "none"
    /\ lookStep \in {"routing", "falling back", "trying"} => label = Elsewhere
    /\ lookStep \in {"routing", "reading"} => asked = {}
    /\ lookStep = "reading" => position = 1 /\ (label # Elsewhere => routed = label)
    /\ lookStep = "falling back" => asked = {routed}
    /\ lookStep = "trying" =>
         /\ host \notin Routes \ unanswered
         /\ routed \in asked
         /\ \A i \in 1 .. position - 1 : RouteOrder[i] \in asked

RoutingInv ==
    RoutingTypeOK /\ PassedBy /\ RoutedHome /\ AskedSoFar /\ LinksAreFollowed

USE DEF routeVars, lookVars

\* The registry lists workspaces, and the one for links of others is none.
LEMMA Registry ==
    /\ Len(RouteOrder) \in Nat /\ Len(RouteOrder) > 0
    /\ \A i \in 1 .. Len(RouteOrder) : RouteOrder[i] \in Routes
    /\ \A w \in Routes : \E i \in 1 .. Len(RouteOrder) : RouteOrder[i] = w
    /\ Primary \in Routes /\ Elsewhere \notin Routes
<1>1. RouteOrder \in Seq(Routes) /\ Len(RouteOrder) > 0
  BY RoutingAssumption DEF Routes
<1>2. Len(RouteOrder) \in Nat /\ DOMAIN RouteOrder = 1 .. Len(RouteOrder)
  BY <1>1
<1> QED
  BY <1>1, <1>2, RoutingAssumption DEF Routes, Range, Primary

\* A loop begins inside the registry, with nothing behind it; a registry that
\* has no second entry is one workspace.
LEMMA Registers ==
    /\ 1 \in 1 .. Len(RouteOrder) + 1 /\ \A i \in 1 .. 1 - 1 : FALSE
    /\ ~ (Len(RouteOrder) > 1) => \A v, w \in Routes : v = w
<1> DEFINE n == Len(RouteOrder)
<1>1. n \in Nat /\ n > 0 /\ \A w \in Routes : \E i \in 1 .. n : RouteOrder[i] = w
  BY Registry
<1> HIDE DEF n
<1>2. 1 \in 1 .. n + 1 /\ (~ (n > 1) => 1 .. n = {1})
  BY <1>1
<1>3. ~ (n > 1) => \A v, w \in Routes : v = w
  BY <1>1, <1>2
<1> QED
  BY <1>2, <1>3 DEF n

\* A loop over the registry is at a workspace, or past all of them.
LEMMA InLoop ==
    ASSUME RoutingTypeOK
    PROVE  /\ ~ Beyond => Here \in Routes /\ position + 1 \in 1 .. Len(RouteOrder) + 1
           /\ \A i \in 1 .. (position + 1) - 1 : i = position \/ i \in 1 .. position - 1
           /\ Beyond => \A w \in Routes : \E i \in 1 .. position - 1 : RouteOrder[i] = w
<1> DEFINE n == Len(RouteOrder)
<1>1. n \in Nat /\ n > 0 /\ position \in 1 .. n + 1
  BY Registry DEF RoutingTypeOK
<1>2. /\ \A i \in 1 .. n : RouteOrder[i] \in Routes
      /\ \A w \in Routes : \E i \in 1 .. n : RouteOrder[i] = w
  BY Registry
<1>3. Beyond <=> position > n
  BY DEF Beyond
<1> HIDE DEF n
<1>4. (position + 1 \in 1 .. n + 1 /\ position \in 1 .. n) \/ position = n + 1
  BY <1>1
<1>5. \A i \in 1 .. (position + 1) - 1 : i = position \/ i \in 1 .. position - 1
  BY <1>1
<1>6. ~ Beyond => Here \in Routes /\ position + 1 \in 1 .. n + 1
  BY <1>1, <1>2, <1>3, <1>4 DEF Here
<1>7. Beyond => 1 .. position - 1 = 1 .. n
  BY <1>1, <1>3
<1>8. Beyond => \A w \in Routes : \E i \in 1 .. position - 1 : RouteOrder[i] = w
  BY <1>2, <1>7
<1> QED
  BY <1>5, <1>6, <1>8 DEF n

\* The first state satisfies the invariant.
LEMMA RoutingInvInit == RoutingInit => RoutingInv
BY Registry DEF RoutingInit, RoutingInv, RoutingTypeOK, PassedBy, RoutedHome, AskedSoFar,
                LinksAreFollowed, ReadWhereItLives, NotFoundIsThorough, Ends

\* Routing a link.
LEMMA RoutingKeeps ==
    ASSUME RoutingInv, RouteMatches \/ RouteDiffers \/ RouteUnknown \/ RouteToPrimary
    PROVE  RoutingInv'
<1> USE DEF RoutingInv
<1>1. lookStep = "routing" /\ label = Elsewhere /\ asked = {} /\ ended.how = "none"
  BY DEF AskedSoFar, RouteMatches, RouteDiffers, RouteUnknown, RouteToPrimary
<1>2. /\ ~ Beyond => Here \in Routes /\ position + 1 \in 1 .. Len(RouteOrder) + 1
      /\ \A i \in 1 .. (position + 1) - 1 : i = position \/ i \in 1 .. position - 1
      /\ Beyond => \A w \in Routes : \E i \in 1 .. position - 1 : RouteOrder[i] = w
  BY InLoop DEF RoutingInv
<1>3. LinksAreFollowed'
  <2>1. asked' = {} /\ ended' = ended
    BY <1>1 DEF RouteMatches, RouteDiffers, RouteUnknown, RouteToPrimary
  <2> QED
    BY <1>1, <2>1 DEF LinksAreFollowed, ReadWhereItLives, NotFoundIsThorough
<1>4. CASE RouteMatches
  <2>1. RoutingTypeOK'
    BY <1>2, <1>4, Registry DEF RoutingTypeOK, RouteMatches, Learn, Answers
  <2> QED
    BY <1>1, <1>2, <1>3, <1>4, <2>1 DEF RouteMatches, Learn, PassedBy, RoutedHome, AskedSoFar
<1>5. CASE RouteDiffers
  <2>1. RoutingTypeOK'
    BY <1>2, <1>5 DEF RoutingTypeOK, RouteDiffers, Learn, Answers
  <2>2. PassedBy'
    BY <1>2, <1>5 DEF RouteDiffers, PassedBy, Here
  <2> QED
    BY <1>1, <1>3, <1>5, <2>1, <2>2 DEF RouteDiffers, RoutedHome, AskedSoFar
<1>6. CASE RouteUnknown
  <2>1. RoutingTypeOK'
    BY <1>2, <1>6 DEF RoutingTypeOK, RouteUnknown
  <2>2. PassedBy'
    BY <1>2, <1>6 DEF RouteUnknown, PassedBy, Here
  <2> QED
    BY <1>1, <1>3, <1>6, <2>1, <2>2 DEF RouteUnknown, RoutedHome, AskedSoFar
<1>7. CASE RouteToPrimary
  <2>1. RoutingTypeOK'
    BY <1>7, Registry DEF RoutingTypeOK, RouteToPrimary
  <2>2. host \notin Routes \ unanswered
    BY <1>1, <1>2, <1>7 DEF RouteToPrimary, PassedBy
  <2> QED
    BY <1>1, <1>3, <1>7, <2>1, <2>2 DEF RouteToPrimary, PassedBy, RoutedHome, AskedSoFar
<1> QED
  BY <1>4, <1>5, <1>6, <1>7

\* Reading where the link was routed.
LEMMA ReadingKeeps == ASSUME RoutingInv, ReadRouted \/ NotFoundThere PROVE RoutingInv'
<1> USE DEF RoutingInv
<1>1. lookStep = "reading" /\ asked = {} /\ asked' = {routed} /\ ended.how = "none" /\ position = 1
  BY DEF ReadRouted, NotFoundThere, AskedSoFar, Finds, Breaks
<1>2. UNCHANGED <<identified, lookVars, routed, unanswered, position, lookups>>
  BY DEF ReadRouted, NotFoundThere
<1>3. ReadWhereItLives'
  BY <1>1, <1>2 DEF ReadWhereItLives, RoutedHome, AskedSoFar
<1>4. CASE ReadRouted
  <2>1. lookStep' = "idle" /\ ended' \in [how : {"found", "error"}, ws : Routes]
    BY <1>4 DEF ReadRouted, Finds, Breaks, End, RoutingTypeOK
  <2>2. RoutingTypeOK'
    BY <1>1, <1>2, <2>1 DEF RoutingTypeOK, Ends
  <2> QED
    BY <1>3, <2>1, <2>2 DEF PassedBy, RoutedHome, AskedSoFar, LinksAreFollowed, NotFoundIsThorough
<1>5. CASE NotFoundThere /\ MayFallBack
  <2>1. lookStep' = "falling back" /\ ended' = ended /\ label = Elsewhere
    BY <1>5 DEF NotFoundThere, MayFallBack
  <2>2. RoutingTypeOK'
    BY <1>1, <1>2, <2>1 DEF RoutingTypeOK
  <2>3. PassedBy'
    BY <1>1, <1>2, Registers DEF PassedBy
  <2>4. RoutedHome' /\ AskedSoFar'
    BY <1>1, <1>2, <2>1 DEF RoutedHome, AskedSoFar
  <2> QED
    BY <1>1, <1>3, <2>1, <2>2, <2>3, <2>4 DEF LinksAreFollowed, NotFoundIsThorough
<1>6. CASE NotFoundThere /\ ~ MayFallBack
  <2>1. lookStep' = "idle" /\ ended' = [how |-> "not found", ws |-> routed]
    BY <1>6 DEF NotFoundThere, End
  <2>2. label = Elsewhere => Routes = {routed}
    BY <1>6, Registers DEF MayFallBack, RoutingTypeOK
  <2>3. NotFoundIsThorough'
    BY <1>1, <1>2, <2>2 DEF NotFoundIsThorough
  <2>4. RoutingTypeOK'
    BY <1>1, <1>2, <2>1 DEF RoutingTypeOK, Ends
  <2> QED
    BY <1>3, <2>1, <2>3, <2>4 DEF PassedBy, RoutedHome, AskedSoFar, LinksAreFollowed
<1> QED
  BY <1>4, <1>5, <1>6

\* Asking again who is who, after a link was not found.
LEMMA FallingBackKeeps == ASSUME RoutingInv, HostIsOurs \/ HostIsNot \/ TryOthers PROVE RoutingInv'
<1> USE DEF RoutingInv
<1>1. /\ lookStep = "falling back" /\ asked = {routed} /\ asked' = asked
      /\ ended.how = "none" /\ label = Elsewhere
      /\ UNCHANGED <<lookVars, routed, unanswered, lookups>>
  BY DEF HostIsOurs, HostIsNot, TryOthers, AskedSoFar
<1>2. /\ ~ Beyond => Here \in Routes /\ position + 1 \in 1 .. Len(RouteOrder) + 1
      /\ \A i \in 1 .. (position + 1) - 1 : i = position \/ i \in 1 .. position - 1
      /\ Beyond => \A w \in Routes : \E i \in 1 .. position - 1 : RouteOrder[i] = w
  BY InLoop DEF RoutingInv
<1>3. ReadWhereItLives'
  BY <1>1 DEF ReadWhereItLives, RoutedHome
<1>4. CASE HostIsOurs
  <2>1. /\ identified' = identified \cup {host} /\ host \in Routes
        /\ lookStep' = "idle" /\ position' = position
        /\ ended' = [how |-> "not found", ws |-> routed]
    BY <1>2, <1>4 DEF HostIsOurs, Learn, End
  <2>2. identified' \subseteq Routes \ BotOnly
    BY <1>4, <2>1 DEF HostIsOurs, Answers, RoutingTypeOK
  <2>3. RoutingTypeOK'
    BY <1>1, <2>1, <2>2 DEF RoutingTypeOK, Ends
  <2>4. NotFoundIsThorough'
    BY <1>1, <2>1 DEF NotFoundIsThorough, RoutedHome
  <2> QED
    BY <1>3, <2>1, <2>3, <2>4 DEF PassedBy, RoutedHome, AskedSoFar, LinksAreFollowed
<1>5. CASE HostIsNot
  <2>1. /\ identified \subseteq identified' /\ position' = position + 1
        /\ UNCHANGED <<lookStep, ended>> /\ ~ Beyond
    BY <1>5 DEF HostIsNot, Learn
  <2>2. identified' \subseteq Routes \ BotOnly
    BY <1>2, <1>5 DEF HostIsNot, Learn, Answers, RoutingTypeOK
  <2>3. Here # host \/ Here \in unanswered
    BY <1>1, <1>2, <1>5 DEF HostIsNot, Silent, RoutedHome
  <2>4. PassedBy'
    BY <1>1, <1>2, <2>1, <2>3 DEF PassedBy, Here
  <2>5. RoutingTypeOK'
    BY <1>1, <1>2, <2>1, <2>2 DEF RoutingTypeOK
  <2> QED
    BY <1>1, <1>3, <2>1, <2>4, <2>5 DEF RoutedHome, AskedSoFar, LinksAreFollowed, NotFoundIsThorough
<1>6. CASE TryOthers
  <2>1. host \notin Routes \ unanswered
    BY <1>1, <1>2, <1>6 DEF TryOthers, PassedBy
  <2>2. lookStep' = "trying" /\ position' = 1 /\ UNCHANGED <<identified, ended>>
    BY <1>6 DEF TryOthers
  <2>3. RoutingTypeOK'
    BY <1>1, <2>2, Registers DEF RoutingTypeOK
  <2>4. AskedSoFar'
    BY <1>1, <2>1, <2>2, Registers DEF AskedSoFar
  <2> QED
    BY <1>1, <1>3, <2>2, <2>3, <2>4 DEF PassedBy, RoutedHome, LinksAreFollowed, NotFoundIsThorough
<1> QED
  BY <1>4, <1>5, <1>6

\* A lookup that finds or breaks did not miss.
LEMMA EndsWell ==
    ASSUME NEW w \in Routes, NEW e \in {[how |-> "found", ws |-> w], [how |-> "error", ws |-> w]}
    PROVE  e \in [how : Ends, ws : Routes] /\ e.how # "not found"
<1>1. "found" \in Ends /\ "error" \in Ends
  BY DEF Ends
<1>2. CASE e = [how |-> "found", ws |-> w]
  BY <1>1, <1>2
<1>3. CASE e = [how |-> "error", ws |-> w]
  BY <1>1, <1>3
<1> QED
  BY <1>2, <1>3

\* Trying the others in turn.
LEMMA TryingKeeps == ASSUME RoutingInv, SkipTried \/ TryNext \/ GiveUp PROVE RoutingInv'
<1> USE DEF RoutingInv
<1>1. /\ lookStep = "trying" /\ label = Elsewhere /\ host \notin Routes \ unanswered
      /\ routed \in asked /\ ended.how = "none"
      /\ UNCHANGED <<lookVars, identified, routed, unanswered, lookups>>
  BY DEF SkipTried, TryNext, GiveUp, AskedSoFar
<1>2. /\ ~ Beyond => Here \in Routes /\ position + 1 \in 1 .. Len(RouteOrder) + 1
      /\ \A i \in 1 .. (position + 1) - 1 : i = position \/ i \in 1 .. position - 1
      /\ Beyond => \A w \in Routes : \E i \in 1 .. position - 1 : RouteOrder[i] = w
  BY InLoop DEF RoutingInv
<1>3. ReadWhereItLives' /\ \A i \in 1 .. position - 1 : RouteOrder[i] \in asked
  BY <1>1 DEF ReadWhereItLives, AskedSoFar
<1>4. ASSUME position' = position + 1, ~ Beyond, asked' = asked \cup {Here}, UNCHANGED <<lookStep, ended>>
      PROVE  RoutingInv'
  <2>1. RoutingTypeOK'
    BY <1>1, <1>2, <1>4 DEF RoutingTypeOK
  <2>2. AskedSoFar'
    BY <1>1, <1>2, <1>3, <1>4 DEF AskedSoFar, Here
  <2> QED
    BY <1>1, <1>3, <1>4, <2>1, <2>2 DEF PassedBy, RoutedHome, LinksAreFollowed, NotFoundIsThorough
<1>5. CASE SkipTried
  <2>1. Here \in asked
    BY <1>1, <1>5 DEF SkipTried, Candidate
  <2> QED
    BY <1>4, <1>5, <2>1 DEF SkipTried
<1>6. CASE TryNext
  <2>1. ~ Beyond /\ asked' = asked \cup {Here}
    BY <1>6 DEF TryNext, Finds, Breaks
  <2>2. CASE lookStep' = "idle" /\ ended' \in {[how |-> "found", ws |-> Here], [how |-> "error", ws |-> Here]}
             /\ position' = position
    <3>1. ended' \in [how : Ends, ws : Routes] /\ ended'.how # "not found" /\ asked' \subseteq Routes
      <4>1. Here \in Routes /\ asked' \subseteq Routes
        BY <1>2, <2>1 DEF RoutingTypeOK
      <4> QED
        BY <2>2, <4>1, EndsWell
    <3>2. RoutingTypeOK'
      BY <1>1, <2>2, <3>1 DEF RoutingTypeOK
    <3> QED
      BY <1>3, <2>2, <3>1, <3>2 DEF PassedBy, RoutedHome, AskedSoFar, LinksAreFollowed, NotFoundIsThorough
  <2>3. CASE UNCHANGED <<lookStep, ended>> /\ position' = position + 1
    BY <1>4, <2>1, <2>3
  <2> QED
    BY <1>6, <2>2, <2>3 DEF TryNext, Finds, Breaks, End
<1>7. CASE GiveUp
  <2>1. Routes = asked
    BY <1>2, <1>3, <1>7 DEF GiveUp, RoutingTypeOK
  <2>2. lookStep' = "idle" /\ ended' = [how |-> "not found", ws |-> routed] /\ UNCHANGED <<asked, position>>
    BY <1>7 DEF GiveUp, End
  <2>3. NotFoundIsThorough'
    BY <2>1, <2>2 DEF NotFoundIsThorough
  <2>4. RoutingTypeOK'
    BY <1>1, <2>2 DEF RoutingTypeOK, Ends
  <2> QED
    BY <1>3, <2>2, <2>3, <2>4 DEF PassedBy, RoutedHome, AskedSoFar, LinksAreFollowed
<1> QED
  BY <1>5, <1>6, <1>7

\* Every action keeps the invariant.
LEMMA RoutingStep == RoutingInv /\ [RoutingNext]_routeVars => RoutingInv'
<1> SUFFICES ASSUME RoutingInv, [RoutingNext]_routeVars PROVE RoutingInv'
  OBVIOUS
<1>1. ASSUME NEW h \in Routes \cup {Elsewhere}, NEW l \in Routes \cup {Elsewhere},
             NEW seen \in SUBSET Routes, Look(h, l, seen)
      PROVE  RoutingInv'
  <2>1. RoutingTypeOK'
    <3>1. routed' \in Routes /\ label' = l /\ host' = h /\ visible' = seen
      BY <1>1, Registry DEF Look, ScopedTo
    <3>2. position' \in 1 .. Len(RouteOrder) + 1 /\ lookups' \in Nat /\ identified' = identified
      BY <1>1, Registry DEF Look, RoutingInv, RoutingTypeOK
    <3>3. ended' = [how |-> "none", ws |-> Primary] /\ asked' = {} /\ unanswered' = {}
          /\ lookStep' \in {"routing", "reading"}
      BY <1>1 DEF Look
    <3> QED
      BY <3>1, <3>2, <3>3, Registry DEF RoutingInv, RoutingTypeOK, Ends
  <2>2. lookStep' \in {"routing", "reading"} /\ asked' = {} /\ ended'.how = "none" /\ position' = 1
    BY <1>1 DEF Look
  <2>3. (lookStep' = "routing" => l = Elsewhere) /\ (lookStep' = "reading" => l # Elsewhere /\ routed' = l) /\ label' = l
    BY <1>1 DEF Look, ScopedTo
  <2>4. PassedBy'
    <3>1. \A i \in 1 .. position' - 1 : FALSE
      BY <2>2
    <3> QED
      BY <3>1 DEF PassedBy
  <2>7. RoutedHome'
    BY <2>2, <2>3 DEF RoutedHome
  <2>5. AskedSoFar'
    BY <2>2, <2>3 DEF AskedSoFar
  <2>6. LinksAreFollowed'
    BY <2>2 DEF LinksAreFollowed, ReadWhereItLives, NotFoundIsThorough
  <2> QED
    BY <2>1, <2>4, <2>5, <2>6, <2>7 DEF RoutingInv
<1>2. CASE UNCHANGED routeVars
  BY <1>2 DEF RoutingInv, RoutingTypeOK, PassedBy, RoutedHome, AskedSoFar, LinksAreFollowed,
              ReadWhereItLives, NotFoundIsThorough
<1> QED
  BY <1>1, <1>2, RoutingKeeps, ReadingKeeps, FallingBackKeeps, TryingKeeps DEF RoutingNext

\* A permalink is read where it lives, and said not to be found only after its
\* owner, or else everybody, was asked (message.go, hub.go).
THEOREM LinksFollowed == RoutingSpec => []LinksAreFollowed
<1>1. RoutingInv => LinksAreFollowed
  BY DEF RoutingInv
<1> QED
  BY <1>1, RoutingInvInit, RoutingStep, PTL DEF RoutingSpec

-----------------------------------------------------------------------------
(***************************************************************************)
(* Handles.                                                                *)
(***************************************************************************)
\* Nobody shares a handle, and the peers are asked only when nobody in the
\* workspace bears it.
HandlesInv ==
    /\ HandlesTypeOK
    /\ handleOf \in [User -> HandleText]
    /\ \A u, v \in User : handleOf[u] = handleOf[v] => u = v
    /\ looking # "idle" => opened = NobodyFound
    /\ looking = "roster" => external = {}
    /\ looking = "peers" => \A u \in roster : handleOf[u] # handle
    /\ TheHandleItself

USE DEF handleVars, directory

\* Whoever matches is among those looked through, and bears the handle if any
\* of them does.
LEMMA HandleBeforeName ==
    ASSUME NEW us, NEW h, NEW u \in MatchHandle(us, h)
    PROVE  u \in us /\ ((\E v \in us : handleOf[v] = h) => handleOf[u] = h)
BY DEF MatchHandle

\* Every action keeps the invariant.
LEMMA HandlesStep == HandlesInv /\ [HandlesNext]_handleVars => HandlesInv'
<1> SUFFICES ASSUME HandlesInv, [HandlesNext]_handleVars PROVE HandlesInv'
  OBVIOUS
<1> USE DEF HandlesInv, HandlesTypeOK
<1>1. ASSUME NEW h \in HandleText, LookForHandle(h) PROVE HandlesInv'
  BY <1>1 DEF LookForHandle, TheHandleItself
<1>2. CASE MatchRoster
  <2>1. ASSUME opened' \in MatchHandle(roster, handle), looking' = "idle" PROVE HandlesInv'
    <3>1. opened' \in roster /\ ((\E v \in roster : handleOf[v] = handle) => handleOf[opened'] = handle)
      BY <2>1, HandleBeforeName
    <3>2. UNCHANGED <<directory, handle, external, checked>> /\ external = {}
      BY <1>2 DEF MatchRoster
    <3>3. TheHandleItself'
      BY <3>1, <3>2 DEF TheHandleItself
    <3> QED
      BY <2>1, <3>1, <3>2, <3>3
  <2>2. CASE MatchHandle(roster, handle) = {} /\ looking' = "peers" /\ UNCHANGED opened
    <3>1. \A u \in roster : handleOf[u] # handle
      BY <2>2 DEF MatchHandle
    <3> QED
      BY <1>2, <2>2, <3>1 DEF MatchRoster, TheHandleItself
  <2> QED
    BY <1>2, <2>1, <2>2 DEF MatchRoster
<1>3. CASE LookUpFails
  BY <1>3 DEF LookUpFails, TheHandleItself
<1>4. ASSUME NEW u \in User, AskPeer(u) PROVE HandlesInv'
  BY <1>4 DEF AskPeer, TheHandleItself
<1>5. CASE MatchPeers
  <2>1. UNCHANGED <<directory, handle, external, checked>> /\ looking' = "idle"
        /\ \A u \in roster : handleOf[u] # handle
    BY <1>5 DEF MatchPeers
  <2>2. CASE opened' = NobodyFound
    BY <2>1, <2>2 DEF TheHandleItself
  <2>3. CASE opened' \in MatchHandle(external, handle)
    <3>1. opened' \in external /\ ((\E v \in external : handleOf[v] = handle) => handleOf[opened'] = handle)
      BY <2>3, HandleBeforeName
    <3>2. TheHandleItself'
      BY <2>1, <3>1 DEF TheHandleItself
    <3> QED
      BY <2>1, <3>1, <3>2
  <2> QED
    BY <1>5, <2>2, <2>3 DEF MatchPeers
<1>6. CASE UNCHANGED handleVars
  BY <1>6 DEF TheHandleItself
<1> QED
  BY <1>1, <1>2, <1>3, <1>4, <1>5, <1>6 DEF HandlesNext

\* A handle opens no conversation with somebody whose display name is that
\* handle while its bearer, of the workspace or external, was there to be found
\* (users.go, IDForHandle and matchHandle).
THEOREM HandlesAreTheirBearers == HandlesSpec => []TheHandleItself
<1>1. HandlesInit => HandlesInv
  BY DEF HandlesInit, HandlesInv, HandlesTypeOK, TheHandleItself
<1>2. HandlesInv => TheHandleItself
  BY DEF HandlesInv
<1> QED
  BY <1>1, <1>2, HandlesStep, PTL DEF HandlesSpec

-----------------------------------------------------------------------------
(***************************************************************************)
(* Channel names.                                                          *)
(***************************************************************************)
\* The page after a channel is not empty as long as one is left, and skips none.
LEMMA PageSkipsNone ==
    ASSUME NEW x \in Nat, NEW c \in Chan \ archived, c > x
    PROVE  /\ PageAfter(x) # {}
           /\ \A d \in PageAfter(x) : c < d => c \in PageAfter(x)
<1> DEFINE S == {d \in Chan \ archived : d > x}
           Between(d) == {e \in Chan \ archived : x < e /\ e < d}
<1>1. IsFiniteSet(Chan \ archived) /\ Chan \subseteq Nat
  BY ChannelNamesAssumption, FS_Subset
<1>2. PICK m \in S : \A l \in S : m <= l
  <2>1. S \in SUBSET Nat /\ S # {} /\ IsFiniteSet(S)
    BY <1>1, FS_Subset
  <2> QED
    BY <2>1, Smallest
<1>3. m \in PageAfter(x)
  <2>1. ASSUME NEW e \in Between(m) PROVE FALSE
    <3>1. e \in S /\ e < m /\ e \in Nat /\ m \in Nat
      BY <1>1
    <3> QED
      BY <1>2, <3>1
  <2>2. Cardinality(Between(m)) = 0
    BY <2>1, FS_EmptySet
  <2> QED
    BY <1>2, <2>2, ChannelNamesAssumption DEF PageAfter
<1>4. ASSUME NEW d \in PageAfter(x), c < d PROVE c \in PageAfter(x)
  <2>0. c \in Nat /\ d \in Nat /\ \A e \in Chan \ archived : e \in Nat
    BY <1>1 DEF PageAfter
  <2>1. Between(c) \subseteq Between(d) /\ IsFiniteSet(Between(d))
    <3>1. \A e \in Between(c) : e \in Between(d)
      BY <1>4, <2>0
    <3>2. Between(d) \subseteq Chan \ archived
      OBVIOUS
    <3> QED
      BY <1>1, <3>1, <3>2, FS_Subset
  <2>2. Cardinality(Between(c)) <= Cardinality(Between(d)) /\ Cardinality(Between(d)) < ChanPage
    BY <2>1, FS_Subset, <1>4 DEF PageAfter
  <2>3. Cardinality(Between(c)) \in Nat /\ Cardinality(Between(d)) \in Nat
    BY <2>1, FS_Subset, FS_CardinalityType
  <2>4. Cardinality(Between(c)) < ChanPage
    BY <2>2, <2>3, ChannelNamesAssumption
  <2> QED
    BY <2>4 DEF PageAfter
<1> QED
  BY <1>3, <1>4

\* A channel after the cursor is on the page, or after the next cursor.
LEMMA PageOrLater ==
    ASSUME NEW x \in Nat, NEW c \in Chan \ archived, c > x
    PROVE  \/ c \in PageAfter(x)
           \/ CursorAfter(PageAfter(x)) # 0 /\ c > CursorAfter(PageAfter(x))
<1> SUFFICES ASSUME c \notin PageAfter(x)
             PROVE  CursorAfter(PageAfter(x)) # 0 /\ c > CursorAfter(PageAfter(x))
  OBVIOUS
<1> DEFINE page == PageAfter(x)
           last == CHOOSE k \in page : \A d \in page : d <= k
<1>1. page \in SUBSET Nat /\ IsFiniteSet(page) /\ page # {} /\ page \subseteq Chan
  BY ChannelNamesAssumption, PageSkipsNone, FS_Subset DEF PageAfter
<1>2. last \in page
  BY <1>1, Largest
<1>3. c > last /\ last \in Nat /\ last # 0
  <2> HIDE DEF last
  <2>1. last \in Nat /\ c \in Nat /\ last # 0 /\ c # last
    BY <1>1, <1>2, ChannelNamesAssumption
  <2>2. ~ (c < last)
    BY <1>2, PageSkipsNone
  <2> QED
    BY <2>1, <2>2
<1>4. PageAfter(last) # {}
  BY <1>3, PageSkipsNone
<1>5. CursorAfter(page) = last
  BY <1>1, <1>4 DEF CursorAfter
<1> QED
  BY <1>3, <1>5

\* A walk under way has its steady channels on the page it read, or before it.
StillAhead ==
    \A r \in Resolver :
        /\ step[r] = "idle" => seenTo[r] = 0
        /\ step[r] # "idle" =>
             /\ \A c \in steady[r] : c \notin archived /\ nameOf[c] = wanted[r]
             /\ purpose[r] = "list" => steady[r] = {}
             /\ purpose[r] # "list" => wanted[r] \in ChanName
        /\ step[r] = "walk" => \A c \in steady[r] : c > seenTo[r]
        /\ step[r] = "record" =>
             \A c \in steady[r] : <<c, wanted[r]>> \in pageOf[r] \/ (seenTo[r] # 0 /\ c > seenTo[r])

NamesInv == NamesTypeOK /\ StillAhead /\ NamesAreFound

USE DEF nameVars, slackN, callN

\* The first state satisfies the invariant.
LEMMA NamesInvInit == NamesInit => NamesInv
BY DEF NamesInit, NamesInv, NamesTypeOK, StillAhead, NamesAreFound, NotFoundIsAbsent, ArchivedStaysReachable

\* What changes in Slack only takes steady channels away.
LEMMA SlackChanges ==
    ASSUME NamesInv, StillSteady(nameOf', archived'),
           nameOf' \in [Chan -> ChanName \cup {OtherName}], archived' \subseteq Chan,
           UNCHANGED <<cache, step, purpose, wanted, seenTo, pageOf, absent, hidden>>
    PROVE  NamesInv'
<1>1. \A r \in Resolver : steady'[r] = {c \in steady[r] : nameOf'[c] = wanted[r] /\ c \notin archived'}
  BY DEF StillSteady
<1>2. NamesTypeOK'
  BY <1>1 DEF NamesInv, NamesTypeOK, StillSteady
<1>3. StillAhead'
  BY <1>1 DEF NamesInv, StillAhead
<1>4. NamesAreFound'
  BY <1>1 DEF NamesInv, NamesAreFound, NotFoundIsAbsent, ArchivedStaysReachable
<1> QED
  BY <1>2, <1>3, <1>4 DEF NamesInv

\* A call that acts on the channel it resolved, under a name the cache holds.
LEMMA ActKeeps ==
    ASSUME NamesInv, NEW r \in Resolver, NEW c \in Chan, NEW p \in {"archive", "unarchive", "list"},
           NEW n \in ChanName, ActOn(r, c, p, n), Rest(r, TRUE),
           cache' \in [ChanName -> Chan \cup {0}], cache'[n] # 0,
           \A k \in ChanName : cache[k] # 0 => cache'[k] # 0
    PROVE  NamesInv'
<1>1. archived' \subseteq Chan /\ nameOf' = nameOf
  BY DEF ActOn, NamesInv, NamesTypeOK
<1>2. hidden' \subseteq hidden \cup {n}
  BY DEF ActOn
<1>3. \A q \in Resolver : steady'[q] = IF q = r THEN {} ELSE steady[q] \ archived'
  BY DEF ActOn
<1>4. steady' \in [Resolver -> SUBSET Chan]
  BY DEF ActOn, NamesInv, NamesTypeOK
<1>5. NamesTypeOK'
  BY <1>1, <1>2, <1>4 DEF Rest, NamesInv, NamesTypeOK
<1>6. /\ step'[r] = "idle" /\ seenTo'[r] = 0 /\ absent'[r] = FALSE
      /\ \A q \in Resolver \ {r} : /\ step'[q] = step[q] /\ seenTo'[q] = seenTo[q] /\ absent'[q] = absent[q]
                                  /\ purpose'[q] = purpose[q] /\ wanted'[q] = wanted[q] /\ pageOf'[q] = pageOf[q]
  BY DEF Rest, NamesInv, NamesTypeOK
<1>7. StillAhead'
  <2>1. ASSUME NEW q \in Resolver \ {r}
        PROVE  steady'[q] \subseteq steady[q] /\ \A d \in steady'[q] : d \notin archived'
    BY <1>3
  <2> QED
    BY <1>1, <1>3, <1>6, <2>1 DEF NamesInv, StillAhead
<1>8. NamesAreFound'
  BY <1>2, <1>3, <1>6 DEF NamesInv, NamesTypeOK, NamesAreFound, NotFoundIsAbsent, ArchivedStaysReachable
<1> QED
  BY <1>5, <1>7, <1>8 DEF NamesInv

\* The cache forgets no name.
LEMMA RecordedKeeps ==
    ASSUME NamesInv, NEW r \in Resolver
    PROVE  /\ Recorded(r) \in [ChanName -> Chan \cup {0}]
           /\ \A n \in ChanName : cache[n] # 0 => Recorded(r)[n] # 0
           /\ \A n \in ChanName : (\E e \in pageOf[r] : e[2] = n) => Recorded(r)[n] # 0
<1>1. pageOf[r] \subseteq Chan \X ChanName /\ cache \in [ChanName -> Chan \cup {0}] /\ 0 \notin Chan
  BY ChannelNamesAssumption DEF NamesInv, NamesTypeOK
<1>2. ASSUME NEW n \in ChanName, \E e \in pageOf[r] : e[2] = n
      PROVE  (CHOOSE e \in pageOf[r] : e[2] = n)[1] \in Chan
  <2>1. (CHOOSE e \in pageOf[r] : e[2] = n) \in pageOf[r]
    BY <1>2
  <2> QED
    BY <1>1, <2>1
<1> QED
  BY <1>1, <1>2 DEF Recorded

\* A steady channel that is not hit on the page is after the cursor.
LEMMA OnThePage ==
    ASSUME NamesInv, NEW r \in Resolver, step[r] = "record",
           {e \in pageOf[r] : e[2] = wanted[r] /\ purpose[r] # "list"} = {}
    PROVE  \A c \in steady[r] : seenTo[r] # 0 /\ c > seenTo[r]
<1> SUFFICES ASSUME NEW c \in steady[r] PROVE seenTo[r] # 0 /\ c > seenTo[r]
  OBVIOUS
<1>1. /\ purpose[r] # "list"
      /\ <<c, wanted[r]>> \in pageOf[r] \/ (seenTo[r] # 0 /\ c > seenTo[r])
  BY DEF NamesInv, StillAhead
<1>2. <<c, wanted[r]>> \notin pageOf[r]
  <2>1. <<c, wanted[r]>>[2] = wanted[r]
    OBVIOUS
  <2> QED
    BY <1>1, <2>1
<1> QED
  BY <1>1, <1>2

\* Recording a page, which may end the walk.
LEMMA RecordKeeps == ASSUME NamesInv, NEW r \in Resolver, RecordPage(r) PROVE NamesInv'
<1> DEFINE hit == {e \in pageOf[r] : e[2] = wanted[r] /\ purpose[r] # "list"}
<1>1. step[r] = "record" /\ cache' = Recorded(r)
  BY DEF RecordPage
<1>2. CASE \E e \in hit : ActOn(r, e[1], purpose[r], wanted[r]) /\ Rest(r, TRUE)
  <2>1. PICK e \in hit : ActOn(r, e[1], purpose[r], wanted[r]) /\ Rest(r, TRUE)
    BY <1>2
  <2>2. e[1] \in Chan /\ wanted[r] \in ChanName /\ purpose[r] \in {"archive", "unarchive", "list"}
        /\ e \in pageOf[r] /\ e[2] = wanted[r]
    BY DEF NamesInv, NamesTypeOK
  <2> QED
    BY <1>1, <2>1, <2>2, RecordedKeeps, ActKeeps
<1>3. CASE /\ hit = {} /\ seenTo[r] # 0
           /\ step' = [step EXCEPT ![r] = "walk"]
           /\ pageOf' = [pageOf EXCEPT ![r] = {}]
           /\ UNCHANGED <<slackN, purpose, wanted, seenTo, steady, absent, hidden>>
  <2>1. NamesTypeOK'
    BY <1>1, <1>3, RecordedKeeps DEF NamesInv, NamesTypeOK
  <2>2. \A c \in steady[r] : c > seenTo[r]
    BY <1>1, <1>3, OnThePage
  <2>3. StillAhead'
    BY <1>1, <1>3, <2>2 DEF NamesInv, NamesTypeOK, StillAhead
  <2>4. NamesAreFound'
    BY <1>1, <1>3, RecordedKeeps DEF NamesInv, NamesTypeOK, NamesAreFound, NotFoundIsAbsent, ArchivedStaysReachable
  <2> QED
    BY <2>1, <2>3, <2>4 DEF NamesInv
<1>4. CASE /\ hit = {} /\ seenTo[r] = 0
           /\ Rest(r, purpose[r] = "list")
           /\ UNCHANGED <<slackN, steady, hidden>>
  <2>1. NamesTypeOK'
    BY <1>1, <1>4, RecordedKeeps DEF Rest, NamesInv, NamesTypeOK
  <2>2. steady[r] = {}
    BY <1>1, <1>4, OnThePage
  <2>3. /\ step'[r] = "idle" /\ seenTo'[r] = 0
        /\ \A q \in Resolver \ {r} : /\ step'[q] = step[q] /\ seenTo'[q] = seenTo[q] /\ absent'[q] = absent[q]
                                    /\ purpose'[q] = purpose[q] /\ wanted'[q] = wanted[q] /\ pageOf'[q] = pageOf[q]
    BY <1>4 DEF Rest, NamesInv, NamesTypeOK
  <2>4. StillAhead'
    BY <1>4, <2>3 DEF NamesInv, StillAhead
  <2>5. NamesAreFound'
    BY <1>1, <1>4, <2>2, <2>3, RecordedKeeps DEF NamesInv, NamesTypeOK, NamesAreFound, NotFoundIsAbsent, ArchivedStaysReachable
  <2> QED
    BY <2>1, <2>4, <2>5 DEF NamesInv
<1> QED
  BY <1>2, <1>3, <1>4 DEF RecordPage

\* Reading a page.
LEMMA ReadPageKeeps == ASSUME NamesInv, NEW r \in Resolver, ReadPage(r) PROVE NamesInv'
<1> DEFINE page == PageAfter(seenTo[r])
<1>1. /\ step[r] = "walk" /\ step' = [step EXCEPT ![r] = "record"]
      /\ pageOf' = [pageOf EXCEPT ![r] = {<<c, nameOf[c]>> : c \in {d \in page : nameOf[d] # OtherName}}]
      /\ seenTo' = [seenTo EXCEPT ![r] = CursorAfter(page)]
      /\ UNCHANGED <<slackN, cache, purpose, wanted, steady, absent, hidden>>
  BY DEF ReadPage
<1>2. page \subseteq Chan \ archived /\ seenTo[r] \in Nat
  <2>1. seenTo[r] \in Chan \cup {0} /\ \A x \in Chan \cup {0} : x \in Nat
    BY ChannelNamesAssumption DEF NamesInv, NamesTypeOK
  <2>2. seenTo[r] \in Nat
    BY <2>1
  <2> QED
    BY <2>2 DEF PageAfter
<1>3. CursorAfter(page) \in Chan \cup {0}
  <2>1. CASE page = {}
    BY <2>1 DEF CursorAfter
  <2>2. CASE page # {}
    <3>1. page \in SUBSET Nat /\ IsFiniteSet(page)
      BY <1>2, ChannelNamesAssumption, FS_Subset
    <3>2. (CHOOSE k \in page : \A d \in page : d <= k) \in page
      BY <2>2, <3>1, Largest
    <3> QED
      BY <1>2, <2>2, <3>2 DEF CursorAfter
  <2> QED
    BY <2>1, <2>2
<1>4. {<<c, nameOf[c]>> : c \in {d \in page : nameOf[d] # OtherName}} \subseteq Chan \X ChanName
  BY <1>2 DEF NamesInv, NamesTypeOK
<1>5. NamesTypeOK'
  BY <1>1, <1>3, <1>4 DEF NamesInv, NamesTypeOK
<1>6. ASSUME NEW c \in steady[r]
      PROVE  <<c, wanted[r]>> \in pageOf'[r] \/ (seenTo'[r] # 0 /\ c > seenTo'[r])
  <2>1. c \in Chan \ archived /\ c > seenTo[r] /\ nameOf[c] = wanted[r] /\ wanted[r] # OtherName
    BY <1>1, ChannelNamesAssumption DEF NamesInv, NamesTypeOK, StillAhead
  <2>2. pageOf'[r] = {<<d, nameOf[d]>> : d \in {k \in page : nameOf[k] # OtherName}} /\ seenTo'[r] = CursorAfter(page)
    BY <1>1 DEF NamesInv, NamesTypeOK
  <2> QED
    BY <1>2, <2>1, <2>2, PageOrLater
<1>7. StillAhead'
  BY <1>1, <1>6 DEF NamesInv, NamesTypeOK, StillAhead
<1>8. NamesAreFound'
  BY <1>1 DEF NamesInv, NamesAreFound, NotFoundIsAbsent, ArchivedStaysReachable
<1> QED
  BY <1>5, <1>7, <1>8 DEF NamesInv

\* Every action keeps the invariant.
LEMMA NamesStep == NamesInv /\ [NamesNext]_nameVars => NamesInv'
<1> SUFFICES ASSUME NamesInv, [NamesNext]_nameVars PROVE NamesInv'
  OBVIOUS
<1>1. ASSUME NEW c \in Chan, OthersArchive(c) PROVE NamesInv'
  <2>1. archived' \subseteq Chan /\ nameOf' = nameOf /\ nameOf \in [Chan -> ChanName \cup {OtherName}]
    BY <1>1 DEF OthersArchive, NamesInv, NamesTypeOK
  <2>2. StillSteady(nameOf', archived')
    BY <1>1 DEF OthersArchive, StillSteady
  <2> QED
    BY <1>1, <2>1, <2>2, SlackChanges DEF OthersArchive
<1>2. ASSUME NEW c \in Chan, NEW n \in ChanName \cup {OtherName}, RenameChannel(c, n) PROVE NamesInv'
  <2>1. archived' = archived /\ archived \subseteq Chan /\ nameOf' \in [Chan -> ChanName \cup {OtherName}]
    BY <1>2 DEF RenameChannel, NamesInv, NamesTypeOK
  <2>2. StillSteady(nameOf', archived')
    BY <1>2 DEF RenameChannel, StillSteady
  <2> QED
    BY <1>2, <2>1, <2>2, SlackChanges DEF RenameChannel
<1>3. ASSUME NEW c \in Chan, LookUpChannel(c) PROVE NamesInv'
  <2>1. cache' \in [ChanName -> Chan \cup {0}] /\ \A n \in ChanName : cache[n] # 0 => cache'[n] # 0
    BY <1>3, ChannelNamesAssumption DEF LookUpChannel, NamesInv, NamesTypeOK
  <2> QED
    BY <1>3, <2>1 DEF LookUpChannel, NamesInv, NamesTypeOK, StillAhead, NamesAreFound, NotFoundIsAbsent, ArchivedStaysReachable
<1>4. ASSUME NEW r \in Resolver, NEW p \in {"archive", "unarchive"}, NEW n \in ChanName, ResolveCached(r, p, n)
      PROVE  NamesInv'
  <2>1. cache[n] \in Chan /\ cache' = cache /\ cache \in [ChanName -> Chan \cup {0}]
    BY <1>4 DEF ResolveCached, NamesInv, NamesTypeOK
  <2> QED
    BY <1>4, <2>1, ActKeeps DEF ResolveCached
<1>5. ASSUME NEW r \in Resolver, NEW p \in {"archive", "unarchive", "list"}, NEW n \in ChanName \cup {OtherName},
             p = "list" \/ n \in ChanName, StartWalk(r, p, n)
      PROVE  NamesInv'
  <2>1. NamesTypeOK'
    BY <1>5 DEF StartWalk, Active, NamesInv, NamesTypeOK
  <2>2. /\ step[r] = "idle" /\ step'[r] = "walk" /\ purpose'[r] = p /\ wanted'[r] = n /\ absent'[r] = FALSE
        /\ steady'[r] = IF p = "list" THEN {} ELSE Active(n)
        /\ \A q \in Resolver \ {r} : /\ step'[q] = step[q] /\ steady'[q] = steady[q] /\ absent'[q] = absent[q]
                                    /\ purpose'[q] = purpose[q] /\ wanted'[q] = wanted[q]
        /\ UNCHANGED <<slackN, cache, seenTo, pageOf, hidden>>
    BY <1>5 DEF StartWalk, NamesInv, NamesTypeOK
  <2>3. seenTo[r] = 0 /\ \A c \in Active(n) : c > 0 /\ c \notin archived /\ nameOf[c] = n
    BY <2>2, ChannelNamesAssumption DEF Active, NamesInv, StillAhead
  <2>4. StillAhead'
    BY <1>5, <2>2, <2>3 DEF NamesInv, StillAhead
  <2>5. NamesAreFound'
    BY <2>2 DEF NamesInv, NamesAreFound, NotFoundIsAbsent, ArchivedStaysReachable
  <2> QED
    BY <2>1, <2>4, <2>5 DEF NamesInv
<1>6. ASSUME NEW r \in Resolver, ReadFails(r) PROVE NamesInv'
  <2>1. NamesTypeOK'
    BY <1>6 DEF ReadFails, Rest, NamesInv, NamesTypeOK
  <2>2. /\ step'[r] = "idle" /\ seenTo'[r] = 0 /\ steady'[r] = {}
        /\ \A q \in Resolver \ {r} : /\ step'[q] = step[q] /\ seenTo'[q] = seenTo[q] /\ absent'[q] = absent[q]
                                    /\ purpose'[q] = purpose[q] /\ wanted'[q] = wanted[q] /\ pageOf'[q] = pageOf[q]
                                    /\ steady'[q] = steady[q]
        /\ UNCHANGED <<slackN, cache, hidden>>
    BY <1>6 DEF ReadFails, Rest, NamesInv, NamesTypeOK
  <2>3. StillAhead'
    BY <2>2 DEF NamesInv, StillAhead
  <2> QED
    BY <2>1, <2>2, <2>3 DEF NamesInv, NamesAreFound, NotFoundIsAbsent, ArchivedStaysReachable
<1>7. CASE RestartServer
  BY <1>7 DEF RestartServer, NamesInv, NamesTypeOK, StillAhead, NamesAreFound, NotFoundIsAbsent, ArchivedStaysReachable
<1>8. CASE UNCHANGED nameVars
  BY <1>8 DEF NamesInv, NamesTypeOK, StillAhead, NamesAreFound, NotFoundIsAbsent, ArchivedStaysReachable
<1>9. ASSUME NEW r \in Resolver, ReadPage(r) \/ RecordPage(r) PROVE NamesInv'
  BY <1>9, ReadPageKeeps, RecordKeeps
<1> QED
  BY <1>1, <1>2, <1>3, <1>4, <1>5, <1>6, <1>7, <1>8, <1>9 DEF NamesNext

\* A name an active channel bears all through a walk is found, and what the tool
\* archived by name stays reachable for the life of the process (channels.go).
THEOREM NamesFound == NamesSpec => []NamesAreFound
<1>1. NamesInv => NamesAreFound
  BY DEF NamesInv
<1> QED
  BY <1>1, NamesInvInit, NamesStep, PTL DEF NamesSpec

-----------------------------------------------------------------------------
(***************************************************************************)
(* The whole: whichever part runs, the others stand still.                 *)
(***************************************************************************)
\* A behaviour of the whole is one of each part.
LEMMA EachIsItsOwn ==
    Spec => /\ MentionsSpec /\ SearchSpec /\ RoutingSpec /\ NamesSpec /\ HandlesSpec
            /\ ActionsSpec /\ DigestSpec /\ FeedSpec /\ AnswerSpec
<1>1. Init => /\ MentionsInit /\ SearchInit /\ RoutingInit /\ NamesInit /\ HandlesInit
              /\ ActionsInit /\ DigestInit /\ FeedInit /\ AnswerInit
  BY DEF Init
<1>2. [Next]_readVars =>
         /\ [MentionsNext]_mentionVars /\ [SearchNext]_searchVars /\ [RoutingNext]_routeVars
         /\ [NamesNext]_nameVars /\ [HandlesNext]_handleVars /\ [ActionsNext]_actionVars
         /\ [DigestNext]_digestVars /\ [FeedNext]_feedVars /\ [AnswerNext]_answerVars
  BY Zenon DEF Next, readVars
<1> QED
  BY <1>1, <1>2, PTL DEF Spec, MentionsSpec, SearchSpec, RoutingSpec, NamesSpec, HandlesSpec,
     ActionsSpec, DigestSpec, FeedSpec, AnswerSpec

\* Every variable of the nine parts stays in its type, whichever of them runs.
THEOREM ReadsTypeCorrect == Spec => []TypeOK
<1>1. RoutingSpec => []RoutingTypeOK
  <2>1. RoutingInv => RoutingTypeOK BY DEF RoutingInv
  <2> QED BY <2>1, RoutingInvInit, RoutingStep, PTL DEF RoutingSpec
<1>2. NamesSpec => []NamesTypeOK
  <2>1. NamesInv => NamesTypeOK BY DEF NamesInv
  <2> QED BY <2>1, NamesInvInit, NamesStep, PTL DEF NamesSpec
<1>3. HandlesSpec => []HandlesTypeOK
  <2>1. HandlesInit => HandlesInv BY DEF HandlesInit, HandlesInv, HandlesTypeOK, TheHandleItself
  <2>2. HandlesInv => HandlesTypeOK BY DEF HandlesInv
  <2> QED BY <2>1, <2>2, HandlesStep, PTL DEF HandlesSpec
<1>4. /\ MentionsTypeOK /\ SearchTypeOK /\ RoutingTypeOK /\ NamesTypeOK /\ HandlesTypeOK
      /\ ActionsTypeOK /\ DigestTypeOK /\ FeedTypeOK /\ AnswerTypeOK
      => TypeOK
  BY DEF TypeOK
<1> QED
  BY <1>1, <1>2, <1>3, <1>4, EachIsItsOwn, MentionsTypeCorrect, FileSearchTypeCorrect, ActionsTypeCorrect,
     DigestTypeCorrect, FeedTypeCorrect, AnswerTypeCorrect, PTL

\* What each part promises, it promises in the whole: no ask is dropped and
\* none listed that was answered, no file within the scan is passed over, a link,
\* a name and a handle lead where they should, a digest covers its window but for
\* its lower bound's own second and shows the commonest alerts, and the unread
\* summary tells what it read.
THEOREM ReadsAreSound ==
    Spec => []( /\ EveryAskAccounted /\ PendingIsUnanswered /\ NothingPassedOver
                /\ LinksAreFollowed /\ NamesAreFound /\ TheHandleItself
                /\ PingsAreUnanswered /\ WindowIsCovered /\ BranchFollowsItsRequest /\ CommonestShown
                /\ HiddenIsSettled /\ NothingReadIsUntold /\ FeedsCrowdNobodyOut)
BY EachIsItsOwn, NoAskIsDropped, PendingMeansUnanswered, NoFileIsPassedOver, LinksFollowed, NamesFound,
   HandlesAreTheirBearers, PingsStayHonest, NoSilentGap, BranchKeepsItsRequest, CommonestStays,
   HiddenStaysSettled, NothingGoesUntold, FeedsYield, PTL
=============================================================================
