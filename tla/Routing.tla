------------------------------ MODULE Routing ------------------------------
(***************************************************************************)
(* Which workspace a permalink is read from (internal/tools/message.go,    *)
(* hub.go and audio.go): the link's host is matched against the URL each   *)
(* workspace learns from auth.test; without a match the primary is tried,  *)
(* and when it cannot see the object, the others (Slack Connect).          *)
(* auth.test may fail; only its success is remembered.                     *)
(***************************************************************************)
EXTENDS Naturals, Sequences, Functions

CONSTANTS
    RouteOrder,     \* the registry, the primary first
    BotOnly,        \* workspaces without a user token
    Elsewhere,      \* the host of an organisation that is not configured
    MaxLookups      \* bound

ASSUME RoutingAssumption ==
    /\ RouteOrder \in Seq(Range(RouteOrder)) /\ Len(RouteOrder) > 0
    /\ IsInjective(RouteOrder) /\ Elsewhere \notin Range(RouteOrder)
    /\ BotOnly \subseteq Range(RouteOrder) /\ MaxLookups \in Nat

Routes  == Range(RouteOrder)
Primary == RouteOrder[1]
Ends    == {"none", "found", "not found", "error"}

VARIABLES
    identified, \* workspaces whose auth.test has been answered, ever
    lookStep,   \* "idle", "routing", "reading", "falling back", "trying"
    host,       \* the link's host: a workspace or Elsewhere
    label,      \* the workspace argument, or Elsewhere for none
    position,   \* how far the loop over the registry is
    routed,     \* the workspace the lookup is scoped to
    visible,    \* workspaces that can see the object
    asked,      \* workspaces it was asked of
    ended,      \* how the lookup ended, and where
    unanswered, \* history: workspaces whose auth.test failed while routing
    lookups     \* bound

lookVars == <<host, label, visible>>
routeVars == <<identified, lookStep, lookVars, position, routed, asked, ended, unanswered, lookups>>

RoutingInit ==
    /\ identified = {} /\ lookStep = "idle" /\ host = Elsewhere /\ label = Elsewhere
    /\ position = 1 /\ routed = Primary /\ visible = {} /\ asked = {}
    /\ ended = [how |-> "none", ws |-> Primary] /\ unanswered = {} /\ lookups = 0

\* workspaceTarget: the named workspace, the primary without a name.
ScopedTo(l) == IF l = Elsewhere THEN Primary ELSE l

Look(h, l, seen) ==
    /\ lookStep = "idle" /\ lookups < MaxLookups /\ lookups' = lookups + 1
    /\ host' = h /\ label' = l /\ visible' = seen
    /\ routed' = ScopedTo(l) /\ position' = 1
    /\ lookStep' = IF l = Elsewhere THEN "routing" ELSE "reading"
    /\ asked' = {} /\ unanswered' = {} /\ ended' = [how |-> "none", ws |-> Primary]
    /\ UNCHANGED identified

\* TeamURL: from the remembered answer, or by asking auth.test.
MutantBotAnswers(w) == TRUE

Answers(w)  == w \in identified \/ w \notin BotOnly
Silent(w)   == w \notin identified
Learn(w)    == identified' = identified \cup {w}

Here == RouteOrder[position]
Beyond == position > Len(RouteOrder)

\* routeWorkspace.
RouteMatches ==
    /\ lookStep = "routing" /\ ~ Beyond /\ Answers(Here) /\ Learn(Here) /\ Here = host
    /\ routed' = Here /\ lookStep' = "reading" /\ position' = 1
    /\ UNCHANGED <<lookVars, asked, ended, unanswered, lookups>>

RouteDiffers ==
    /\ lookStep = "routing" /\ ~ Beyond /\ Answers(Here) /\ Learn(Here) /\ Here # host
    /\ position' = position + 1
    /\ UNCHANGED <<lookStep, lookVars, routed, asked, ended, unanswered, lookups>>

RouteUnknown ==
    /\ lookStep = "routing" /\ ~ Beyond /\ Silent(Here)
    /\ position' = position + 1 /\ unanswered' = unanswered \cup {Here}
    /\ UNCHANGED <<identified, lookStep, lookVars, routed, asked, ended, lookups>>

RouteToPrimary ==
    /\ lookStep = "routing" /\ Beyond
    /\ routed' = Primary /\ lookStep' = "reading" /\ position' = 1
    /\ UNCHANGED <<identified, lookVars, asked, ended, unanswered, lookups>>

End(how, w) == lookStep' = "idle" /\ ended' = [how |-> how, ws |-> w]

\* The object is found, or some error other than not-found ends the lookup:
\* "its error is the real one".
Finds(w)  == w \in visible /\ asked' = asked \cup {w} /\ End("found", w)
Breaks(w) == asked' = asked \cup {w} /\ End("error", w)

ReadRouted ==
    /\ lookStep = "reading" /\ (Finds(routed) \/ Breaks(routed))
    /\ UNCHANGED <<identified, lookVars, position, routed, unanswered, lookups>>

\* isNotFoundResult: worth retrying elsewhere, unless the caller named a workspace.
MutantFallsBackAnyway == Len(RouteOrder) > 1
MayFallBack == label = Elsewhere /\ Len(RouteOrder) > 1

NotFoundThere ==
    /\ lookStep = "reading" /\ routed \notin visible /\ asked' = asked \cup {routed}
    /\ IF MayFallBack THEN lookStep' = "falling back" /\ UNCHANGED ended
                      ELSE End("not found", routed)
    /\ UNCHANGED <<identified, lookVars, position, routed, unanswered, lookups>>

\* hostFallbacks asks every workspace again who it is.
HostIsOurs ==
    /\ lookStep = "falling back" /\ ~ Beyond /\ Answers(Here) /\ Learn(Here) /\ Here = host
    /\ End("not found", routed)
    /\ UNCHANGED <<lookVars, position, routed, asked, unanswered, lookups>>

HostIsNot ==
    /\ lookStep = "falling back" /\ ~ Beyond
    /\ \/ Answers(Here) /\ Here # host /\ Learn(Here)
       \/ Silent(Here) /\ UNCHANGED identified
    /\ position' = position + 1
    /\ UNCHANGED <<lookStep, lookVars, routed, asked, ended, unanswered, lookups>>

TryOthers ==
    /\ lookStep = "falling back" /\ Beyond
    /\ lookStep' = "trying" /\ position' = 1
    /\ UNCHANGED <<identified, lookVars, routed, asked, ended, unanswered, lookups>>

\* The candidates of hostFallbacks: everyone but the workspace already tried.
Candidate(w) == w # routed

SkipTried ==
    /\ lookStep = "trying" /\ ~ Beyond /\ ~ Candidate(Here)
    /\ position' = position + 1
    /\ UNCHANGED <<identified, lookStep, lookVars, routed, asked, ended, unanswered, lookups>>

TryNext ==
    /\ lookStep = "trying" /\ ~ Beyond /\ Candidate(Here)
    /\ \/ Finds(Here) /\ UNCHANGED position
       \/ Breaks(Here) /\ UNCHANGED position
       \/ /\ Here \notin visible /\ asked' = asked \cup {Here}
          /\ position' = position + 1 /\ UNCHANGED <<lookStep, ended>>
    /\ UNCHANGED <<identified, lookVars, routed, unanswered, lookups>>

GiveUp ==
    /\ lookStep = "trying" /\ Beyond /\ End("not found", routed)
    /\ UNCHANGED <<identified, lookVars, position, routed, asked, unanswered, lookups>>

RoutingNext ==
    \/ \E h, l \in Routes \cup {Elsewhere}, seen \in SUBSET Routes : Look(h, l, seen)
    \/ RouteMatches \/ RouteDiffers \/ RouteUnknown \/ RouteToPrimary
    \/ ReadRouted \/ NotFoundThere \/ HostIsOurs \/ HostIsNot \/ TryOthers
    \/ SkipTried \/ TryNext \/ GiveUp

RoutingSpec == RoutingInit /\ [][RoutingNext]_routeVars
----------------------------------------------------------------------------
RoutingTypeOK ==
    /\ identified \subseteq Routes \ BotOnly
    /\ lookStep \in {"idle", "routing", "reading", "falling back", "trying"}
    /\ host \in Routes \cup {Elsewhere} /\ label \in Routes \cup {Elsewhere}
    /\ position \in 1..Len(RouteOrder) + 1 /\ routed \in Routes
    /\ visible \subseteq Routes /\ asked \subseteq Routes
    /\ ended \in [how : Ends, ws : Routes] /\ unanswered \subseteq Routes /\ lookups \in Nat

\* A link into a configured workspace is read there and nowhere else, unless that
\* workspace could not say who it is when the link was routed; and a named
\* workspace is the only one asked.
ReadWhereItLives ==
    /\ (label = Elsewhere /\ host \in Routes \ unanswered) => asked \subseteq {host}
    /\ label # Elsewhere => asked \subseteq {label}

\* "Not found" for a link that no workspace is named for means that its owner or
\* else every workspace was asked, except when the owner could not say who it is at
\* first and could a moment later.
NotFoundIsThorough ==
    (ended.how = "not found" /\ label = Elsewhere) =>
        host \in asked \/ asked = Routes \/ host \in unanswered \cap identified

\* A permalink is read where it lives, and only then said not to be found
\* (routeWorkspace and hostFallbacks).
LinksAreFollowed == ReadWhereItLives /\ NotFoundIsThorough
=============================================================================
