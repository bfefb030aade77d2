------------------------------- MODULE Handles -------------------------------
(***************************************************************************)
(* IDForHandle (internal/slack/users.go) and what the tools do with it:    *)
(* the person a handle names, among the workspace's own people and, when   *)
(* none of them matches, among the people of other organisations the       *)
(* operator has a direct message with; then their conversation.            *)
(***************************************************************************)
EXTENDS Naturals, FiniteSets

CONSTANTS
    User,
    HandleText,     \* handles, display names and real names
    PeerLookups     \* maxExternalPeerLookups

ASSUME HandlesAssumption == IsFiniteSet(User) /\ PeerLookups \in Nat

VARIABLES
    handleOf,       \* Slack: everybody's handle, one of their own
    displayOf,      \* Slack: what they call themselves, which others may as well
    roster,         \* Slack: the workspace's people that are not deleted
    peers,          \* Slack: whom the operator has a direct message with
    looking,        \* "idle", "roster", "peers"
    handle,         \* the handle looked for
    checked,        \* external peers whose users.info was asked for
    external,       \* those it told of
    opened          \* the last person a conversation was opened with, or Nobody

directory  == <<handleOf, displayOf, roster, peers>>
handleVars == <<directory, looking, handle, checked, external, opened>>
NobodyFound == "nobody"

HandlesInit ==
    /\ handleOf \in {f \in [User -> HandleText] : \A u, v \in User : f[u] = f[v] => u = v}
    /\ displayOf \in [User -> HandleText]
    /\ roster \in SUBSET User /\ peers \in SUBSET User
    /\ looking = "idle" /\ handle \in HandleText
    /\ checked = {} /\ external = {} /\ opened = NobodyFound

\* matchHandle: a handle before any display name, whoever comes first in the list.
MutantFirstInTheList(us, h) == {u \in us : handleOf[u] = h \/ displayOf[u] = h}

MatchHandle(us, h) ==
    IF \E u \in us : handleOf[u] = h
      THEN {u \in us : handleOf[u] = h}
      ELSE {u \in us : displayOf[u] = h}

LookForHandle(h) ==
    /\ looking = "idle" /\ looking' = "roster"
    /\ handle' = h /\ checked' = {} /\ external' = {} /\ opened' = NobodyFound
    /\ UNCHANGED directory

\* users.list; its failure, and that of opening the conversation, ends the call.
MatchRoster ==
    /\ looking = "roster"
    /\ LET found == MatchHandle(roster, handle) IN
         \/ found # {} /\ looking' = "idle" /\ opened' \in found
         \/ found = {} /\ looking' = "peers" /\ UNCHANGED opened
    /\ UNCHANGED <<directory, handle, checked, external>>

LookUpFails ==
    /\ looking # "idle" /\ looking' = "idle"
    /\ UNCHANGED <<directory, handle, checked, external, opened>>

Strangers == peers \ roster
\* users.info of one more peer the roster does not have; only answers count as looked up.
AskPeer(u) ==
    /\ looking = "peers" /\ u \in Strangers \ checked
    /\ Cardinality(external) < PeerLookups
    /\ checked' = checked \cup {u} /\ external' \in {external, external \cup {u}}
    /\ UNCHANGED <<directory, looking, handle, opened>>

MatchPeers ==
    /\ looking = "peers"
    /\ Strangers \subseteq checked \/ Cardinality(external) >= PeerLookups
    /\ looking' = "idle"
    /\ opened' \in LET found == MatchHandle(external, handle)
                   IN  IF found = {} THEN {NobodyFound} ELSE found
    /\ UNCHANGED <<directory, handle, checked, external>>

HandlesNext ==
    \/ \E h \in HandleText : LookForHandle(h)
    \/ MatchRoster \/ LookUpFails \/ MatchPeers
    \/ \E u \in User : AskPeer(u)

HandlesSpec == HandlesInit /\ [][HandlesNext]_handleVars
----------------------------------------------------------------------------
HandlesTypeOK ==
    /\ roster \subseteq User /\ peers \subseteq User /\ looking \in {"idle", "roster", "peers"}
    /\ handle \in HandleText /\ checked \subseteq User /\ external \subseteq checked
    /\ opened \in User \cup {NobodyFound}

\* "a display-name collision can't shadow the real @handle": nobody's conversation is
\* opened in the place of somebody else of the same kind, workspace or external, who
\* was there to be found and bears the handle itself.
TheHandleItself ==
    \A u \in User : (opened # NobodyFound /\ opened # u /\ handleOf[u] = handle) =>
        ~ (u \in roster) /\ (u \in external => opened \in roster)
=============================================================================
