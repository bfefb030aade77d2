------------------------------ MODULE UserNames ------------------------------
(***************************************************************************)
(* UserService.Name (internal/slack/users.go): a display name is looked up *)
(* once and kept, a failed look-up is remembered for userResolveRetryAfter *)
(* only; calls for the same person run side by side. Durations count down, *)
(* so that the clock needs no bound.                                       *)
(***************************************************************************)
EXTENDS Naturals

CONSTANTS
    Person,
    Asker,          \* calls that run side by side
    RetryAfterFail  \* userResolveRetryAfter, in ticks

ASSUME UserNamesAssumption == RetryAfterFail \in Nat \ {0}

VARIABLES
    known,      \* the cache: people whose name it holds
    coolDown,   \* failed: how long each one's last failure still counts; 0 for none
    asking,     \* per call: the person whose users.info is under way, or Nobody
    healthy,    \* users.info answers
    parity      \* history: of the number of calls, so that every call is a step

userVars == <<known, coolDown, asking, healthy, parity>>
Nobody == "nobody"

UserInit ==
    /\ known = {} /\ coolDown = [u \in Person |-> 0]
    /\ asking = [a \in Asker |-> Nobody] /\ healthy \in BOOLEAN /\ parity = 0

UserTick ==
    /\ \E u \in Person : coolDown[u] > 0
    /\ coolDown' = [u \in Person |-> IF coolDown[u] = 0 THEN 0 ELSE coolDown[u] - 1]
    /\ UNCHANGED <<known, asking, healthy, parity>>

HealthChanges ==
    /\ healthy' = ~ healthy
    /\ UNCHANGED <<known, coolDown, asking, parity>>

\* A cached name is given at once, and a recent failure its id.
MutantExtendsTheWait(u) == [coolDown EXCEPT ![u] = RetryAfterFail]

KeepsTheWait(u) == coolDown

AskName(a, u) ==
    /\ asking[a] = Nobody /\ parity' = 1 - parity
    /\ \/ /\ u \in known /\ UNCHANGED <<coolDown, asking>>
       \/ /\ u \notin known /\ coolDown[u] > 0
          /\ coolDown' = KeepsTheWait(u) /\ UNCHANGED asking
       \/ /\ u \notin known /\ coolDown[u] = 0
          /\ asking' = [asking EXCEPT ![a] = u] /\ UNCHANGED coolDown
    /\ UNCHANGED <<known, healthy>>

InfoComes(a) ==
    /\ asking[a] # Nobody /\ healthy
    /\ known' = known \cup {asking[a]}
    /\ coolDown' = [coolDown EXCEPT ![asking[a]] = 0]
    /\ asking' = [asking EXCEPT ![a] = Nobody]
    /\ UNCHANGED <<healthy, parity>>

InfoFails(a) ==
    /\ asking[a] # Nobody /\ ~ healthy
    /\ coolDown' = [coolDown EXCEPT ![asking[a]] = RetryAfterFail]
    /\ asking' = [asking EXCEPT ![a] = Nobody]
    /\ UNCHANGED <<known, healthy, parity>>

UserNext ==
    \/ UserTick \/ HealthChanges
    \/ \E a \in Asker : InfoComes(a) \/ InfoFails(a) \/ \E u \in Person : AskName(a, u)

\* Time passes and Slack answers, with a name or an error; nobody has to ask.
UserFairness ==
    /\ WF_userVars(UserTick)
    /\ \A a \in Asker : WF_userVars(InfoComes(a) \/ InfoFails(a))

UserSpec == UserInit /\ [][UserNext]_userVars /\ UserFairness
----------------------------------------------------------------------------
UserTypeOK ==
    /\ known \subseteq Person /\ healthy \in BOOLEAN
    /\ coolDown \in [Person -> 0 .. RetryAfterFail] /\ parity \in {0, 1}
    /\ asking \in [Asker -> Person \cup {Nobody}]

\* "a transient error does not pin that person to a raw ID": once Slack answers
\* again, whoever is asked for again and again gets a name.
NameComesBack ==
    \A u \in Person :
        (<>[]healthy /\ []<><<\E a \in Asker : AskName(a, u)>>_userVars) => <>(u \in known)
=============================================================================
