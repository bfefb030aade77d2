----------------------------- MODULE Lifecycle -----------------------------
(***************************************************************************)
(* How the server process ends (main.go, internal/lifecycle/parent.go): a  *)
(* signal, the end of its input, a listener that cannot start, and, on     *)
(* stdio, the loss of the process that started it. They race with one      *)
(* another and with the calls under way.                                   *)
(***************************************************************************)
CONSTANTS
    RemoteCall,     \* calls that may be under way at once
    Host, Reaper    \* the process that started the server, and the one that adopts orphans

ASSUME LifecycleAssumption == Host # Reaper

VARIABLES
    transport,
    process,        \* "serving", "closing" or "exited"
    exitCode,
    parent,         \* what os.Getppid answers
    initialParent,  \* what it answered to the watcher, or "unread"
    signalled,      \* the context of signal.NotifyContext is done
    input,          \* "open", "abandoned" or "ended"
    served,         \* what the goroutine that serves sent: "nothing", "nil" or "error"
    underWay        \* calls under way

lifeVars == <<transport, process, exitCode, parent, initialParent, signalled, input, served, underWay>>

Network == {"sse", "streamable-http"}
OnNetwork == transport \in Network
Exited == process = "exited"

Exit(code) == process' = "exited" /\ exitCode' = code

LifeInit ==
    /\ transport \in {"stdio", "unknown"} \cup Network
    /\ process = "serving" /\ exitCode = "none"
    /\ parent = Host /\ initialParent = "unread"
    /\ signalled = FALSE /\ input = "open" /\ served = "nothing" /\ underWay = {}

(* What surrounds the process. *)
ParentDies ==
    /\ ~ Exited /\ parent = Host /\ parent' = Reaper
    /\ input' \in IF input = "open" THEN {"abandoned", "ended"} ELSE {input}
    /\ UNCHANGED <<transport, process, exitCode, initialParent, signalled, served, underWay>>

\* The host closes the pipe, or leaves it open and forgets it.
HostLetsGo ==
    /\ ~ Exited /\ input = "open" /\ input' \in {"abandoned", "ended"}
    /\ UNCHANGED <<transport, process, exitCode, parent, initialParent, signalled, served, underWay>>

SignalComes ==
    /\ ~ Exited /\ ~ signalled /\ signalled' = TRUE
    /\ UNCHANGED <<transport, process, exitCode, parent, initialParent, input, served, underWay>>

CallBegins(c) ==
    /\ process = "serving" /\ served = "nothing" /\ c \notin underWay
    /\ OnNetwork \/ input = "open"
    /\ underWay' = underWay \cup {c}
    /\ UNCHANGED <<transport, process, exitCode, parent, initialParent, signalled, input, served>>

CallEnds(c) ==
    /\ ~ Exited /\ c \in underWay /\ underWay' = underWay \ {c}
    /\ UNCHANGED <<transport, process, exitCode, parent, initialParent, signalled, input, served>>

(* The goroutines of the process. *)
Running == process = "serving" /\ transport = "stdio"

\* The watcher is started with the transport; what it reads first is its parent.
WatchStarts ==
    /\ Running /\ initialParent = "unread" /\ initialParent' = parent
    /\ UNCHANGED <<transport, process, exitCode, parent, signalled, input, served, underWay>>

ParentChanged == initialParent # "unread" /\ parent # initialParent

WatchTicks ==
    /\ Running /\ ParentChanged
    /\ Exit("ok")
    /\ UNCHANGED <<transport, parent, initialParent, signalled, input, served, underWay>>

\* ServeStdio ends with its input, perhaps only when its calls have; Start when it
\* cannot listen.
ServeReturns ==
    /\ process = "serving" /\ served = "nothing"
    /\ \/ transport = "stdio" /\ input = "ended" /\ served' \in {"nil", "error"}
       \/ transport = "stdio" /\ signalled /\ served' = "nil"
       \/ OnNetwork /\ underWay = {} /\ served' = "error"
    /\ UNCHANGED <<transport, process, exitCode, parent, initialParent, signalled, input, underWay>>

\* The select of runStdio, runSSE and runStreamableHTTP: either branch that is ready.
SeesSignal ==
    /\ process = "serving" /\ signalled
    /\ IF OnNetwork THEN process' = "closing" /\ UNCHANGED exitCode
       ELSE transport = "stdio" /\ Exit("ok")
    /\ UNCHANGED <<transport, parent, initialParent, signalled, input, served, underWay>>

SeesServed ==
    /\ process = "serving" /\ served # "nothing"
    /\ Exit(IF served = "error" THEN "error" ELSE "ok")
    /\ UNCHANGED <<transport, parent, initialParent, signalled, input, served, underWay>>

UnknownTransport ==
    /\ process = "serving" /\ ~ OnNetwork /\ transport # "stdio"
    /\ Exit("error")
    /\ UNCHANGED <<transport, parent, initialParent, signalled, input, served, underWay>>

\* Shutdown waits for the calls under way, and no longer than shutdownTimeout.
ShutdownEnds ==
    /\ process = "closing" /\ underWay = {}
    /\ Exit("ok")
    /\ UNCHANGED <<transport, parent, initialParent, signalled, input, served, underWay>>

MutantWaitsForAll ==
    /\ process = "closing" /\ underWay = {}
    /\ Exit("error")
    /\ UNCHANGED <<transport, parent, initialParent, signalled, input, served, underWay>>

ShutdownTimesOut ==
    /\ process = "closing"
    /\ Exit("error")
    /\ UNCHANGED <<transport, parent, initialParent, signalled, input, served, underWay>>

LifeNext ==
    \/ ParentDies \/ HostLetsGo \/ SignalComes
    \/ \E c \in RemoteCall : CallBegins(c) \/ CallEnds(c)
    \/ WatchStarts \/ WatchTicks \/ ServeReturns
    \/ SeesSignal \/ SeesServed \/ UnknownTransport \/ ShutdownEnds \/ ShutdownTimesOut

\* The goroutines run, the ticker ticks and the timer of the shutdown expires. Calls
\* may hang for ever, and a listener need not fail; ServeStdio comes back once its
\* input has ended and no call is under way.
LifeFairness ==
    /\ WF_lifeVars(WatchStarts) /\ WF_lifeVars(WatchTicks)
    /\ WF_lifeVars(transport = "stdio" /\ input = "ended" /\ underWay = {} /\ ServeReturns)
    /\ WF_lifeVars(SeesSignal \/ SeesServed) /\ WF_lifeVars(ShutdownTimesOut)

LifeSpec == LifeInit /\ [][LifeNext]_lifeVars /\ LifeFairness
----------------------------------------------------------------------------
LifeTypeOK ==
    /\ transport \in {"stdio", "unknown"} \cup Network
    /\ process \in {"serving", "closing", "exited"}
    /\ exitCode \in {"none", "ok", "error"} /\ (exitCode = "none" <=> ~ Exited)
    /\ parent \in {Host, Reaper} /\ initialParent \in {Host, Reaper, "unread"}
    /\ signalled \in BOOLEAN /\ input \in {"open", "abandoned", "ended"}
    /\ served \in {"nothing", "nil", "error"} /\ underWay \subseteq RemoteCall
    /\ process = "closing" => OnNetwork /\ signalled

\* No process lingers (ADR 0002): a signal ends it on every transport, though calls
\* hang; on stdio so do the end of the input once its calls are over, and the death
\* of a parent the watcher had seen alive, whatever became of the pipe.
ServerEnds ==
    /\ signalled /\ transport # "unknown" ~> Exited
    /\ transport = "stdio" /\ input = "ended" /\ underWay = {} ~> Exited
    /\ transport = "stdio" /\ initialParent = Host /\ parent = Reaper ~> Exited
=============================================================================
