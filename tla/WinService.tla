----------------------------- MODULE WinService -----------------------------
(***************************************************************************)
(* The client as a Windows service, and the commands that an administrator *)
(* gives it (service.go, ServiceManager of platform_windows.go).           *)
(*                                                                         *)
(* "install", "remove", "makemesh" and "removemesh" change two registries  *)
(* of Windows, the services and the sources of its event log, one after    *)
(* the other; "start", "stop", "pause" and "continue" send the service a   *)
(* control request and wait for its state to change.  Any number of        *)
(* consoles run such commands at the same time; each is a process that may *)
(* be killed between two steps.                                            *)
(***************************************************************************)
EXTENDS Naturals

CONSTANTS
    Own,        \* "meshify", the name of the client's own service
    Mesh,       \* names of meshes; one may be called Own
    Valid,      \* the names that TunnelNameIsValid accepts
    Console,    \* processes that run a command
    Nil,        \* no service, no command, no control request
    MaxCommands,    \* how many commands are given
    MaxFaults       \* how many faults may happen

ASSUME ValidType == Valid \subseteq Mesh
ASSUME NilType == Nil # Own /\ Nil \notin Mesh
ASSUME MaxType == MaxCommands \in Nat /\ MaxFaults \in Nat

\* The client's own service, and the service "WireGuardTunnel$m" of mesh m.
Meshify == [tunnel |-> FALSE, name |-> Own]
Service == {Meshify} \cup {[tunnel |-> TRUE, name |-> m] : m \in Mesh}

\* The commands, and the state that a control request is to lead to.
Change == {"install", "remove"}
Control == [stop |-> "Stopped", pause |-> "Paused", continue |-> "Running"]
Command == Change \cup {"start"} \cup DOMAIN Control

VARIABLES
    services,   \* the services that Windows knows
    marked,     \* those of them that are marked for deletion
    sources,    \* the sources of the event log
    state,      \* the state of the client's service
    request,    \* the control request that it has still to serve
    exec,       \* where its Execute is
    pc,         \* where the command of each console is
    cmd,        \* the command
    target,     \* the service it is about
    handle,     \* the service it has open
    failed,     \* was a command cut short, or refused half-way by a fault?
    overtaken,  \* the sources that a removal found missing, as when the install was not
                \* as far yet.  No action reads failed and overtaken
    given,      \* how many commands have been given
    faults      \* how many faults have happened

scmVars == <<services, marked, sources>>
runVars == <<state, request, exec>>
cmdVars == <<cmd, target, given>>
historyVars == <<failed, overtaken>>
vars == <<services, marked, sources, state, request, exec, pc, cmd, target, given,
          handle, failed, overtaken, faults>>

----------------------------------------------------------------------------
(* Helpers *)

\* A fault happens: Windows refuses a change of one of its registries, a console
\* is closed, the service's process dies or Windows restarts.
Fails == faults < MaxFaults /\ faults' = faults + 1

Goto(c, label) == pc' = [pc EXCEPT ![c] = label]

\* Windows drops a service that is marked for deletion when nobody has it open
\* and it does not run.
Dropped(s, holders, run) ==
    s \in marked /\ (\A c \in holders : handle[c] # s) /\ (s = Meshify => run = "Stopped")

----------------------------------------------------------------------------
(* Commands *)

\* The file that makemesh is given must name a valid tunnel.
NameFromPath(s) == s.tunnel => s.name \in Valid

\* A command is given; removemesh takes the name of the mesh as it is.
Begin(c, name, s) ==
    /\ pc[c] = "idle" /\ given < MaxCommands
    /\ given' = given + 1
    /\ name \notin Change => s = Meshify
    /\ name = "install" => NameFromPath(s)
    /\ cmd' = [cmd EXCEPT ![c] = name]
    /\ target' = [target EXCEPT ![c] = s]
    /\ Goto(c, "open")
    /\ UNCHANGED <<scmVars, runVars, handle, historyVars, faults>>

\* Mutant: OpenService's error is not looked at.
OpenAnyway(c) ==
    /\ pc[c] = "open"
    /\ handle' = [handle EXCEPT ![c] = target[c]]
    /\ Goto(c, CASE cmd[c] = "install" -> IF target[c] \in services THEN "close" ELSE "create"
                 [] cmd[c] = "remove" -> "delete"
                 [] OTHER -> cmd[c])
    /\ UNCHANGED <<scmVars, runVars, cmdVars, historyVars, faults>>

\* install and makemesh end when the service exists; all others end when it
\* does not.
Open(c) ==
    /\ pc[c] = "open"
    /\ \/ /\ target[c] \in services
          /\ handle' = [handle EXCEPT ![c] = target[c]]
          /\ Goto(c, CASE cmd[c] = "install" -> "close"
                       [] cmd[c] = "remove" -> "delete"
                       [] OTHER -> cmd[c])
       \/ /\ target[c] \notin services
          /\ Goto(c, IF cmd[c] = "install" THEN "create" ELSE "close")
          /\ UNCHANGED handle
    /\ UNCHANGED <<scmVars, runVars, cmdVars, historyVars, faults>>

\* CreateService also fails for a service that another console has just created.
Create(c) ==
    /\ pc[c] = "create"
    /\ \/ /\ target[c] \notin services
          /\ services' = services \cup {target[c]}
          /\ handle' = [handle EXCEPT ![c] = target[c]]
          /\ Goto(c, "source")
          /\ UNCHANGED faults
       \/ /\ IF target[c] \in services THEN UNCHANGED faults ELSE Fails
          /\ Goto(c, "close")
          /\ UNCHANGED <<services, handle>>
    /\ UNCHANGED <<marked, sources, runVars, cmdVars, historyVars>>

\* Mutant: the service stays when the source cannot be added.
AddSourceOnly(c) ==
    /\ pc[c] = "source"
    /\ \/ /\ target[c].name \notin sources
          /\ sources' = sources \cup {target[c].name}
          /\ UNCHANGED faults
       \/ /\ IF target[c].name \in sources THEN UNCHANGED faults ELSE Fails
          /\ UNCHANGED sources
    /\ Goto(c, "close")
    /\ UNCHANGED <<services, marked, runVars, cmdVars, handle, historyVars>>

\* eventlog.InstallAsEventCreate refuses a source that exists.  The source has
\* the name of the mesh, not that of its service.
AddSource(c) ==
    /\ pc[c] = "source"
    /\ \/ /\ target[c].name \notin sources
          /\ sources' = sources \cup {target[c].name}
          /\ Goto(c, "close")
          /\ UNCHANGED faults
       \/ /\ IF target[c].name \in sources THEN UNCHANGED faults ELSE Fails
          /\ Goto(c, "undo")
          /\ UNCHANGED sources
    /\ UNCHANGED <<services, marked, runVars, cmdVars, handle, historyVars>>

\* The new service is deleted again; whether that works is not looked at.
Undo(c) ==
    /\ pc[c] = "undo"
    /\ \/ /\ marked' = marked \cup {target[c]}
          /\ UNCHANGED <<failed, faults>>
       \/ /\ Fails
          /\ failed' = TRUE
          /\ UNCHANGED marked
    /\ Goto(c, "close")
    /\ UNCHANGED <<services, sources, runVars, cmdVars, handle, overtaken>>

\* Mutant: the source is forgotten.
DeleteOnly(c) ==
    /\ pc[c] = "delete"
    /\ marked' = marked \cup {target[c]}
    /\ Goto(c, "close")
    /\ UNCHANGED <<services, sources, runVars, cmdVars, handle, historyVars, faults>>

\* A service is deleted only once.
Delete(c) ==
    /\ pc[c] = "delete"
    /\ \/ /\ target[c] \notin marked
          /\ marked' = marked \cup {target[c]}
          /\ Goto(c, "unsource")
          /\ UNCHANGED faults
       \/ /\ IF target[c] \in marked THEN UNCHANGED faults ELSE Fails
          /\ Goto(c, "close")
          /\ UNCHANGED marked
    /\ UNCHANGED <<services, sources, runVars, cmdVars, handle, historyVars>>

\* eventlog.Remove fails when there is no such source, as when the install that
\* made the service is still to add it; the service is deleted all the same.
RemoveSource(c) ==
    /\ pc[c] = "unsource"
    /\ LET n == target[c].name IN
          \/ /\ n \in sources
             /\ sources' = sources \ {n}
             /\ UNCHANGED <<historyVars, faults>>
          \/ /\ n \notin sources
             /\ overtaken' = overtaken \cup {n}
             /\ UNCHANGED <<sources, failed, faults>>
          \/ /\ n \in sources /\ Fails
             /\ failed' = TRUE
             /\ UNCHANGED <<sources, overtaken>>
    /\ Goto(c, "close")
    /\ UNCHANGED <<services, marked, runVars, cmdVars, handle>>

\* Windows starts a service that is stopped and not marked for deletion.
startService(c) ==
    /\ pc[c] = "start"
    /\ \/ /\ state = "Stopped" /\ Meshify \notin marked
          /\ state' = "StartPending" /\ exec' = "start"
       \/ /\ state # "Stopped" \/ Meshify \in marked
          /\ UNCHANGED <<state, exec>>
    /\ Goto(c, "close")
    /\ UNCHANGED <<scmVars, request, cmdVars, handle, historyVars, faults>>

\* A request is sent to a service that runs and has served the last one;
\* otherwise Windows refuses it.
controlService(c) ==
    /\ pc[c] \in DOMAIN Control
    /\ \/ /\ state \in {"Running", "Paused"} /\ request = Nil
          /\ request' = pc[c]
          /\ Goto(c, "wait")
       \/ /\ state \notin {"Running", "Paused"} \/ request # Nil
          /\ Goto(c, "close")
          /\ UNCHANGED request
    /\ UNCHANGED <<scmVars, state, exec, cmdVars, handle, historyVars, faults>>

\* Mutant: there is no deadline.
WaitForever(c) ==
    /\ pc[c] = "wait"
    /\ state = Control[cmd[c]]
    /\ Goto(c, "close")
    /\ UNCHANGED <<scmVars, runVars, cmdVars, handle, historyVars, faults>>

\* The command looks every 300 ms whether the state is there, and gives up
\* after ten seconds, which is sooner or later.
Wait(c) ==
    /\ pc[c] = "wait"
    /\ Goto(c, "close")
    /\ UNCHANGED <<scmVars, runVars, cmdVars, handle, historyVars, faults>>

\* The handle is closed and the process ends.
Close(c) ==
    /\ pc[c] = "close"
    /\ services' = services \ {s \in {handle[c]} : Dropped(s, Console \ {c}, state)}
    /\ marked' = marked \cap services'
    /\ handle' = [handle EXCEPT ![c] = Nil]
    /\ cmd' = [cmd EXCEPT ![c] = Nil]
    /\ target' = [target EXCEPT ![c] = Nil]
    /\ Goto(c, "idle")
    /\ UNCHANGED <<sources, runVars, given, historyVars, faults>>

----------------------------------------------------------------------------
(* The service *)

\* RunService, and Execute up to its loop.
Started ==
    /\ exec = "start"
    /\ state' = "Running" /\ exec' = "loop"
    /\ UNCHANGED <<scmVars, request, pc, cmdVars, handle, historyVars, faults>>

\* Mutant: "break" without its label leaves the select only.
ServeOn ==
    /\ exec = "loop" /\ request # Nil
    /\ state' = IF request = "stop" THEN state ELSE Control[request]
    /\ request' = Nil
    /\ UNCHANGED <<scmVars, exec, pc, cmdVars, handle, historyVars, faults>>

\* One turn of the loop.
Serve ==
    /\ exec = "loop" /\ request # Nil
    /\ \/ /\ request = "stop"
          /\ exec' = "end"
          /\ UNCHANGED state
       \/ /\ request # "stop"
          /\ state' = Control[request]
          /\ UNCHANGED exec
    /\ request' = Nil
    /\ UNCHANGED <<scmVars, pc, cmdVars, handle, historyVars, faults>>

\* Execute has left its loop.
StopPending ==
    /\ exec = "end"
    /\ state' = "StopPending" /\ exec' = "exit"
    /\ UNCHANGED <<scmVars, request, pc, cmdVars, handle, historyVars, faults>>

\* The process is gone: the state is Stopped, and nobody serves requests.
Ended ==
    /\ state' = "Stopped" /\ exec' = "none" /\ request' = Nil
    /\ services' = services \ {s \in {Meshify} : Dropped(s, Console, state')}
    /\ marked' = marked \cap services'

Exit ==
    /\ exec = "exit"
    /\ Ended
    /\ UNCHANGED <<sources, pc, cmdVars, handle, historyVars, faults>>

----------------------------------------------------------------------------
(* Faults *)

\* The service's process dies.
Crash ==
    /\ exec \notin {"none", "boot"} /\ Fails
    /\ Ended
    /\ UNCHANGED <<sources, pc, cmdVars, handle, historyVars>>

Unfinished(c) == pc[c] \in {"source", "undo", "unsource"}

\* A console is closed in the middle of a command.
Kill(c) ==
    /\ pc[c] \notin {"idle", "close"} /\ Fails
    /\ failed' = (failed \/ Unfinished(c))
    /\ Goto(c, "close")
    /\ UNCHANGED <<scmVars, runVars, cmdVars, handle, overtaken>>

\* Windows restarts: what is marked for deletion is dropped.
Reboot ==
    /\ Fails
    /\ failed' = (failed \/ \E c \in Console : Unfinished(c))
    /\ services' = services \ marked /\ marked' = {}
    /\ state' = "Stopped" /\ exec' = "boot" /\ request' = Nil
    /\ pc' = [c \in Console |-> "idle"]
    /\ cmd' = [c \in Console |-> Nil]
    /\ target' = [c \in Console |-> Nil]
    /\ handle' = [c \in Console |-> Nil]
    /\ UNCHANGED <<sources, given, overtaken>>

\* The service is installed to start with Windows (StartAutomatic).
AutoStart ==
    /\ state = "Stopped" /\ Meshify \in services \ marked
    /\ exec = "boot"
    /\ state' = "StartPending" /\ exec' = "start"
    /\ UNCHANGED <<scmVars, request, pc, cmdVars, handle, historyVars, faults>>

----------------------------------------------------------------------------
(* The specification *)

\* Nothing is installed, or the client is and runs.
Init ==
    /\ marked = {} /\ request = Nil
    /\ \/ /\ services = {} /\ sources = {}
          /\ state = "Stopped" /\ exec = "none"
       \/ /\ services = {Meshify} /\ sources = {Own}
          /\ state = "Running" /\ exec = "loop"
    /\ pc = [c \in Console |-> "idle"]
    /\ cmd = [c \in Console |-> Nil]
    /\ target = [c \in Console |-> Nil]
    /\ handle = [c \in Console |-> Nil]
    /\ given = 0 /\ failed = FALSE /\ overtaken = {} /\ faults = 0

ServiceManager(c) ==
    \/ Open(c) \/ Create(c) \/ AddSource(c) \/ Undo(c) \/ Delete(c) \/ RemoveSource(c)
    \/ startService(c) \/ controlService(c) \/ Wait(c) \/ Close(c)

Execute == Started \/ Serve \/ StopPending \/ Exit

Next ==
    \/ \E c \in Console :
          \/ \E name \in Command, s \in Service : Begin(c, name, s)
          \/ ServiceManager(c) \/ Kill(c)
    \/ Execute \/ Crash \/ Reboot \/ AutoStart

Spec == Init /\ [][Next]_vars

\* The service and the commands that were begun go on.
FairSpec == Spec /\ WF_vars(Execute) /\ \A c \in Console : WF_vars(ServiceManager(c))

----------------------------------------------------------------------------
(* Properties *)

\* Every variable has its type.
TypeOK ==
    /\ services \subseteq Service
    /\ marked \subseteq services
    /\ sources \subseteq {s.name : s \in Service}
    /\ state \in {"Stopped", "StartPending", "Running", "Paused", "StopPending"}
    /\ request \in DOMAIN Control \cup {Nil}
    /\ exec \in {"none", "boot", "start", "loop", "end", "exit"}
    /\ pc \in [Console -> {"idle", "open", "create", "source", "undo", "delete", "unsource",
                           "start", "stop", "pause", "continue", "wait", "close"}]
    /\ cmd \in [Console -> Command \cup {Nil}]
    /\ target \in [Console -> Service \cup {Nil}]
    /\ handle \in [Console -> Service \cup {Nil}]
    /\ failed \in BOOLEAN /\ overtaken \subseteq {s.name : s \in Service}
    /\ given \in Nat /\ faults \in Nat

\* Each source of the event log belongs to a service that exists: a source
\* without one would make every later install of that service fail
\* (service.go:201, 253, 279, 302).  The exceptions are a command that was cut
\* short or refused half-way, and a source whose removal came before the install
\* had added it.
NoStraySource == failed \/ \A n \in sources \ overtaken : \E s \in services : s.name = n

\* A service that is installed and shares its name with no other has its source
\* in the event log, unless a command was cut short or refused half-way: an
\* install that fails is undone (service.go:202-205, 254-257).
NoHalfInstall ==
    failed \/ \A s \in services \ marked :
        \/ s.name \in sources
        \/ \E t \in Service \ {s} : t.name = s.name
        \/ \E c \in Console : handle[c] = s /\ pc[c] \in {"source", "undo"}

\* A service that was told to stop stops (service.go:52-71).
StopsWhenTold == request = "stop" ~> state = "Stopped"

\* Every command comes to an end, whatever other consoles do to the service in
\* the meantime (service.go:131-141).
CommandsEnd == \A c \in Console : pc[c] # "idle" ~> pc[c] = "idle"

----------------------------------------------------------------------------
(* The invariant behind NoStraySource and NoHalfInstall *)

\* A command that has begun has a service, and has it open before it changes a
\* registry.
Shape ==
    \A c \in Console :
        /\ pc[c] = "open" => cmd[c] \in Command
        /\ pc[c] \in {"open", "create"} => target[c] \in Service
        /\ pc[c] \in {"source", "undo", "delete", "unsource"} =>
              handle[c] = target[c] /\ target[c] \in services

\* A new service has one creator, and no source yet; a console that deletes it
\* already is still to find that out, or has.
Fresh ==
    /\ \A c \in Console : pc[c] \in {"source", "undo"} /\ target[c].name \notin overtaken =>
          /\ target[c].name \notin sources
          /\ target[c] \in marked => \E d \in Console : pc[d] = "unsource" /\ target[d] = target[c]
    /\ \A c, d \in Console :
          pc[c] \in {"source", "undo"} /\ pc[d] \in {"source", "undo"} /\ target[c] = target[d]
             => c = d

\* A service that is marked for deletion has no source any more, or a console
\* is about to remove it; one that is not marked has its source, or a console is
\* about to add it; and there are no other sources - but those that a removal
\* found missing.
Matched ==
    /\ \A s \in marked : s.name \in sources \ overtaken =>
          \E c \in Console : pc[c] = "unsource" /\ target[c] = s
    /\ \A s \in services \ marked :
          s.name \notin sources => \E c \in Console : pc[c] \in {"source", "undo"} /\ target[c] = s
    /\ \A c \in Console : pc[c] = "unsource" => target[c] \in marked
    /\ \A n \in sources \ overtaken : \E s \in services : s.name = n

IInv == TypeOK /\ Shape /\ (failed \/ Own \in Mesh \/ (Fresh /\ Matched))
=============================================================================
