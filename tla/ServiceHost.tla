----------------------------- MODULE ServiceHost -----------------------------
(***************************************************************************)
(* How the client runs the containers of the services that the Meshify     *)
(* server assigns to this host (servicehost.go, platform_linux.go).        *)
(*                                                                         *)
(* A service's record carries the id of the container that runs it, or ""  *)
(* when there is none yet; the client starts the container and PATCHes its *)
(* id into the record.  It learns which containers are no longer wanted    *)
(* only by comparing the new configuration with the one on disk, so a      *)
(* container whose id never reached the disk is never removed.             *)
(*                                                                         *)
(* The server stamps a record whenever it changes it, so two versions of   *)
(* the configuration never have the same text: same and etag say whether   *)
(* the client's copy and its ETag are the version the server has.  A       *)
(* record's Status is not looked at by the client and left out.            *)
(***************************************************************************)
EXTENDS Naturals

CONSTANTS
    Service,    \* service ids; a service that is removed never comes back
    Cid,        \* container ids
    Blank,      \* the ContainerId ""
    Nil,        \* an absent record, file or container
    Empty,      \* a file that holds no configuration
    Limit,      \* how often each fault may happen
    MaxEdits    \* how many changes the administrator makes

\* start: docker run fails; boot: it fails in StartContainers; check: docker
\* container ls fails; stuck: docker kill fails; lost: a PATCH with a container
\* id is lost; mute: a PATCH that reports an error is lost; cut: a body is cut
\* short; crash: the process dies; reboot: so does the machine.
Fault == {"start", "boot", "check", "stuck", "lost", "mute", "cut", "crash", "reboot"}

\* The ContainerId in every service's record, Nil for a service the host does
\* not have.
Message == [Service -> Cid \cup {Blank, Nil}]
NoService == [s \in Service |-> Nil]

ASSUME CidType == Blank \notin Cid /\ Nil \notin Cid /\ Blank # Nil
ASSUME FileType == Nil # Empty /\ Nil \notin Message /\ Empty \notin Message
ASSUME LimitType == Limit \in [Fault -> Nat]
ASSUME MaxEditsType == MaxEdits \in Nat

VARIABLES
    server,     \* the server's configuration of this host
    gone,       \* services that were removed
    edits,      \* changes the administrator has made
    left,       \* what is left of Limit
    hasty,      \* was a service removed before the client had settled?
    running,    \* the container that holds each service's port
    confFile,   \* meshify-service-host.conf
    same,       \* is confFile the text the server has?
    etag,       \* is the client's ETag the server's?
    pc,         \* where the client is
    booting,    \* is it in StartContainers?
    msg,        \* the configuration it works on
    oldmsg,     \* the configuration before it
    todo,       \* services still to be handled
    cur,        \* the service in hand
    id          \* what became of its container

adminVars == <<gone, edits, hasty>>
workVars == <<pc, booting, msg, oldmsg, todo, cur, id>>
vars == <<server, gone, edits, left, hasty, running, confFile, same, etag,
          pc, booting, msg, oldmsg, todo, cur, id>>

----------------------------------------------------------------------------
(* Helpers *)

Spend(f) == left[f] > 0 /\ left' = [left EXCEPT ![f] = @ - 1]

Config(message) == {s \in Service : message[s] # Nil}

\* What json.Unmarshal makes of the file.
Parsed(file) == IF file \in {Nil, Empty} THEN NoService ELSE file

\* Container ids that nothing remembers.
Unused ==
    {c \in Cid : \A s \in Service :
        c \notin {server[s], running[s], Parsed(confFile)[s], msg[s], oldmsg[s], id}}

\* Mutant: the id that docker prints is not read.
NewCidUnread == Blank

\* The id of a new container.  Which one is drawn makes no difference.
NewCid == CHOOSE c \in Unused : TRUE

\* The server's text changes.
Stamp == same' = FALSE /\ etag' = FALSE

\* The client's copy is what the server has, and it is doing nothing.
Settled == pc = "idle" /\ same

\* Mutant: the old configuration is compared with itself.
RemovedOld(old, new) == {s \in Config(old) : \A n \in Config(old) : old[s] # old[n]}

\* Mutant: every new service overwrites what was found, the last one decides.
RemovedLast(old, new) == {s \in Config(old) : \E n \in Config(new) : old[s] # new[n]}

\* The services of old whose container no service of new has.  A service
\* without a container is there too when all the new ones have one: the client
\* then runs "docker kill" without an id, which fails.
Removed(old, new) ==
    {s \in Config(old) : \A n \in Config(new) : old[s] # new[n]}

----------------------------------------------------------------------------
(* The server and its administrator *)

AdminAdd(s) ==
    /\ edits < MaxEdits /\ server[s] = Nil /\ s \notin gone
    /\ edits' = edits + 1
    /\ server' = [server EXCEPT ![s] = Blank]
    /\ Stamp
    /\ UNCHANGED <<gone, hasty, left, running, confFile, workVars>>

\* A change the client does not look at.
AdminEdit(s) ==
    /\ edits < MaxEdits /\ server[s] # Nil
    /\ edits' = edits + 1
    /\ Stamp
    /\ UNCHANGED <<server, gone, hasty, left, running, confFile, workVars>>

AdminRemove(s) ==
    /\ edits < MaxEdits /\ server[s] # Nil
    /\ edits' = edits + 1
    /\ server' = [server EXCEPT ![s] = Nil]
    /\ gone' = gone \cup {s}
    /\ hasty' = (hasty \/ ~Settled)
    /\ Stamp
    /\ UNCHANGED <<left, running, confFile, workVars>>

----------------------------------------------------------------------------
(* One round of StartServiceHost *)

\* A 304, an error status or no connection: nothing changes, the ETag is kept.
\* (An error can come at any time; with the ETag kept it is a step that does
\* nothing.)
PollNothing ==
    /\ pc = "idle" /\ etag
    /\ UNCHANGED vars

\* 200: nothing to do when the file is the body already; otherwise
\* UpdateServiceHostConfig keeps the old configuration, truncates the file ...
Poll ==
    /\ pc = "idle" /\ ~etag
    /\ etag' = TRUE
    /\ \/ /\ same
          /\ UNCHANGED <<confFile, pc, msg, oldmsg>>
       \/ /\ ~same
          /\ msg' = server
          /\ oldmsg' = Parsed(confFile)
          /\ confFile' = Empty
          /\ pc' = "write"
    /\ UNCHANGED <<server, adminVars, left, running, same, booting, todo, cur, id>>

\* 200 with a body cut short: ReadAll's error is only logged, the ETag kept and
\* the rest of the body written to the file; it does not parse, which is only
\* logged too, so the client works on a configuration without services.
PollCut ==
    /\ pc = "idle" /\ ~etag /\ Spend("cut")
    /\ etag' = TRUE
    /\ msg' = NoService
    /\ oldmsg' = Parsed(confFile)
    /\ confFile' = Empty
    /\ same' = FALSE
    /\ todo' = {}
    /\ pc' = "pick"
    /\ UNCHANGED <<server, adminVars, running, booting, cur, id>>

\* ... and writes the body.  It is the server's text unless that has changed.
Write ==
    /\ pc = "write"
    /\ confFile' = msg
    /\ same' = etag
    /\ todo' = Config(msg)
    /\ pc' = "pick"
    /\ UNCHANGED <<server, adminVars, left, running, etag, booting, msg, oldmsg, cur, id>>

\* A service that has a container which runs is left alone; when docker cannot
\* be asked the container counts as not running.
CheckService(s, fails) ==
    /\ pc = "pick" /\ s \in todo
    /\ todo' = todo \ {s}
    /\ IF fails THEN msg[s] # Blank /\ Spend("check") ELSE UNCHANGED left
    /\ \/ /\ msg[s] # Blank /\ running[s] = msg[s] /\ ~fails
          /\ UNCHANGED <<pc, cur>>
       \/ /\ msg[s] = Blank \/ running[s] # msg[s] \/ fails
          /\ cur' = s
          /\ pc' = "start"
    /\ UNCHANGED <<server, adminVars, running, confFile, same, etag, booting, msg, oldmsg, id>>

NextService == pc' = "pick" /\ cur' = Nil /\ id' = Nil

\* Mutant: a service that could not be started is not reported.
StartServiceQuiet(fails) ==
    /\ pc = "start"
    /\ \/ /\ running[cur] = Nil /\ ~fails /\ Unused # {}
          /\ id' = NewCid
          /\ running' = [running EXCEPT ![cur] = id']
          /\ pc' = "patch"
          /\ UNCHANGED <<left, cur>>
       \/ /\ IF fails THEN running[cur] = Nil /\ Spend(IF booting THEN "boot" ELSE "start")
                      ELSE running[cur] # Nil /\ UNCHANGED left
          /\ NextService
          /\ UNCHANGED running
    /\ UNCHANGED <<server, adminVars, confFile, same, etag, booting, msg, oldmsg, todo>>

\* docker run fails when the service's port is taken.  A failure is reported to
\* the server, except at boot.
StartService(fails) ==
    /\ pc = "start"
    /\ \/ /\ running[cur] = Nil /\ ~fails /\ Unused # {}
          /\ id' = NewCid
          /\ running' = [running EXCEPT ![cur] = id']
          /\ pc' = "patch"
          /\ UNCHANGED <<left, cur>>
       \/ /\ IF fails THEN running[cur] = Nil /\ Spend(IF booting THEN "boot" ELSE "start")
                      ELSE running[cur] # Nil /\ UNCHANGED left
          /\ IF booting THEN NextService ELSE pc' = "patch" /\ id' = Blank /\ UNCHANGED cur
          /\ UNCHANGED running
    /\ UNCHANGED <<server, adminVars, confFile, same, etag, booting, msg, oldmsg, todo>>

\* The record is PATCHed; one that is gone takes nothing, and nobody looks at
\* what the server answers.
UpdateMeshifyServiceHost ==
    /\ pc = "patch"
    /\ \/ /\ server[cur] # Nil
          /\ server' = [server EXCEPT ![cur] = id]
          /\ Stamp
          /\ UNCHANGED left
       \/ /\ server[cur] = Nil
          /\ UNCHANGED <<server, left, same, etag>>
       \/ /\ server[cur] # Nil /\ Spend(IF id = Blank THEN "mute" ELSE "lost")
          /\ UNCHANGED <<server, same, etag>>
    /\ NextService
    /\ UNCHANGED <<adminVars, running, confFile, booting, msg, oldmsg, todo>>

\* All services are handled: containers that are no longer in the config are
\* to be removed.  At boot there is no old configuration.
ServicesDone ==
    /\ pc = "pick" /\ todo = {}
    /\ todo' = Removed(oldmsg, msg)
    /\ pc' = "prune"
    /\ UNCHANGED <<server, adminVars, left, running, confFile, same, etag, booting, msg, oldmsg, cur, id>>

StopService(s, fails) ==
    /\ pc = "prune" /\ s \in todo
    /\ todo' = todo \ {s}
    /\ LET runs == oldmsg[s] # Blank /\ running[s] = oldmsg[s] IN
          /\ running' = IF runs /\ ~fails THEN [running EXCEPT ![s] = Nil] ELSE running
          /\ IF fails THEN runs /\ Spend("stuck") ELSE UNCHANGED left
    /\ UNCHANGED <<server, adminVars, confFile, same, etag, pc, booting, msg, oldmsg, cur, id>>

EndRound ==
    /\ pc = "prune" /\ todo = {}
    /\ pc' = "idle"
    /\ booting' = FALSE
    /\ msg' = NoService /\ oldmsg' = NoService
    /\ UNCHANGED <<server, adminVars, left, running, confFile, same, etag, todo, cur, id>>

\* The process ends and is started again; StartContainers goes through the
\* configuration on disk.  Containers survive a crash, not a reboot (--rm).
Restart(f) ==
    /\ f \in {"crash", "reboot"} /\ Spend(f)
    /\ running' = IF f = "reboot" THEN [s \in Service |-> Nil] ELSE running
    /\ etag' = FALSE
    /\ booting' = TRUE
    /\ msg' = Parsed(confFile) /\ oldmsg' = NoService
    /\ todo' = Config(msg')
    /\ cur' = Nil /\ id' = Nil
    /\ pc' = "pick"
    /\ UNCHANGED <<server, adminVars, confFile, same>>

----------------------------------------------------------------------------
(* The specification *)

\* A new service host.
Init ==
    /\ server = NoService
    /\ gone = {} /\ edits = 0 /\ left = Limit /\ hasty = FALSE
    /\ running = [s \in Service |-> Nil]
    /\ confFile = Nil /\ same = FALSE /\ etag = FALSE
    /\ pc = "idle" /\ booting = FALSE
    /\ msg = NoService /\ oldmsg = NoService
    /\ todo = {} /\ cur = Nil /\ id = Nil

Admin == \E s \in Service : AdminAdd(s) \/ AdminEdit(s) \/ AdminRemove(s)

UpdateServiceHostConfig ==
    \/ Write \/ UpdateMeshifyServiceHost \/ ServicesDone \/ EndRound
    \/ \E fails \in BOOLEAN :
          \/ StartService(fails)
          \/ \E s \in Service : CheckService(s, fails) \/ StopService(s, fails)

Next ==
    \/ Admin
    \/ Poll \/ PollCut \/ PollNothing
    \/ UpdateServiceHostConfig
    \/ \E f \in Fault : Restart(f)

Spec == Init /\ [][Next]_vars

\* A round that has begun is carried through, and a poll succeeds some time.
FairSpec == Spec /\ WF_vars(UpdateServiceHostConfig) /\ WF_vars(Poll)

----------------------------------------------------------------------------
(* Properties *)

\* Every variable has its type.
TypeOK ==
    /\ server \in Message
    /\ gone \subseteq Service
    /\ edits \in Nat
    /\ left \in [Fault -> Nat]
    /\ hasty \in BOOLEAN
    /\ running \in [Service -> Cid \cup {Nil}]
    /\ confFile \in Message \cup {Nil, Empty}
    /\ same \in BOOLEAN /\ etag \in BOOLEAN
    /\ pc \in {"idle", "write", "pick", "start", "patch", "prune"}
    /\ booting \in BOOLEAN
    /\ msg \in Message /\ oldmsg \in Message
    /\ todo \subseteq Service
    /\ cur \in Service \cup {Nil}
    /\ id \in Cid \cup {Blank, Nil}

Happened(f) == left[f] < Limit[f]

\* A container that a record at the server names is never killed, whatever the
\* administrator, lost PATCHes and restarts do in between, unless a body was
\* cut short (servicehost.go:314-327).
KillsOnlyRemoved ==
    [][\A s \in Service :
          running[s] # Nil /\ running'[s] = Nil /\ ~Happened("cut") /\ left'["reboot"] = left["reboot"]
             => running[s] # server[s]]_vars

\* The invariant behind KillsOnlyRemoved: once a new configuration is being
\* applied, a container of the old one is either in the new one or named by no
\* record at the server, and the container just started is not an old one.
OldIsGone ==
    /\ \A f \in Fault : left[f] <= Limit[f]
    /\ \A s \in Service :
          oldmsg[s] \in Cid => msg[s] = oldmsg[s] \/ server[s] # oldmsg[s] \/ Happened("cut")
    /\ pc = "patch" => \A s \in Service : oldmsg[s] = id => id \notin Cid
    /\ pc = "prune" => todo \subseteq Removed(oldmsg, msg)

\* When the client has settled, a container that runs is the one the server's
\* record names: none is left over from a service that was removed
\* (servicehost.go:314, "Remove any containers that are no longer in the config").
NoOrphan == Settled => \A s \in Service : running[s] # Nil => running[s] = server[s]

\* No service was removed before the client had settled, no PATCH with a
\* container id was lost, no kill has failed, and the process was not restarted.
Patient == ~hasty /\ \A f \in {"lost", "stuck", "crash", "reboot"} : ~Happened(f)

\* Under these conditions no container is left over, whatever else fails
\* (servicehost.go:283-327).
NoOrphanIfPatient == Patient => NoOrphan

\* After the last edit and the last fault every service of the host has a
\* container, and it stays so: failed starts are retried because their report
\* changes the configuration, and a reboot starts everything again.  Three
\* faults are not made good: a body cut short, a start that fails at boot, and
\* the loss of a report (servicehost.go:81-94, 133-153, 283-312).
ServicesRun ==
    <>[](\/ \E f \in {"cut", "boot", "mute"} : Happened(f)
         \/ \A s \in Service : server[s] # Nil => running[s] # Nil)
----------------------------------------------------------------------------
(* The inductive invariant behind NoOrphanIfPatient *)

\* Container c is named by service s in some copy of the configuration, runs
\* for it, or was just started for it.
Names(s, c) ==
    \/ c \in {server[s], Parsed(confFile)[s], msg[s], oldmsg[s], running[s]}
    \/ cur = s /\ id = c

\* A container belongs to one service.
OneService == \A c \in Cid : \A s, t \in Service : Names(s, c) /\ Names(t, c) => s = t

\* What the client's copy, its ETag and the round under way say of each other.
Copied ==
    /\ same => confFile = server
    /\ pc = "write" => confFile = Empty /\ ~same /\ (etag => msg = server)
    /\ pc \in {"pick", "start", "patch", "prune"} => msg = Parsed(confFile)
    /\ pc \in {"pick", "start", "patch"} => todo \subseteq Config(msg)
    /\ pc \in {"start", "patch"} => cur \in Config(msg) \ todo
    /\ pc \notin {"start", "patch"} => cur = Nil
    /\ pc # "patch" => id = Nil

\* The services that the round has not yet dealt with.
Ahead ==
    CASE pc = "write" -> Config(msg)
      [] pc = "pick" -> todo
      [] pc \in {"start", "patch"} -> todo \cup {cur}
      [] OTHER -> {}

\* Their records are still those the round began with.
Fresh == \A s \in Ahead : server[s] = msg[s]

\* The round is going to kill the container that the old configuration gives s.
Doomed(s) ==
    /\ pc # "idle" /\ s \in Removed(oldmsg, msg)
    /\ pc = "prune" => s \in todo

\* A container that runs can be found: the server's record names it, it is about
\* to be announced, it is in the configuration that the next round takes for the
\* old one, or the present round is going to kill it.
Traced ==
    \A s \in Service :
        running[s] # Nil =>
            \/ server[s] = running[s]
            \/ pc = "patch" /\ cur = s /\ id = running[s]
            \/ Parsed(confFile)[s] = running[s]
            \/ pc = "write" /\ msg[s] = running[s]
            \/ oldmsg[s] = running[s] /\ Doomed(s)

OrphanInv == OneService /\ Copied /\ (Patient => Fresh /\ Traced)
=============================================================================
