--------------------------------- MODULE Dns ---------------------------------
(***************************************************************************)
(* The names the client's DNS server answers (dns.go), and the three       *)
(* goroutines that write its table.                                        *)
(*                                                                         *)
(* StartDNS runs once at the start and again for every mesh of every       *)
(* hourly refresh.  It empties the table without a lock, waits until there *)
(* is a meshify.conf, and adds the names of that file under both locks.    *)
(* UpdateDNS is called by the poller after it has written a new            *)
(* meshify.conf, and replaces the whole table under the lock.              *)
(* handleQueries reads the table without any lock: the Go runtime may end  *)
(* the process when it catches a read during a write.                      *)
(*                                                                         *)
(* An entry is a name and one of its addresses.  Reverse lookups, which    *)
(* are assigned and not added to, are left out.  ServerTable is written    *)
(* like DnsTable and never read; only its lock is modelled.                *)
(***************************************************************************)
EXTENDS Naturals

CONSTANTS
    Mesh,       \* names of meshes
    Name,       \* DNS names
    Addr,       \* their addresses
    Confs,      \* the configurations the server may send
    Nil,        \* an absent file or mesh, nobody
    Empty,      \* an empty file
    NoHost,     \* a mesh that is listed without a record of this host
    Limit,      \* how often each fault may happen
    MaxEdits    \* how many changes the administrator makes

Resolver == {"starter", "refresher"}    \* they run StartDNS
Actor == Resolver \cup {"poller"}
Fault == {"crash", "denied"}

Entry == Name \X Addr

\* What a configuration makes of each mesh: the entries to serve (none when
\* this host or its DNS is switched off), NoHost, or Nil when it is not listed.
Message == [Mesh -> {NoHost, Nil} \cup SUBSET Entry]
NoMesh == [m \in Mesh |-> Nil]

ASSUME ConfsType == Confs \subseteq Message
ASSUME NilIsNoData ==
    /\ Nil \notin Message /\ Empty \notin Message /\ Nil # Empty
    /\ Nil \notin Actor
    /\ \A s \in SUBSET Entry : s # NoHost /\ s # Nil
    /\ Nil # NoHost
ASSUME BoundsType == Limit \in [Fault -> Nat] /\ MaxEdits \in Nat

VARIABLES
    server,     \* the server's configuration
    edits,      \* changes the administrator has made
    left,       \* what is left of Limit
    confFile,   \* meshify.conf
    DnsTable,   \* the entries served
    ServerLock, \* who holds it
    DnsLock,    \* who holds it
    pc,         \* where each goroutine is
    msg,        \* the configuration it works on
    todo        \* the meshes it still has to add

locks == <<ServerLock, DnsLock>>
vars == <<server, edits, left, confFile, DnsTable, ServerLock, DnsLock, pc, msg, todo>>

Spend(f) == left[f] > 0 /\ left' = [left EXCEPT ![f] = @ - 1]
Goto(a, label) == pc' = [pc EXCEPT ![a] = label]

Members(message) == {m \in Mesh : message[m] # Nil}
Served(message) == {m \in Mesh : message[m] \notin {NoHost, Nil}}
Entries(message) == UNION {message[m] : m \in Served(message)}

\* handleQueries: what is found under a name; nothing found is answered with a
\* server failure.
Answer(n) == {a \in Addr : <<n, a>> \in DnsTable}

----------------------------------------------------------------------------
(* The server and the poller *)

AdminEdit ==
    /\ edits < MaxEdits
    /\ edits' = edits + 1
    /\ server' \in Confs \ {server}
    /\ UNCHANGED <<left, confFile, DnsTable, locks, pc, msg, todo>>

\* A poll brings a new configuration: meshify.conf is truncated, ...
PollFetch ==
    /\ pc["poller"] = "idle" /\ confFile # server
    /\ msg' = [msg EXCEPT !["poller"] = server]
    /\ confFile' = Empty
    /\ Goto("poller", "write")
    /\ UNCHANGED <<server, edits, left, DnsTable, locks, todo>>

\* ... written, ...
WriteConf ==
    /\ pc["poller"] = "write"
    /\ confFile' = msg["poller"]
    /\ Goto("poller", "update")
    /\ UNCHANGED <<server, edits, left, DnsTable, locks, msg, todo>>

\* Mutant: a return without DnsLock.Unlock.
UpdateTableLocked ==
    /\ pc["poller"] = "update" /\ Served(msg["poller"]) = Members(msg["poller"])
    /\ DnsLock = Nil
    /\ DnsLock' = "poller"
    /\ DnsTable' = Entries(msg["poller"])
    /\ Goto("poller", "servers")
    /\ UNCHANGED <<server, edits, left, confFile, ServerLock, msg, todo>>

\* ... and UpdateDNS replaces the table under its lock, ...
UpdateTable ==
    /\ pc["poller"] = "update" /\ Served(msg["poller"]) = Members(msg["poller"])
    /\ DnsLock = Nil
    /\ DnsTable' = Entries(msg["poller"])
    /\ Goto("poller", "servers")
    /\ UNCHANGED <<server, edits, left, confFile, locks, msg, todo>>

\* ... then ServerTable under the other.
UpdateServers ==
    /\ pc["poller"] = "servers"
    /\ ServerLock = Nil
    /\ Goto("poller", "idle")
    /\ msg' = [msg EXCEPT !["poller"] = NoMesh]
    /\ UNCHANGED <<server, edits, left, confFile, DnsTable, locks, todo>>

\* One mesh without this host makes UpdateDNS return before it replaces anything.
UpdateFails ==
    /\ pc["poller"] = "update" /\ Served(msg["poller"]) # Members(msg["poller"])
    /\ Goto("poller", "idle")
    /\ msg' = [msg EXCEPT !["poller"] = NoMesh]
    /\ UNCHANGED <<server, edits, left, confFile, DnsTable, locks, todo>>

\* A 401 with one mesh deletes meshify.conf.
PollDenied ==
    /\ pc["poller"] = "idle" /\ Spend("denied")
    /\ \E m \in Mesh : confFile \notin {Nil, Empty} /\ Members(confFile) = {m}
    /\ confFile' = Nil
    /\ UNCHANGED <<server, edits, DnsTable, locks, pc, msg, todo>>

----------------------------------------------------------------------------
(* StartDNS *)

\* The hourly refresh calls it for each mesh of meshify.conf; it ends for good
\* when there is no such file.
Refresh ==
    /\ pc["refresher"] = "idle"
    /\ \/ confFile = Nil /\ Goto("refresher", "dead")
       \/ confFile \notin {Nil, Empty} /\ Members(confFile) # {} /\ Goto("refresher", "reset")
    /\ UNCHANGED <<server, edits, left, confFile, DnsTable, locks, msg, todo>>

\* Mutant: the table is kept.
ResetNothing(g) ==
    /\ pc[g] = "reset"
    /\ Goto(g, "read")
    /\ UNCHANGED <<server, edits, left, confFile, DnsTable, locks, msg, todo>>

\* Both tables are made anew, without a lock.
Reset(g) ==
    /\ pc[g] = "reset"
    /\ DnsTable' = {}
    /\ Goto(g, "read")
    /\ UNCHANGED <<server, edits, left, confFile, locks, msg, todo>>

\* Mutant: what does not parse is used all the same.
ReadAnything(g) ==
    /\ pc[g] = "read" /\ confFile # Nil
    /\ msg' = [msg EXCEPT ![g] = confFile]
    /\ Goto(g, "locks")
    /\ UNCHANGED <<server, edits, left, confFile, DnsTable, locks, todo>>

\* It waits for the file; one that does not parse ends the call.
Read(g) ==
    /\ pc[g] = "read" /\ confFile # Nil
    /\ \/ confFile = Empty /\ Goto(g, "idle") /\ UNCHANGED msg
       \/ confFile # Empty /\ Goto(g, "locks") /\ msg' = [msg EXCEPT ![g] = confFile]
    /\ UNCHANGED <<server, edits, left, confFile, DnsTable, locks, todo>>

\* Mutant: the tables are made anew under the lock, after the file was read.
LockServersResets(g) ==
    /\ pc[g] = "locks" /\ ServerLock = Nil
    /\ ServerLock' = g
    /\ DnsTable' = {}
    /\ Goto(g, "table")
    /\ UNCHANGED <<server, edits, left, confFile, DnsLock, msg, todo>>

LockServers(g) ==
    /\ pc[g] = "locks" /\ ServerLock = Nil
    /\ ServerLock' = g
    /\ Goto(g, "table")
    /\ UNCHANGED <<server, edits, left, confFile, DnsTable, DnsLock, msg, todo>>

LockTable(g) ==
    /\ pc[g] = "table" /\ DnsLock = Nil
    /\ DnsLock' = g
    /\ todo' = [todo EXCEPT ![g] = Served(msg[g])]
    /\ Goto(g, "fill")
    /\ UNCHANGED <<server, edits, left, confFile, DnsTable, ServerLock, msg>>

\* The entries of one mesh are added to the table, whoever made it.
Fill(g, m) ==
    /\ pc[g] = "fill" /\ m \in todo[g]
    /\ DnsTable' = DnsTable \cup msg[g][m]
    /\ todo' = [todo EXCEPT ![g] = @ \ {m}]
    /\ UNCHANGED <<server, edits, left, confFile, locks, pc, msg>>

\* StartDNS returns and releases both locks.
Filled(g) ==
    /\ pc[g] = "fill" /\ todo[g] = {}
    /\ ServerLock' = Nil /\ DnsLock' = Nil
    /\ Goto(g, "idle")
    /\ msg' = [msg EXCEPT ![g] = NoMesh]
    /\ UNCHANGED <<server, edits, left, confFile, DnsTable, todo>>

----------------------------------------------------------------------------
(* Crash *)

\* The process dies, at any time (when a query meets a write to the table, for
\* one) and is started again: StartDNS runs on the meshify.conf there is.
Restart ==
    /\ Spend("crash")
    /\ DnsTable' = {}
    /\ ServerLock' = Nil /\ DnsLock' = Nil
    /\ pc' = [a \in Actor |-> IF a = "starter" THEN "reset" ELSE "idle"]
    /\ msg' = [a \in Actor |-> NoMesh]
    /\ todo' = [g \in Resolver |-> {}]
    /\ UNCHANGED <<server, edits, confFile>>

----------------------------------------------------------------------------
(* The specification *)

Init ==
    /\ server \in Confs /\ confFile \in {server, Nil}
    /\ edits = 0 /\ left = Limit
    /\ DnsTable = {}
    /\ ServerLock = Nil /\ DnsLock = Nil
    /\ pc = [a \in Actor |-> IF a = "starter" THEN "reset" ELSE "idle"]
    /\ msg = [a \in Actor |-> NoMesh]
    /\ todo = [g \in Resolver |-> {}]

UpdateDNS == WriteConf \/ UpdateTable \/ UpdateServers \/ UpdateFails

StartDNS(g) ==
    \/ Reset(g) \/ Read(g) \/ LockServers(g) \/ LockTable(g) \/ Filled(g)
    \/ \E m \in Mesh : Fill(g, m)

Next ==
    \/ AdminEdit
    \/ PollFetch \/ UpdateDNS \/ PollDenied
    \/ Refresh \/ \E g \in Resolver : StartDNS(g)
    \/ Restart

Spec == Init /\ [][Next]_vars

\* Goroutines run on, polls and refreshes come round, and a mutex lets nobody
\* wait forever; a goroutine that waits for meshify.conf sees it when it is there
\* for a second.
FairSpec ==
    /\ Spec
    /\ WF_vars(PollFetch) /\ SF_vars(UpdateDNS)
    /\ SF_vars(Refresh) /\ \A g \in Resolver : SF_vars(StartDNS(g))

----------------------------------------------------------------------------
(* Properties *)

Label == {"idle", "dead", "write", "update", "servers",
          "reset", "read", "locks", "table", "fill"}

\* Every variable has its type.
TypeOK ==
    /\ server \in Confs
    /\ edits \in Nat
    /\ left \in [Fault -> Nat]
    /\ confFile \in Message \cup {Nil, Empty}
    /\ DnsTable \subseteq Entry
    /\ ServerLock \in Resolver \cup {Nil}
    /\ DnsLock \in Resolver \cup {Nil}
    /\ pc \in [Actor -> Label]
    /\ msg \in [Actor -> Message]
    /\ todo \in [Resolver -> SUBSET Mesh]

\* No call of StartDNS or UpdateDNS is under way.
Quiet == \A a \in Actor : pc[a] \in {"idle", "dead"}

\* Every name of the configuration in meshify.conf is answered with every
\* address it has there, whatever calls of StartDNS and UpdateDNS overlapped
\* and whatever they read half written - unless a mesh without this host made
\* UpdateDNS give up (dns.go:27-53, 143-146, 189-195).
NamesServed ==
    Quiet /\ confFile \notin {Nil, Empty} /\ Served(confFile) = Members(confFile)
        => \A e \in Entries(confFile) : e[2] \in Answer(e[1])

\* A call of StartDNS that read the old file adds names that are gone, but not
\* for ever: again and again the table is what meshify.conf says, as long as
\* the refresher lives and has a mesh to call StartDNS for (dns.go:28-29).
StaleNamesGo ==
    []<>(\/ confFile \notin {Nil, Empty} /\ DnsTable = Entries(confFile)
         \/ pc["refresher"] = "dead"
         \/ Members(server) = {})

\* Every call of StartDNS and UpdateDNS returns: the locks are taken in one
\* order, and a meshify.conf that a 401 deleted comes back (dns.go:34-49, 189-195).
CallsReturn == \A a \in Actor : pc[a] \notin {"idle", "dead"} ~> pc[a] \in {"idle", "dead"}

=============================================================================
