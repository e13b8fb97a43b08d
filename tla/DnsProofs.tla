------------------------------ MODULE DnsProofs ------------------------------
(***************************************************************************)
(* The names of meshify.conf are served, for any meshes, configurations    *)
(* and faults: Dns with its inductive invariant.                           *)
(***************************************************************************)
EXTENDS Dns, TLAPS

Proper(c) == c \notin {Nil, Empty} /\ Served(c) = Members(c)

\* g will yet put mesh m of meshify.conf into the table.
WillAdd(g, m) ==
    \/ pc[g] \in {"reset", "read"}
    \/ pc[g] \in {"locks", "table"} /\ msg[g] = confFile
    \/ pc[g] = "fill" /\ msg[g] = confFile /\ m \in todo[g]

\* UpdateDNS is given what is in meshify.conf.
PollerHasConf == pc["poller"] = "update" => confFile = msg["poller"]

\* Unless the poller is about to replace the table, every name that is not in
\* it will be added by a call of StartDNS.
Covered ==
    pc["poller"] \notin {"write", "update"} /\ Proper(confFile) =>
        \A m \in Served(confFile) : \A e \in confFile[m] :
            e \in DnsTable \/ \E g \in Resolver : WillAdd(g, m)

\* What a call of StartDNS has to add are meshes its configuration serves.
TodoServed == \A g \in Resolver : pc[g] = "fill" => todo[g] \subseteq Served(msg[g])

IInv == TypeOK /\ TodoServed /\ PollerHasConf /\ Covered

----------------------------------------------------------------------------

\* What a configuration says of a served mesh is a set of entries.
LEMMA ServedEntries ==
    ASSUME NEW c \in Message, NEW m \in Served(c)
    PROVE  m \in Mesh /\ c[m] \subseteq Entry
BY DEF Message, Served

\* The table made from a configuration has all its entries and no others.
LEMMA EntriesType ==
    ASSUME NEW c \in Message
    PROVE  /\ Entries(c) \subseteq Entry
           /\ \A m \in Served(c) : c[m] \subseteq Entries(c)
BY ServedEntries DEF Entries

\* An empty message is a message.
LEMMA NoMeshType == NoMesh \in Message
BY DEF NoMesh, Message

\* The invariant holds at the start.
LEMMA InitIInv == Init => IInv
<1> SUFFICES ASSUME Init PROVE IInv
  OBVIOUS
<1>1. TypeOK
  <2>1. server \in Confs /\ edits \in Nat /\ left \in [Fault -> Nat]
    BY BoundsType DEF Init
  <2>2. confFile \in Message \cup {Nil, Empty}
    BY ConfsType DEF Init
  <2>3. msg \in [Actor -> Message]
    BY NoMeshType DEF Init
  <2>4. todo \in [Resolver -> SUBSET Mesh] /\ pc \in [Actor -> Label]
    BY DEF Init, Label
  <2> QED
    BY <2>1, <2>2, <2>3, <2>4 DEF Init, TypeOK
<1>2. PollerHasConf
  BY DEF Init, PollerHasConf, Actor, Resolver
<1>5. TodoServed
  BY DEF Init, TodoServed, Resolver, Actor
<1>3. pc["starter"] = "reset" /\ "starter" \in Resolver
  BY DEF Init, Actor, Resolver
<1>4. Covered
  BY <1>3 DEF Covered, WillAdd
<1> QED
  BY <1>1, <1>2, <1>4, <1>5 DEF IInv

\* A step keeps the types.
LEMMA TypeStep == TypeOK /\ TodoServed /\ [Next]_vars => TypeOK'
<1> SUFFICES ASSUME TypeOK, TodoServed, [Next]_vars PROVE TypeOK'
  OBVIOUS
<1> USE DEF TypeOK, Spend, Goto, locks
<1>p. /\ "poller" \in Actor /\ Resolver \subseteq Actor /\ "refresher" \in Resolver
      /\ "starter" \in Resolver
  BY DEF Actor, Resolver
<1>1. CASE AdminEdit
  BY <1>1 DEF AdminEdit
<1>2. CASE PollFetch
  BY <1>2, <1>p, ConfsType DEF PollFetch, Label
<1>3. CASE WriteConf
  BY <1>3, <1>p DEF WriteConf, Label
<1>4. CASE UpdateTable
  <2>1. msg["poller"] \in Message
    BY <1>p
  <2> QED
    BY <1>4, <2>1, <1>p, EntriesType DEF UpdateTable, Label
<1>5. CASE UpdateServers
  BY <1>5, <1>p, NoMeshType DEF UpdateServers, Label
<1>6. CASE UpdateFails
  BY <1>6, <1>p, NoMeshType DEF UpdateFails, Label
<1>7. CASE PollDenied
  BY <1>7, <1>p DEF PollDenied, Fault
<1>8. CASE Refresh
  BY <1>8, <1>p DEF Refresh, Label
<1>9. ASSUME NEW g \in Resolver, StartDNS(g) PROVE TypeOK'
  <2>1. CASE Reset(g)
    BY <2>1, <1>p DEF Reset, Label
  <2>2. CASE Read(g)
    BY <2>2, <1>p DEF Read, Label
  <2>3. CASE LockServers(g)
    BY <2>3, <1>p DEF LockServers, Label
  <2>4. CASE LockTable(g)
    <3>1. Served(msg[g]) \in SUBSET Mesh
      BY DEF Served
    <3> QED
      BY <2>4, <3>1, <1>p DEF LockTable, Label
  <2>5. CASE Filled(g)
    BY <2>5, <1>p, NoMeshType DEF Filled, Label
  <2>6. ASSUME NEW m \in Mesh, Fill(g, m) PROVE TypeOK'
    <3>1. msg[g] \in Message
      BY <1>p
    <3>2. msg[g][m] \subseteq Entry
      <4>1. m \in Served(msg[g])
        BY <2>6 DEF Fill, TodoServed
      <4> QED
        BY <3>1, <4>1, ServedEntries
    <3> QED
      BY <2>6, <3>2, <1>p DEF Fill
  <2> QED
    BY <1>9, <2>1, <2>2, <2>3, <2>4, <2>5, <2>6 DEF StartDNS
<1>10. CASE Restart
  <2>1. msg' \in [Actor -> Message]
    BY <1>10, NoMeshType DEF Restart
  <2> QED
    BY <1>10, <2>1 DEF Restart, Label, Fault
<1>11. CASE UNCHANGED vars
  BY <1>11 DEF vars
<1> QED
  BY <1>1, <1>2, <1>3, <1>4, <1>5, <1>6, <1>7, <1>8, <1>9, <1>10, <1>11
     DEF Next, UpdateDNS

\* The other parts of the invariant that say what a goroutine works on.
LEMMA WorkStep ==
    TypeOK /\ TodoServed /\ PollerHasConf /\ [Next]_vars => TodoServed' /\ PollerHasConf'
<1> SUFFICES ASSUME TypeOK, TodoServed, PollerHasConf, [Next]_vars
             PROVE  TodoServed' /\ PollerHasConf'
  OBVIOUS
<1> USE DEF TypeOK, TodoServed, PollerHasConf, Goto
<1>p. "poller" \in Actor /\ Resolver \subseteq Actor /\ "poller" \notin Resolver
  BY DEF Actor, Resolver
<1>1. CASE AdminEdit
  BY <1>1, <1>p DEF AdminEdit
<1>2. CASE PollFetch
  BY <1>2, <1>p DEF PollFetch
<1>3. CASE UpdateDNS
  BY <1>3, <1>p DEF UpdateDNS, WriteConf, UpdateTable, UpdateServers, UpdateFails, locks
<1>4. CASE PollDenied
  BY <1>4, <1>p DEF PollDenied
<1>5. CASE Refresh
  BY <1>5, <1>p DEF Refresh, Resolver
<1>6. ASSUME NEW g \in Resolver, StartDNS(g) PROVE TodoServed' /\ PollerHasConf'
  <2>1. CASE Reset(g) \/ Read(g) \/ LockServers(g) \/ Filled(g)
    BY <2>1, <1>p DEF Reset, Read, LockServers, Filled
  <2>2. CASE LockTable(g)
    BY <2>2, <1>p DEF LockTable
  <2>3. ASSUME NEW m \in Mesh, Fill(g, m) PROVE TodoServed' /\ PollerHasConf'
    BY <2>3, <1>p DEF Fill
  <2> QED
    BY <1>6, <2>1, <2>2, <2>3 DEF StartDNS
<1>7. CASE Restart
  BY <1>7, <1>p DEF Restart
<1>8. CASE UNCHANGED vars
  BY <1>8 DEF vars
<1> QED
  BY <1>1, <1>2, <1>3, <1>4, <1>5, <1>6, <1>7, <1>8 DEF Next

\* No step of StartDNS loses an entry that is in the table or will be: Reset
\* empties the table, but then g has the file still to read.
LEMMA StartKeeps ==
    ASSUME IInv, NEW g \in Resolver, StartDNS(g),
           Proper(confFile), pc["poller"] \notin {"write", "update"}
    PROVE  Covered'
<1> SUFFICES ASSUME NEW m \in Served(confFile), NEW e \in confFile[m]
             PROVE  (e \in DnsTable \/ \E h \in Resolver : WillAdd(h, m))'
  BY DEF Covered, StartDNS, Reset, Read, LockServers, LockTable, Filled, Fill, Proper, Served
<1> USE DEF IInv, TypeOK, Goto
<1>p. g \in Actor /\ Resolver \subseteq Actor
  BY DEF Actor
<1>0. e \in DnsTable \/ \E h \in Resolver : WillAdd(h, m)
  BY DEF Covered
<1>m. m \in Mesh
  BY DEF Served
<1>1. CASE Reset(g)
  BY <1>1, <1>p DEF Reset, WillAdd
<1>2. CASE Read(g)
  <2>1. pc[g] = "read" /\ pc' = [pc EXCEPT ![g] = "locks"] /\ msg' = [msg EXCEPT ![g] = confFile]
    BY <1>2 DEF Read, Proper
  <2> QED
    BY <1>2, <2>1, <1>p DEF Read, WillAdd
<1>3. CASE LockServers(g)
  BY <1>3, <1>0, <1>p DEF LockServers, WillAdd
<1>4. CASE LockTable(g)
  <2>1. ASSUME NEW h \in Resolver, WillAdd(h, m) PROVE WillAdd(h, m)'
    BY <1>4, <2>1, <1>p DEF LockTable, WillAdd
  <2> QED
    BY <1>4, <1>0, <2>1 DEF LockTable
<1>5. CASE Filled(g)
  <2>1. ASSUME NEW h \in Resolver, WillAdd(h, m) PROVE WillAdd(h, m)'
    BY <1>5, <2>1, <1>p DEF Filled, WillAdd
  <2> QED
    BY <1>5, <1>0, <2>1 DEF Filled
<1>6. ASSUME NEW n \in Mesh, Fill(g, n)
      PROVE  (e \in DnsTable \/ \E h \in Resolver : WillAdd(h, m))'
  <2>1. ASSUME NEW h \in Resolver, WillAdd(h, m)
        PROVE  (e \in DnsTable \/ WillAdd(h, m))'
    <3>1. CASE h = g /\ n = m
      BY <3>1, <1>6, <2>1 DEF Fill, WillAdd
    <3>2. CASE ~(h = g /\ n = m)
      BY <3>2, <1>6, <2>1, <1>p DEF Fill, WillAdd
    <3> QED
      BY <3>1, <3>2
  <2> QED
    BY <1>6, <1>0, <2>1 DEF Fill
<1> QED
  BY <1>1, <1>2, <1>3, <1>4, <1>5, <1>6 DEF StartDNS

\* Every step keeps the names covered.
LEMMA CoveredStep == IInv /\ TypeOK' /\ [Next]_vars => Covered'
<1> SUFFICES ASSUME IInv, TypeOK', [Next]_vars PROVE Covered'
  OBVIOUS
<1>p. "poller" \in Actor /\ Resolver \subseteq Actor /\ "poller" \notin Resolver
  BY DEF Actor, Resolver
<1> USE DEF IInv, Goto
<1>1. CASE AdminEdit
  BY <1>1 DEF AdminEdit, Covered, WillAdd
<1>2. CASE PollFetch
  BY <1>2, <1>p DEF PollFetch, Covered, TypeOK
<1>3. CASE WriteConf
  BY <1>3, <1>p DEF WriteConf, Covered, TypeOK
<1>4. CASE UpdateTable
  <2>1. confFile' = confFile /\ confFile = msg["poller"] /\ DnsTable' = Entries(confFile)
    BY <1>4 DEF UpdateTable, PollerHasConf
  <2>2. confFile \in Message
    BY <2>1, <1>p DEF TypeOK
  <2> QED
    BY <2>1, <2>2, EntriesType DEF Covered
<1>5. CASE UpdateServers
  BY <1>5, <1>p DEF UpdateServers, Covered, WillAdd, TypeOK
<1>6. CASE UpdateFails
  BY <1>6 DEF UpdateFails, PollerHasConf, Covered, Proper
<1>7. CASE PollDenied
  BY <1>7 DEF PollDenied, Covered, Proper
<1>8. CASE Refresh
  BY <1>8, <1>p DEF Refresh, Covered, WillAdd, TypeOK
<1>9. ASSUME NEW g \in Resolver, StartDNS(g) PROVE Covered'
  <2>1. confFile' = confFile /\ pc'["poller"] = pc["poller"]
    BY <1>9, <1>p DEF StartDNS, Reset, Read, LockServers, LockTable, Filled, Fill, TypeOK
  <2>2. CASE Proper(confFile) /\ pc["poller"] \notin {"write", "update"}
    BY <1>9, <2>2, StartKeeps
  <2>3. CASE ~(Proper(confFile) /\ pc["poller"] \notin {"write", "update"})
    BY <2>1, <2>3 DEF Covered, Proper, Served, Members
  <2> QED
    BY <2>2, <2>3
<1>10. CASE Restart
  <2>1. pc'["starter"] = "reset" /\ "starter" \in Resolver
    BY <1>10 DEF Restart, Actor, Resolver
  <2> QED
    BY <2>1 DEF Covered, WillAdd
<1>11. CASE UNCHANGED vars
  BY <1>11 DEF vars, Covered, WillAdd, Proper, Served, Members
<1> QED
  BY <1>1, <1>2, <1>3, <1>4, <1>5, <1>6, <1>7, <1>8, <1>9, <1>10, <1>11 DEF Next, UpdateDNS

\* Every reachable state satisfies the invariant.
THEOREM DnsInductive == Spec => []IInv
<1>1. IInv /\ [Next]_vars => IInv'
  BY TypeStep, WorkStep, CoveredStep DEF IInv
<1> QED
  BY InitIInv, <1>1, PTL DEF Spec

\* Every reachable state is well typed.
THEOREM TypeCorrect == Spec => []TypeOK
<1>1. IInv => TypeOK
  BY DEF IInv
<1> QED
  BY <1>1, DnsInductive, PTL

\* Whenever no call is under way, every name of meshify.conf is answered with
\* all its addresses (NamesServed), for any number of meshes, names and faults.
THEOREM AllNamesServed == Spec => []NamesServed
<1>1. IInv => NamesServed
  <2> SUFFICES ASSUME IInv, Quiet, confFile \notin {Nil, Empty},
                      Served(confFile) = Members(confFile), NEW e \in Entries(confFile)
               PROVE  e[2] \in Answer(e[1])
    BY DEF NamesServed
  <2>1. confFile \in Message
    BY DEF IInv, TypeOK
  <2>2. PICK m \in Served(confFile) : e \in confFile[m]
    BY DEF Entries
  <2>3. e \in Entry
    BY <2>1, <2>2, ServedEntries
  <2>4. \A g \in Resolver : ~WillAdd(g, m)
    BY DEF Quiet, WillAdd, Actor
  <2>5. pc["poller"] \notin {"write", "update"}
    BY DEF Quiet, Actor
  <2>6. e \in DnsTable
    BY <2>2, <2>4, <2>5 DEF IInv, Covered, Proper
  <2>7. e = <<e[1], e[2]>> /\ e[2] \in Addr
    BY <2>3 DEF Entry
  <2> QED
    BY <2>6, <2>7 DEF Answer
<1> QED
  BY <1>1, DnsInductive, PTL

=============================================================================
