-------------------------- MODULE MeshRoundsProofs --------------------------
(***************************************************************************)
(* Proofs about rounds that take turns: no interface outlives its mesh     *)
(* (NoZombieInTurn), and what the poller skips is up to date (SkipIsSound). *)
(***************************************************************************)
EXTENDS MeshRounds, MeshSyncProofs

----------------------------------------------------------------------------
(* What is left of the faults *)

\* No step makes up for a fault.
LEMMA StepSpent == TypeOK /\ [Next]_vars => \A f \in Fault : left'[f] <= left[f]
<1> DEFINE Less == \A f \in Fault : left'[f] <= left[f]
<1> SUFFICES ASSUME TypeOK, [Next]_vars PROVE Less
  OBVIOUS
<1>1. CASE left' = left
  BY <1>1 DEF TypeOK
<1>2. ASSUME NEW F, Spend(F) PROVE Less
  BY <1>2, SpendLeft
<1>3. ASSUME NEW fails \in BOOLEAN, keyHandler(fails) PROVE Less
  BY <1>2, <1>3 DEF keyHandler
<1>4. ASSUME NEW m \in Mesh, NEW fails \in BOOLEAN, stopServiceHandler(m, fails) PROVE Less
  BY <1>2, <1>4 DEF stopServiceHandler
<1>5. CASE PollFails
  BY <1>2, <1>5 DEF PollFails, PollError, PollGarbled, PollDenied
<1>6. ASSUME NEW m \in Mesh, NEW fails \in BOOLEAN, Prune(m, fails) PROVE Less
  BY <1>2, <1>6 DEF Prune
<1>7. ASSUME NEW a \in Actor, NEW fails \in BOOLEAN, Store(a, fails) \/ Save(a, fails) \/ Up(a, fails) PROVE Less
  BY <1>2, <1>7 DEF Store, Save, Up
<1>8. ASSUME NEW a \in Actor, UpdateMeshifyHost(a) PROVE Less
  BY <1>1, <1>2, <1>8 DEF UpdateMeshifyHost
<1>9. ASSUME NEW c \in copies, ConfigureUPnP(c) PROVE Less
  BY <1>1, <1>2, <1>9 DEF ConfigureUPnP
<1>10. ASSUME NEW f \in Fault, NEW cut \in BOOLEAN, Restart(f, cut) PROVE Less
  BY <1>2, <1>10 DEF Restart
<1>11. CASE Admin \/ (\E s \in stops : stopServiceRemoves(s)) \/ PollFetch \/ PollNotModified \/ RefreshOpen
  BY <1>1, <1>11 DEF Admin, AdminAdd, AdminEdit, AdminRemove, stopServiceRemoves, PollFetch, PollNotModified, RefreshOpen
<1>12. CASE WriteConf \/ Unlink \/ PruneDone \/ Compare \/ Clear
  BY <1>1, <1>12 DEF WriteConf, Unlink, PruneDone, Compare, Clear
<1>13. ASSUME NEW a \in Actor, NEW m \in Mesh, Begin(a, m) PROVE Less
  BY <1>1, <1>13 DEF Begin, KeyLookup
<1>14. ASSUME NEW fails \in BOOLEAN, Forget(fails) \/ Stop(fails) PROVE Less
  BY <1>2, <1>14 DEF Forget, Stop
<1>15. ASSUME NEW a \in Actor, Regenerate(a) \/ Put(a) \/ Clean(a) \/ EndRound(a) PROVE Less
  BY <1>1, <1>15 DEF Regenerate, Put, Clean, EndRound
<1>16. CASE UNCHANGED vars
  BY <1>1, <1>16 DEF vars
<1> QED
  BY <1>3, <1>4, <1>5, <1>6, <1>7, <1>8, <1>9, <1>10, <1>11, <1>12, <1>13, <1>14, <1>15, <1>16
     DEF Next, HTTP, UpdateMeshifyConfig, Apply, Configure

\* What has happened has happened, and what happens now is remembered.
LEMMA Remembered ==
    ASSUME TypeOK, TypeOK', Turns, \A f \in Fault : left'[f] <= left[f]
    PROVE  /\ \A f \in Fault : left'[f] <= Limit[f]
           /\ \A f \in Fault : Happened(f) => Happened(f)'
           /\ \A F : Spend(F) => \A f \in Fault \cap F : Happened(f)'
<1>1. \A f \in Fault : left[f] \in Nat /\ left'[f] \in Nat /\ Limit[f] \in Nat /\ left[f] <= Limit[f]
  BY LimitType DEF TypeOK, Turns
<1>2. \A f \in Fault : left'[f] <= Limit[f]
  BY <1>1
<1>3. \A f \in Fault : Happened(f) => Happened(f)'
  BY <1>1 DEF Happened
<1>4. ASSUME NEW F, Spend(F), NEW f \in Fault \cap F PROVE Happened(f)'
  BY <1>1, <1>4, SpendLeft DEF Happened
<1> QED
  BY <1>2, <1>3, <1>4

\* Where wg-quick down is never to have failed, it does not.
LEMMA Succeeds ==
    ASSUME TypeOK, TypeOK', Turns, [Next]_vars, ~Happened("stuck")', NEW fails \in BOOLEAN,
           Spend(When(fails, "stuck")) \/ Spend({"stop"} \cup When(fails, "stuck"))
    PROVE  ~fails
<1>1. \A F : Spend(F) => "stuck" \notin F
  BY StepSpent, Remembered DEF Fault
<1> QED
  BY <1>1 DEF When

----------------------------------------------------------------------------
(* Turns *)

\* Goroutine a moves on in its round, starting none and leaving none.
Onward(a) == pc[a] \notin {"idle", "dead", "write"} /\ pc'[a] \notin {"idle", "dead", "write"}

\* A step in which the goroutines at most move on.
LEMMA TurnsKept ==
    ASSUME Turns, \A f \in Fault : left'[f] <= Limit[f],
           confFile' = confFile, msg' = msg,
           \A a \in Actor : pc'[a] = pc[a] \/ Onward(a)
    PROVE  Turns'
BY DEF Turns, Onward, Active, Actor

\* The configurations in files and hands are no Nil and no Empty.
LEMMA MessagesAreData ==
    ASSUME TypeOK
    PROVE  /\ \A a \in Actor : msg[a] # Nil /\ msg[a] # Empty /\ Parsed(msg[a]) = msg[a]
           /\ server # Nil /\ server # Empty
BY NilIsNoData, EmptyIsNoData DEF TypeOK, Parsed

\* Every step keeps the turns.
LEMMA StepTurns == TypeOK /\ TypeOK' /\ Turns /\ [Next]_vars => Turns'
<1> SUFFICES ASSUME TypeOK, TypeOK', Turns, [Next]_vars PROVE Turns'
  OBVIOUS
<1>0. /\ \A f \in Fault : left'[f] <= Limit[f]
      /\ \A a \in Actor : pc[a] \in Label
      /\ "poller" \in Actor /\ "refresher" \in Actor /\ Parsed(Empty) = Parsed(Nil)
  BY StepSpent, Remembered DEF TypeOK, Actor, Parsed
<1> USE <1>0, TurnsKept DEF workVars, diskVars, asideVars, saveVars, copyVars, stopVars, Goto, NextMesh, Onward
<1>1. ASSUME NEW m \in Mesh, AdminAdd(m) \/ AdminEdit(m) \/ AdminRemove(m) PROVE Turns'
  BY <1>1 DEF AdminAdd, AdminEdit, AdminRemove
<1>2. ASSUME NEW fails \in BOOLEAN, keyHandler(fails) PROVE Turns'
  BY <1>2 DEF keyHandler
<1>3. ASSUME NEW m \in Mesh, NEW fails \in BOOLEAN, stopServiceHandler(m, fails) PROVE Turns'
  BY <1>3 DEF stopServiceHandler
<1>28. ASSUME NEW s \in stops, stopServiceRemoves(s) PROVE Turns'
  BY <1>28 DEF stopServiceRemoves
<1>4. CASE PollFetch
  <2>1. MayStart("poller")
    BY <1>4 DEF PollFetch
  <2>2. CASE confFile' = confFile /\ pc' = pc /\ msg' = msg
    BY <2>2
  <2>3. CASE confFile' = Empty /\ pc' = [pc EXCEPT !["poller"] = "write"]
             /\ msg' = [msg EXCEPT !["poller"] = server]
    <3>1. /\ pc'["poller"] = "write" /\ pc'["refresher"] = pc["refresher"]
          /\ msg'["refresher"] = msg["refresher"]
      BY <2>3 DEF TypeOK
    <3>2. ~Overlap => ~Active("refresher")
      BY <2>1 DEF MayStart, Active, Actor
    <3> QED
      BY <2>3, <3>1, <3>2 DEF Turns, Active
  <2> QED
    BY <1>4, <2>2, <2>3 DEF PollFetch
<1>5. ASSUME MayStart("poller"), pc' = pc, msg' = msg, confFile' \in {confFile, Nil, Empty},
             Parsed(confFile)' = Parsed(confFile) \/ \A a \in Actor : ~Overlap => ~Active(a)
      PROVE  Turns'
  BY <1>5 DEF Turns, MayStart, Active
<1>6. CASE PollNotModified
  BY <1>5, <1>6 DEF PollNotModified, Parsed
<1>7. CASE PollError
  BY <1>7 DEF PollError
<1>8. CASE PollGarbled
  BY <1>5, <1>8 DEF PollGarbled, Parsed
<1>9. CASE PollDenied
  <2>1. \A a \in Actor : ~Overlap => ~Active(a)
    BY <1>9 DEF PollDenied, MayStart, Active, Actor
  <2> QED
    BY <1>5, <1>9, <2>1 DEF PollDenied
<1>10. CASE WriteConf
  <2>1. /\ pc'["poller"] = "prune" /\ pc'["refresher"] = pc["refresher"] /\ msg' = msg
        /\ pc["poller"] = "write" /\ confFile' = msg["poller"]
    BY <1>10 DEF WriteConf, TypeOK
  <2> QED
    BY <2>1 DEF Turns, Active
<1>11. ASSUME NEW m \in Mesh, NEW fails \in BOOLEAN, Prune(m, fails) PROVE Turns'
  BY <1>11 DEF Prune, TypeOK
<1>29. CASE Unlink
  BY <1>29 DEF Unlink, TypeOK
<1>12. ASSUME NEW fails \in BOOLEAN, Forget(fails) PROVE Turns'
  BY <1>12 DEF Forget, TypeOK
<1>13. CASE PruneDone
  BY <1>13 DEF PruneDone, TypeOK
<1>14. CASE Compare
  BY <1>14 DEF Compare, TypeOK
<1>15. ASSUME NEW fails \in BOOLEAN, Stop(fails) PROVE Turns'
  BY <1>15 DEF Stop, TypeOK
<1>30. CASE Clear
  BY <1>30 DEF Clear, TypeOK
<1>16. CASE RefreshOpen
  <2>1. /\ MayStart("refresher") /\ confFile' = confFile
        /\ pc'["poller"] = pc["poller"] /\ msg'["poller"] = msg["poller"]
    BY <1>16 DEF RefreshOpen, TypeOK
  <2>2. pc'["refresher"] = "dead" \/ msg'["refresher"] = Parsed(confFile)
    BY <1>16 DEF RefreshOpen, TypeOK
  <2>3. ~Overlap => ~Active("poller")
    BY <2>1 DEF MayStart, Active, Actor
  <2> QED
    BY <2>1, <2>2, <2>3 DEF Turns, Active, Parsed
<1>17. ASSUME NEW a \in Actor, NEW m \in Mesh, Begin(a, m) PROVE Turns'
  BY <1>17 DEF Begin, KeyLookup, TypeOK
<1>18. ASSUME NEW a \in Actor, NEW fails \in BOOLEAN, Store(a, fails) PROVE Turns'
  BY <1>18 DEF Store, TypeOK
<1>19. ASSUME NEW a \in Actor, Regenerate(a) PROVE Turns'
  BY <1>19 DEF Regenerate, TypeOK
<1>20. ASSUME NEW a \in Actor, NEW fails \in BOOLEAN, Save(a, fails) PROVE Turns'
  BY <1>20 DEF Save, TypeOK
<1>21. ASSUME NEW a \in Actor, UpdateMeshifyHost(a) PROVE Turns'
  BY <1>21 DEF UpdateMeshifyHost, TypeOK
<1>22. ASSUME NEW a \in Actor, Put(a) PROVE Turns'
  BY <1>22 DEF Put, TypeOK
<1>23. ASSUME NEW a \in Actor, NEW fails \in BOOLEAN, Up(a, fails) PROVE Turns'
  BY <1>23 DEF Up, TypeOK
<1>31. ASSUME NEW a \in Actor, Clean(a) PROVE Turns'
  BY <1>31 DEF Clean, TypeOK
<1>24. ASSUME NEW a \in Actor, EndRound(a) PROVE Turns'
  <2>1. /\ pc'[a] = "idle" /\ confFile' = confFile
        /\ \A b \in Actor : b # a => pc'[b] = pc[b] /\ msg'[b] = msg[b]
    BY <1>24 DEF EndRound, TypeOK
  <2> QED
    BY <2>1 DEF Turns, Active, Actor
<1>25. ASSUME NEW f \in Fault, NEW cut \in BOOLEAN, Restart(f, cut) PROVE Turns'
  BY <1>25 DEF Restart, Turns, Active
<1>26. CASE UNCHANGED vars
  BY <1>26 DEF vars
<1>27. ASSUME NEW c \in copies, ConfigureUPnP(c) PROVE Turns'
  BY <1>27 DEF ConfigureUPnP
<1> QED
  BY <1>1, <1>2, <1>3, <1>4, <1>6, <1>7, <1>8, <1>9, <1>10, <1>11, <1>12, <1>13, <1>14, <1>15, <1>16,
     <1>17, <1>18, <1>19, <1>20, <1>21, <1>22, <1>23, <1>24, <1>25, <1>26, <1>27, <1>28, <1>29, <1>30, <1>31
     DEF Next, Configure, Admin, HTTP, PollFails, UpdateMeshifyConfig, Apply

----------------------------------------------------------------------------
(* Taking interfaces down *)

\* The text made for a mesh is a file, never the absence of one.
LEMMA TextIsData ==
    ASSUME TypeOK, NEW a \in Actor, cur[a] \in Members(msg[a]), key[a] \in Key
    PROVE  /\ Rec(a) \in Host /\ cur[a] \in Mesh /\ Text(a) # Nil
           /\ Rec(a).on => Text(a) = [host |-> Rec(a), key |-> key[a]] /\ Text(a) # Empty
           /\ ~Rec(a).on => Text(a) = Empty
<1>1. Rec(a) \in Host /\ cur[a] \in Mesh
  BY DEF TypeOK, Members, Message, Rec
<1>2. Rec(a).on \in BOOLEAN /\ [host |-> Rec(a), key |-> key[a]] \in Config
  BY <1>1, HostFields DEF Config
<1> QED
  BY <1>1, <1>2, NilIsNoData, EmptyIsNoData DEF Text, DumpWireguardConfig

\* Interfaces at most go down, and a mesh is no longer crossed only when its own
\* has gone down.
Lowers ==
    /\ \A n \in Mesh : wgUp'[n] \in {Nil, wgUp[n]}
    /\ crossed' \subseteq crossed
    /\ \A n \in crossed \ crossed' : wgUp'[n] = Nil

\* Mesh m's interface is down, or was started during a stop.
Downed(m) == wgUp'[m] = Nil \/ m \in crossed'

\* When the command does not fail, the mesh's interface is down afterwards, with
\* that exception, and nothing else has changed.
LEMMA QuickDowns ==
    ASSUME TypeOK, Backed, NEW m \in Mesh, WgQuickDown(m, FALSE)
    PROVE  Lowers /\ Downed(m)
BY DEF WgQuickDown, Backed, TypeOK, Lowers, Downed

\* Nothing goes down at all.
LEMMA StaysUp == UNCHANGED <<wgUp, crossed>> => Lowers
BY DEF Lowers

\* Files and commands that leave each interface its file.
LEMMA BackedKept ==
    ASSUME TypeOK, TypeOK', Shape, Backed, Lowers,
           \A n \in Mesh : wgFile[n] # Nil /\ wgFile'[n] = Nil => Downed(n),
           \A s \in stops' : s \in stops \/ Downed(s.mesh),
           \A a \in Actor : pc'[a] \in {"unlink", "clear", "clean"} =>
               (pc'[a] = pc[a] /\ cur'[a] = cur[a]) \/ Downed(cur'[a])
    PROVE  Backed'
<1>1. \A s \in stops : s.mesh \in Mesh
  BY DEF TypeOK
<1>2. \A n \in Mesh \ crossed' : wgUp'[n] # Nil => wgFile'[n] # Nil
  BY DEF Backed, Lowers, Downed
<1>3. \A s \in stops' : wgUp'[s.mesh] # Nil => s.mesh \in crossed'
  BY <1>1 DEF Backed, Lowers, Downed
<1>4. \A a \in Actor : pc'[a] \in {"unlink", "clear", "clean"} /\ cur'[a] \in Mesh \ crossed' => wgUp'[cur'[a]] = Nil
  BY DEF Backed, Lowers, Downed
<1> QED
  BY <1>2, <1>3, <1>4 DEF Backed

\* When rounds take turns, every step leaves each interface its file, until
\* wg-quick down has failed.
LEMMA StepBacked ==
    ASSUME TypeOK, TypeOK', Shape, Turns, ~Overlap, Backed, ~Happened("stuck")', [Next]_vars
    PROVE  Backed'
<1> USE Succeeds, StaysUp, BackedKept DEF diskVars, workVars, asideVars, saveVars, copyVars, stopVars, Goto
<1>0. \A m \in Mesh : WgQuickDown(m, FALSE) => Lowers /\ Downed(m)
  BY QuickDowns
<1>1. CASE UNCHANGED <<wgFile, wgUp, crossed, stops, pc, cur>>
  BY <1>1
<1>2. ASSUME UNCHANGED <<wgFile, wgUp, crossed, stops>>, NEW a \in Actor, NEW label,
             pc' = [pc EXCEPT ![a] = label], label \notin {"unlink", "clear", "clean"},
             \A b \in Actor : b # a => cur'[b] = cur[b]
      PROVE  Backed'
  <2>1. \A b \in Actor : pc'[b] \in {"unlink", "clear", "clean"} => pc'[b] = pc[b] /\ cur'[b] = cur[b]
    BY <1>2 DEF TypeOK
  <2> QED
    BY <1>2, <2>1
<1>3. CASE Admin \/ PollNotModified \/ PollFails
  BY <1>1, <1>3 DEF Admin, AdminAdd, AdminEdit, AdminRemove, PollNotModified, PollFails, PollError,
                    PollGarbled, PollDenied
<1>4. ASSUME NEW fails \in BOOLEAN, keyHandler(fails) PROVE Backed'
  BY <1>1, <1>4 DEF keyHandler
<1>5. ASSUME NEW m \in Mesh, NEW fails \in BOOLEAN, stopServiceHandler(m, fails) PROVE Backed'
  <2>1. ~fails
    BY <1>5 DEF stopServiceHandler
  <2>2. Lowers /\ Downed(m) /\ UNCHANGED <<wgFile, pc, cur>>
    BY <1>0, <1>5, <2>1 DEF stopServiceHandler
  <2>3. \A s \in stops' : s \in stops \/ s.mesh = m
    BY <1>5 DEF stopServiceHandler
  <2> QED
    BY <2>2, <2>3
<1>6. ASSUME NEW s \in stops, stopServiceRemoves(s) PROVE Backed'
  <2>1. s.mesh \in Mesh /\ Downed(s.mesh)
    BY <1>6 DEF stopServiceRemoves, Backed, Downed, TypeOK
  <2>2. UNCHANGED <<wgUp, crossed, pc, cur>> /\ stops' \subseteq stops
    BY <1>6 DEF stopServiceRemoves
  <2>3. \A n \in Mesh : n # s.mesh => wgFile'[n] = wgFile[n]
    BY <1>6 DEF stopServiceRemoves, RemoveFile, TypeOK
  <2> QED
    BY <2>1, <2>2, <2>3
<1>7. CASE PollFetch
  BY <1>1, <1>2, <1>7 DEF PollFetch, Actor
<1>8. CASE WriteConf \/ PruneDone \/ Compare
  BY <1>2, <1>8 DEF WriteConf, PruneDone, Compare, NextMesh, Actor, TypeOK
<1>9. ASSUME NEW fails \in BOOLEAN, Forget(fails) PROVE Backed'
  BY <1>2, <1>9 DEF Forget, Actor, TypeOK
<1>10. ASSUME NEW m \in Mesh, NEW fails \in BOOLEAN, Prune(m, fails) PROVE Backed'
  <2>1. ~fails
    BY <1>10 DEF Prune
  <2>2. Lowers /\ Downed(m) /\ UNCHANGED <<wgFile, stops>>
    BY <1>0, <1>10, <2>1 DEF Prune
  <2>3. \A a \in Actor : (pc'[a] = pc[a] /\ cur'[a] = cur[a]) \/ cur'[a] = m
    BY <1>10 DEF Prune, TypeOK, Actor
  <2> QED
    BY <2>2, <2>3
<1>11. CASE Unlink \/ Clear
  <2>1. cur["poller"] \in Mesh /\ Downed(cur["poller"]) /\ UNCHANGED <<wgUp, crossed, stops, cur>>
    BY <1>11 DEF Unlink, Clear, Backed, Downed, Shape, Members, Actor
  <2>2. \A n \in Mesh : n # cur["poller"] => wgFile'[n] = wgFile[n]
    BY <1>11 DEF Unlink, Clear, RemoveFile, TypeOK
  <2>3. \A a \in Actor : pc'[a] = pc[a] \/ pc'[a] \in {"forget", "put"}
    BY <1>11 DEF Unlink, Clear, TypeOK, Actor
  <2> QED
    BY <2>1, <2>2, <2>3
<1>12. ASSUME NEW fails \in BOOLEAN, Stop(fails) PROVE Backed'
  <2>1. ~fails /\ cur["poller"] \in Mesh
    BY <1>12 DEF Stop, Shape, Members, Actor
  <2>2. Lowers /\ Downed(cur["poller"]) /\ UNCHANGED <<wgFile, stops, cur>>
    BY <1>0, <1>12, <2>1 DEF Stop
  <2>3. \A a \in Actor : pc'[a] = pc[a] \/ a = "poller"
    BY <1>12 DEF Stop, TypeOK, Actor
  <2> QED
    BY <2>2, <2>3 DEF Downed
<1>13. CASE RefreshOpen
  BY <1>2, <1>13 DEF RefreshOpen, Actor
<1>14. ASSUME NEW a \in Actor, NEW m \in Mesh, Begin(a, m) PROVE Backed'
  BY <1>2, <1>14 DEF Begin, KeyLookup, TypeOK
<1>15. ASSUME NEW a \in Actor, NEW fails \in BOOLEAN, Store(a, fails) \/ Save(a, fails) PROVE Backed'
  BY <1>2, <1>15 DEF Store, Save
<1>16. ASSUME NEW a \in Actor, Regenerate(a) \/ UpdateMeshifyHost(a) \/ EndRound(a) PROVE Backed'
  BY <1>2, <1>16 DEF Regenerate, UpdateMeshifyHost, EndRound
<1>17. ASSUME NEW a \in Actor, Put(a) PROVE Backed'
  <2>1. Text(a) # Nil /\ UNCHANGED <<wgUp, crossed, stops, cur>>
    BY <1>17, TextIsData DEF Put, Shape
  <2>2. \A n \in Mesh : wgFile'[n] \in {wgFile[n], Text(a)}
    BY <1>17 DEF Put, TypeOK
  <2>3. \A b \in Actor : pc'[b] = pc[b] \/ pc'[b] = "up"
    BY <1>17 DEF Put, TypeOK
  <2> QED
    BY <2>1, <2>2, <2>3
<1>18. ASSUME NEW a \in Actor, NEW fails \in BOOLEAN, Up(a, fails) PROVE Backed'
  <2>1. cur[a] \in Mesh /\ pc[a] = "up" /\ UNCHANGED <<wgFile, stops>>
    BY <1>18 DEF Up, Shape, Members
  <2>2. CASE Rec(a).on
    <3>1. StartWireguard(cur[a], fails) /\ pc'[a] = "pick"
      BY <1>18, <2>2 DEF Up, NextMesh, TypeOK
    <3>2. \A b \in Actor : b # a => pc'[b] = pc[b] /\ pc[b] \in {"idle", "dead"}
      BY <1>18, <2>1, <2>2 DEF Up, NextMesh, TypeOK, Turns, Active, Actor
    <3>3. \A b \in Actor : pc'[b] \notin {"unlink", "clear", "clean"}
      BY <3>1, <3>2
    <3>4. CASE UNCHANGED <<wgUp, crossed>>
      BY <2>1, <3>3, <3>4
    <3>5. CASE /\ wgFile[cur[a]] # Nil /\ wgUp' = [wgUp EXCEPT ![cur[a]] = wgFile[cur[a]]]
               /\ crossed' = IF \E s \in stops : s.mesh = cur[a] THEN crossed \cup {cur[a]} ELSE crossed
      <4>1. \A n \in Mesh \ crossed' : wgUp'[n] # Nil => wgFile'[n] # Nil
        BY <2>1, <3>5 DEF Backed, TypeOK
      <4>2. \A s \in stops' : wgUp'[s.mesh] # Nil => s.mesh \in crossed'
        BY <2>1, <3>5 DEF Backed, TypeOK
      <4> QED
        BY <3>3, <4>1, <4>2 DEF Backed
    <3> QED
      BY <3>1, <3>4, <3>5 DEF StartWireguard
  <2>3. CASE ~Rec(a).on
    <3>1. ~fails
      BY <1>18, <2>3 DEF Up
    <3>2. Lowers /\ Downed(cur[a]) /\ cur' = cur
      BY <1>0, <1>18, <2>1, <2>3, <3>1 DEF Up
    <3>3. \A b \in Actor : pc'[b] = pc[b] \/ b = a
      BY <1>18, <2>3 DEF Up, TypeOK
    <3> QED
      BY <2>1, <3>2, <3>3 DEF Downed
  <2> QED
    BY <2>2, <2>3
<1>19. ASSUME NEW a \in Actor, Clean(a) PROVE Backed'
  <2>1. cur[a] \in Mesh /\ Downed(cur[a]) /\ UNCHANGED <<wgUp, crossed, stops>>
    BY <1>19 DEF Clean, Backed, Downed, Shape, Members
  <2>2. \A n \in Mesh : n # cur[a] => wgFile'[n] = wgFile[n]
    BY <1>19 DEF Clean, RemoveFile, TypeOK
  <2>3. \A b \in Actor : pc'[b] = "pick" \/ (pc'[b] = pc[b] /\ cur'[b] = cur[b])
    BY <1>19 DEF Clean, NextMesh, TypeOK
  <2> QED
    BY <2>1, <2>2, <2>3
<1>20. ASSUME NEW f \in Fault, NEW cut \in BOOLEAN, Restart(f, cut) PROVE Backed'
  <2>1. stops' = {} /\ \A a \in Actor : pc'[a] = "idle"
    BY <1>20 DEF Restart
  <2>2. \A n \in Mesh \ crossed' : wgUp'[n] # Nil => wgFile'[n] # Nil
    BY <1>20 DEF Restart, Backed
  <2> QED
    BY <2>1, <2>2 DEF Backed
<1>21. CASE UNCHANGED vars
  BY <1>1, <1>21 DEF vars
<1>22. ASSUME NEW c \in copies, ConfigureUPnP(c) PROVE Backed'
  BY <1>1, <1>22 DEF ConfigureUPnP
<1> QED
  BY <1>3, <1>4, <1>5, <1>6, <1>7, <1>8, <1>9, <1>10, <1>11, <1>12, <1>13, <1>14, <1>15, <1>16, <1>17,
     <1>18, <1>19, <1>20, <1>21, <1>22
     DEF Next, Configure, HTTP, UpdateMeshifyConfig, Apply

----------------------------------------------------------------------------
(* No interface is up that the configuration does not name *)

\* A step that brings up nothing new and keeps the configuration.
LEMMA NoStrayKept ==
    ASSUME NoStray, Lowers, \A m \in Expected : m \in Expected' \/ Downed(m)
    PROVE  NoStray'
BY DEF NoStray, Lowers, Downed

\* When rounds take turns the refresher works on meshify.conf and the poller
\* has nothing in hand.
LEMMA LoneRefresher ==
    ASSUME TypeOK, Turns, ~Overlap, Active("refresher")
    PROVE  pc["poller"] = "idle" /\ msg["refresher"] = Parsed(confFile)
BY DEF Turns, Active

\* When rounds take turns, and the poller has written meshify.conf, it works on
\* it and the refresher has nothing in hand.
LEMMA LonePoller ==
    ASSUME TypeOK, Turns, ~Overlap, Active("poller")
    PROVE  /\ ~Active("refresher")
           /\ pc["poller"] # "write" => Parsed(confFile) = msg["poller"]
BY MessagesAreData DEF Turns, Active, Actor

\* Every step keeps interfaces to the configuration while rounds take turns.
LEMMA StepStray ==
    ASSUME TypeOK, TypeOK', Shape, Turns, Backed, NoStray, [Next]_vars, ~Overlap,
           \A f \in {"crash", "denied", "stuck"} : ~Happened(f)'
    PROVE  NoStray'
<1>0. /\ ~Spend({"crash"}) /\ ~Spend({"denied"})
      /\ \A a \in Actor : pc[a] \in Label
      /\ "poller" \in Actor /\ Parsed(Empty) = Parsed(Nil)
      /\ Actor = {"poller", "refresher"}
  BY StepSpent, Remembered DEF Fault, TypeOK, Actor, Parsed
<1> USE <1>0, NoStrayKept, StaysUp, Succeeds DEF diskVars, workVars, asideVars, saveVars, copyVars, stopVars, Goto, NextMesh
<1>1. CASE UNCHANGED <<wgUp, crossed, pc, old, msg, todo>> /\ Parsed(confFile)' = Parsed(confFile)
  BY <1>1 DEF Expected, Members, NoStray
<1>2. ASSUME NEW m \in Mesh, AdminAdd(m) \/ AdminEdit(m) \/ AdminRemove(m) PROVE NoStray'
  BY <1>1, <1>2 DEF AdminAdd, AdminEdit, AdminRemove, Parsed
<1>3. ASSUME NEW fails \in BOOLEAN, keyHandler(fails) PROVE NoStray'
  BY <1>1, <1>3 DEF keyHandler, Parsed
<1>29. ASSUME NEW s \in stops, stopServiceRemoves(s) PROVE NoStray'
  BY <1>1, <1>29 DEF stopServiceRemoves, Parsed
<1>4. ASSUME NEW m \in Mesh, NEW fails \in BOOLEAN, stopServiceHandler(m, fails) PROVE NoStray'
  <2>1. Lowers
    BY <1>4, QuickDowns DEF stopServiceHandler
  <2> QED
    BY <1>4, <2>1 DEF stopServiceHandler, Expected, Parsed, Members
<1>5. CASE PollFetch
  <2>1. pc["poller"] = "idle" /\ UNCHANGED <<wgUp, crossed>>
    BY <1>5 DEF PollFetch, MayStart
  <2>2. CASE UNCHANGED <<confFile, pc, msg, old>>
    BY <1>1, <1>5, <2>2 DEF PollFetch, Parsed
  <2>3. CASE pc'["poller"] = "write" /\ old' = Parsed(confFile)
    BY <2>1, <2>3 DEF Expected, Members
  <2> QED
    BY <1>5, <2>2, <2>3 DEF PollFetch, TypeOK
<1>6. CASE PollNotModified
  BY <1>1, <1>6 DEF PollNotModified, Parsed
<1>7. CASE PollError
  BY <1>1, <1>7 DEF PollError, Parsed
<1>8. CASE PollGarbled
  BY <1>1, <1>8 DEF PollGarbled, Parsed
<1>9. CASE PollDenied
  BY <1>9 DEF PollDenied
<1>10. CASE WriteConf
  <2>1. /\ pc["poller"] = "write" /\ pc'["poller"] = "prune" /\ UNCHANGED <<wgUp, crossed, msg>>
        /\ todo'["poller"] = Members(old) \ Members(msg["poller"])
    BY <1>10 DEF WriteConf, TypeOK
  <2> QED
    BY <2>1 DEF Expected, Members
<1>11. ASSUME NEW m \in Mesh, NEW fails \in BOOLEAN, Prune(m, fails) PROVE NoStray'
  <2>1. /\ pc["poller"] = "prune" /\ pc'["poller"] = "unlink" /\ msg' = msg
        /\ todo'["poller"] = todo["poller"] \ {m} /\ WgQuickDown(m, fails) /\ ~fails
    BY <1>11 DEF Prune, TypeOK
  <2>2. Lowers /\ Downed(m)
    BY <2>1, QuickDowns
  <2> QED
    BY <2>1, <2>2 DEF Expected, Members
<1>30. CASE Unlink
  BY <1>30 DEF Unlink, Expected, Members, TypeOK
<1>12. ASSUME NEW fails \in BOOLEAN, Forget(fails) PROVE NoStray'
  BY <1>12 DEF Forget, Expected, Members, TypeOK
<1>13. CASE PruneDone
  <2>1. /\ pc["poller"] = "prune" /\ pc'["poller"] = "pick" /\ todo["poller"] = {}
        /\ UNCHANGED <<wgUp, crossed, confFile>>
    BY <1>13 DEF PruneDone, TypeOK
  <2>2. Parsed(confFile) = msg["poller"]
    BY <2>1, LonePoller DEF Active
  <2> QED
    BY <2>1, <2>2 DEF Expected, Members, Parsed
<1>14. ASSUME NEW a \in Actor, UNCHANGED <<confFile, msg, old>>, Lowers, Onward(a),
              a = "poller" => /\ pc[a] \notin {"prune", "unlink", "forget"}
                              /\ pc'[a] \notin {"prune", "unlink", "forget"},
              \A b \in Actor : b # a => pc'[b] = pc[b] /\ todo'[b] = todo[b]
       PROVE  NoStray'
  BY <1>14 DEF Onward, Expected, Members, Parsed
<1>15. CASE Compare
  BY <1>14, <1>15 DEF Compare, Onward, TypeOK
<1>16. ASSUME NEW fails \in BOOLEAN, Stop(fails) PROVE NoStray'
  <2>1. Lowers
    BY <1>16, QuickDowns DEF Stop, Shape, Members
  <2> QED
    BY <1>14, <1>16, <2>1 DEF Stop, Onward, TypeOK
<1>31. CASE Clear
  BY <1>14, <1>31 DEF Clear, Onward, TypeOK
<1>17. CASE RefreshOpen
  BY <1>17 DEF RefreshOpen, Expected, Members, TypeOK, Parsed
<1>18. ASSUME NEW a \in Actor, NEW m \in Mesh, Begin(a, m) PROVE NoStray'
  BY <1>14, <1>18 DEF Begin, KeyLookup, Onward, TypeOK
<1>19. ASSUME NEW a \in Actor, NEW fails \in BOOLEAN, Store(a, fails) PROVE NoStray'
  BY <1>14, <1>19 DEF Store, Onward, TypeOK
<1>20. ASSUME NEW a \in Actor, Regenerate(a) PROVE NoStray'
  BY <1>14, <1>20 DEF Regenerate, Onward, TypeOK
<1>21. ASSUME NEW a \in Actor, NEW fails \in BOOLEAN, Save(a, fails) PROVE NoStray'
  BY <1>14, <1>21 DEF Save, Onward, TypeOK
<1>22. ASSUME NEW a \in Actor, UpdateMeshifyHost(a) PROVE NoStray'
  BY <1>14, <1>22 DEF UpdateMeshifyHost, Onward, TypeOK
<1>23. ASSUME NEW a \in Actor, Put(a) PROVE NoStray'
  BY <1>14, <1>23 DEF Put, Onward, TypeOK
<1>24. ASSUME NEW a \in Actor, NEW fails \in BOOLEAN, Up(a, fails) PROVE NoStray'
  <2>1. /\ pc[a] = "up" /\ confFile' = confFile /\ msg' = msg /\ old' = old /\ todo' = todo
        /\ cur[a] \in Mesh /\ cur[a] \in Members(msg[a])
        /\ \A b \in Actor : b # a => pc'[b] = pc[b]
    BY <1>24 DEF Up, TypeOK, Shape, Members
  <2>2. CASE Rec(a).on
    <3>1. pc'[a] = "pick" /\ StartWireguard(cur[a], fails)
      BY <1>24, <2>2 DEF Up, TypeOK
    <3>2. msg[a] = Parsed(confFile) /\ pc["poller"] \in {"idle", "up"} /\ pc'["poller"] \in {"idle", "pick"}
      BY <2>1, <3>1, LonePoller, LoneRefresher DEF Active
    <3>3. Expected = Members(Parsed(confFile)) /\ Expected' = Expected
      BY <2>1, <3>2 DEF Expected, Members, Parsed
    <3> QED
      BY <2>1, <3>1, <3>2, <3>3 DEF StartWireguard, NoStray, TypeOK
  <2>3. CASE ~Rec(a).on
    <3>1. WgQuickDown(cur[a], fails) /\ pc'[a] = "clean" /\ ~fails
      BY <1>24, <2>3 DEF Up, TypeOK
    <3>2. Lowers
      BY <2>1, <3>1, QuickDowns
    <3> QED
      BY <1>14, <2>1, <3>1, <3>2 DEF Onward
  <2> QED
    BY <2>2, <2>3
<1>32. ASSUME NEW a \in Actor, Clean(a) PROVE NoStray'
  BY <1>14, <1>32 DEF Clean, Onward, TypeOK
<1>25. ASSUME NEW a \in Actor, EndRound(a) PROVE NoStray'
  <2>1. /\ pc[a] = "pick" /\ pc'[a] = "idle" /\ UNCHANGED <<confFile, wgUp, crossed, old, todo>>
        /\ \A b \in Actor : b # a => pc'[b] = pc[b] /\ msg'[b] = msg[b]
    BY <1>25 DEF EndRound, TypeOK
  <2> QED
    BY <2>1 DEF Expected, Members, Parsed
<1>26. ASSUME NEW f \in Fault, NEW cut \in BOOLEAN, Restart(f, cut) PROVE NoStray'
  BY <1>26 DEF Restart, NoStray
<1>27. CASE UNCHANGED vars
  BY <1>1, <1>27 DEF vars, Parsed
<1>28. ASSUME NEW c \in copies, ConfigureUPnP(c) PROVE NoStray'
  BY <1>1, <1>28 DEF ConfigureUPnP, Parsed
<1> QED
  BY <1>2, <1>3, <1>4, <1>5, <1>6, <1>7, <1>8, <1>9, <1>10, <1>11, <1>12, <1>13, <1>15, <1>16, <1>17,
     <1>18, <1>19, <1>20, <1>21, <1>22, <1>23, <1>24, <1>25, <1>26, <1>27, <1>28, <1>29, <1>30, <1>31, <1>32
     DEF Next, Configure, Admin, HTTP, PollFails, UpdateMeshifyConfig, Apply

\* At the start nothing has happened and nothing is under way.
LEMMA InitTurns == Init => Turns /\ Backed /\ NoStray
<1> SUFFICES ASSUME Init PROVE Turns /\ Backed /\ NoStray
  OBVIOUS
<1>1. Turns
  BY LimitType DEF Init, Turns, Active, Actor
<1>2. Backed
  BY DEF Init, Backed
<1>3. \A m \in Mesh : wgUp[m] # Nil => m \in DOMAIN Joined
  BY DEF Init
<1>4. ASSUME NEW m \in DOMAIN Joined PROVE m \in Members(Parsed(confFile))
  <2>1. confFile = server /\ m \in Mesh /\ server \in Message /\ server[m] # Nil
    <3>1. server \in Message
      BY InitTyped DEF TypeOK
    <3>2. m \in Mesh /\ server[m] = [id |-> 0, rev |-> 0, on |-> TRUE, pub |-> Joined[m], priv |-> FALSE]
      BY JoinedType DEF Init
    <3>3. server[m] \in Host
      BY <3>2, JoinedType DEF Host, Pub
    <3> QED
      BY <3>1, <3>2, <3>3, NilIsNoData DEF Init
  <2> QED
    BY <2>1, NilIsNoData, EmptyIsNoData DEF Parsed, Members
<1>5. Expected = Members(Parsed(confFile))
  BY DEF Init, Expected, Actor
<1> QED
  BY <1>1, <1>2, <1>3, <1>4, <1>5 DEF NoStray

\* ZombieInv is an inductive invariant of MeshSync's well-typed states.
THEOREM ZombieInductive == Spec => []ZombieInv
<1>1. Init => ZombieInv
  BY InitTurns DEF ZombieInv
<1>2. TypeOK /\ TypeOK' /\ Shape /\ ZombieInv /\ [Next]_vars => ZombieInv'
  <2> SUFFICES ASSUME TypeOK, TypeOK', Shape, ZombieInv, [Next]_vars PROVE ZombieInv'
    OBVIOUS
  <2>1. Turns' /\ (Overlap \/ Happened("stuck") \/ Backed)'
    <3>1. Turns'
      BY StepTurns DEF ZombieInv
    <3>2. ASSUME ~Overlap, ~Happened("stuck")' PROVE Backed'
      <4>1. ~Happened("stuck")
        BY <3>2, StepSpent, Remembered DEF ZombieInv, Fault
      <4> QED
        BY <3>2, <4>1, StepBacked DEF ZombieInv
    <3> QED
      BY <3>1, <3>2
  <2>2. ASSUME ~Overlap, \A f \in {"crash", "denied", "stuck"} : ~Happened(f)' PROVE NoStray'
    <3>1. \A f \in {"crash", "denied", "stuck"} : ~Happened(f)
      BY <2>2, StepSpent, Remembered DEF ZombieInv, Fault
    <3> QED
      BY <2>2, <3>1, StepStray DEF ZombieInv
  <2> QED
    BY <2>1, <2>2 DEF ZombieInv
<1> QED
  BY <1>1, <1>2, TypeCorrect, PTL DEF Spec

\* Between rounds no interface is up that meshify.conf does not name, except one
\* started while the HTTP service was stopping its mesh, when rounds do not
\* overlap and until the process has crashed, a 401 has deleted meshify.conf or
\* wg-quick down has failed.
THEOREM NoZombie == Spec => []NoZombieInTurn
<1>1. ZombieInv => NoZombieInTurn
  BY DEF ZombieInv, NoZombieInTurn, NoZombieBut, NoStray, Expected, Members, Parsed
<1> QED
  BY <1>1, ZombieInductive, PTL

----------------------------------------------------------------------------
(* Private keys that the server sends *)

NoNewSent == \A k \in Key, p \in BOOLEAN : Sent(k, p)' => Sent(k, p)

\* The key stores get the public half alone only of a key sent so.
NoNewBlank ==
    \A k \in Key :
        KeyStore'[k] = "blank" \/ keysFile'[k] = "blank" =>
            KeyStore[k] = "blank" \/ keysFile[k] = "blank" \/ Sent(k, FALSE)

\* A step that sends no key in a new way, and blanks none that is sent whole.
LEMMA KindsKept == ASSUME Kinds, NoNewSent, NoNewBlank PROVE Kinds'
BY DEF Kinds, NoNewSent, NoNewBlank

\* A key that is sent is carried.
LEMMA SentCarried ==
    ASSUME NEW k \in Key, NEW p \in BOOLEAN, Sent(k, p)
    PROVE  \E m \in Mesh : Carries(m, k)
BY DEF Sent, Carries, Has

\* What is in a goroutine's hand is sent and carried.
LEMMA HandSent ==
    ASSUME TypeOK, NEW a \in Actor, NEW m \in Members(msg[a])
    PROVE  /\ m \in Mesh /\ msg[a][m] \in Host /\ msg[a][m].pub \in Pub /\ msg[a][m].priv \in BOOLEAN
           /\ Carries(m, msg[a][m].pub) /\ Sent(msg[a][m].pub, msg[a][m].priv)
           /\ msg[a][m].priv => msg[a][m].pub \in Key
<1>1. m \in Mesh /\ msg[a][m] \in Host /\ msg[a][m] # Nil
  BY NilIsNoData DEF Members, TypeOK, Message
<1> QED
  BY <1>1, HostFields DEF Carries, Has, Sent, Pub

\* Every step keeps the kinds of keys apart.
LEMMA StepKinds == TypeOK /\ TypeOK' /\ Shape /\ Apart /\ Kinds /\ [Next]_vars => Kinds'
<1> SUFFICES ASSUME TypeOK, TypeOK', Shape, Apart, Kinds, [Next]_vars PROVE Kinds'
  OBVIOUS
<1> USE KindsKept, NilIsNoKey, NilIsNoData DEF serverVars, diskVars, workVars, asideVars, saveVars, copyVars, stopVars, Goto
<1>1. ASSUME NEW m \in Mesh, AdminAdd(m) PROVE Kinds'
  <2>1. PICK k \in Pub, priv \in BOOLEAN, on \in BOOLEAN :
          /\ k = Nil \/ (k \in handed /\ ~priv) \/ (Generated(k) /\ priv)
          /\ server' = [server EXCEPT ![m] =
                [id |-> edits', rev |-> edits', on |-> on, pub |-> k, priv |-> priv]]
    BY <1>1 DEF AdminAdd
  <2>2. UNCHANGED <<confFile, msg, copies, KeyStore, keysFile>>
    BY <1>1 DEF AdminAdd
  <2>3. /\ \A n \in Mesh : n # m => server'[n] = server[n]
        /\ server'[m].pub = k /\ server'[m].priv = priv
    BY <2>1 DEF TypeOK, Message
  <2>4. \A j \in Key, p \in BOOLEAN : Sent(j, p)' => Sent(j, p) \/ (j = k /\ p = priv)
    BY <2>2, <2>3 DEF Sent
  <2>5. k \in Key => \A p \in BOOLEAN : ~Sent(k, p)
    BY <2>1, SentCarried, UnusedKey DEF Apart, Pub
  <2>6. k \in Key /\ priv => KeyStore[k] # "blank" /\ keysFile[k] # "blank"
    BY <2>1 DEF Generated, Unused
  <2> QED
    BY <2>2, <2>4, <2>5, <2>6 DEF Kinds
<1>2. ASSUME NEW m \in Mesh, AdminEdit(m) PROVE Kinds'
  <2>1. server[m] \in Host /\ server[m] # Nil
    BY <1>2 DEF AdminEdit, TypeOK, Message
  <2>2. PICK on \in BOOLEAN : server' = [server EXCEPT ![m] = [@ EXCEPT !.rev = edits', !.on = on]]
    BY <1>2 DEF AdminEdit
  <2>3. server'[m].pub = server[m].pub /\ server'[m].priv = server[m].priv
    BY <2>1, <2>2 DEF Host, TypeOK, Message
  <2>4. \A n \in Mesh : n # m => server'[n] = server[n]
    BY <2>2 DEF TypeOK, Message
  <2>5. UNCHANGED <<confFile, msg, copies, KeyStore, keysFile>>
    BY <1>2 DEF AdminEdit
  <2>6. NoNewSent
    BY <2>1, <2>3, <2>4, <2>5 DEF NoNewSent, Sent
  <2> QED
    BY <2>5, <2>6 DEF NoNewBlank
<1>3. ASSUME NEW m \in Mesh, AdminRemove(m) PROVE Kinds'
  BY <1>3 DEF AdminRemove, TypeOK, Message, NoNewSent, NoNewBlank, Sent
<1>29. ASSUME NoNewSent, NEW store, NEW fails \in BOOLEAN, KeySave(store, fails),
              \A k \in Key : /\ KeyStore'[k] = "blank" => KeyStore[k] = "blank"
                             /\ store[k] = "blank" => KeyStore[k] = "blank"
       PROVE  Kinds'
  <2>1. \A k \in Key : keysFile'[k] \in {keysFile[k], "none", store[k]}
    BY <1>29 DEF KeySave, Pub
  <2> QED
    BY <1>29, <2>1 DEF NoNewBlank
<1>4. ASSUME NEW fails \in BOOLEAN, keyHandler(fails) PROVE Kinds'
  <2>1. PICK k \in Key : KeyStore' = [KeyStore EXCEPT ![k] = "priv"] /\ KeySave(KeyStore', fails)
    BY <1>4 DEF keyHandler
  <2>2. NoNewSent
    BY <1>4 DEF keyHandler, NoNewSent, Sent
  <2>3. \A j \in Key : KeyStore'[j] \in {"priv", KeyStore[j]}
    BY <2>1 DEF TypeOK, Pub
  <2> QED
    BY <1>29, <2>1, <2>2, <2>3
<1>5. ASSUME NEW m \in Mesh, NEW fails \in BOOLEAN, stopServiceHandler(m, fails) PROVE Kinds'
  BY <1>5 DEF stopServiceHandler, NoNewSent, NoNewBlank, Sent
<1>30. ASSUME NEW s \in stops, stopServiceRemoves(s) PROVE Kinds'
  BY <1>30 DEF stopServiceRemoves, NoNewSent, NoNewBlank, Sent
<1>6. CASE PollFetch
  <2>1. UNCHANGED <<server, copies, KeyStore, keysFile>>
    BY <1>6 DEF PollFetch
  <2>2. /\ \A m \in Mesh : Parsed(confFile)'[m] \in {Nil, Parsed(confFile)[m]}
        /\ \A a \in Actor, m \in Mesh : msg'[a][m] \in {msg[a][m], server[m]}
    BY <1>6 DEF PollFetch, Parsed, NoMesh, TypeOK
  <2>3. NoNewSent
    BY <2>1, <2>2 DEF NoNewSent, Sent
  <2> QED
    BY <2>1, <2>3 DEF NoNewBlank
<1>7. CASE PollNotModified
  BY <1>7 DEF PollNotModified, Parsed, NoMesh, NoNewSent, NoNewBlank, Sent
<1>8. CASE PollError
  BY <1>8 DEF PollError, NoNewSent, NoNewBlank, Sent
<1>9. CASE PollGarbled
  BY <1>9 DEF PollGarbled, Parsed, NoMesh, NoNewSent, NoNewBlank, Sent
<1>10. CASE PollDenied
  BY <1>10 DEF PollDenied, Parsed, NoMesh, NoNewSent, NoNewBlank, Sent
<1>11. CASE WriteConf
  <2>1. UNCHANGED <<server, copies, KeyStore, keysFile, msg>>
    BY <1>11 DEF WriteConf
  <2>2. Parsed(confFile)' = msg["poller"] /\ "poller" \in Actor
    BY <1>11, MessagesAreData DEF WriteConf, Parsed, Actor
  <2>3. NoNewSent
    BY <2>1, <2>2 DEF NoNewSent, Sent
  <2> QED
    BY <2>1, <2>3 DEF NoNewBlank
<1>12. ASSUME NEW m \in Mesh, NEW fails \in BOOLEAN, Prune(m, fails) PROVE Kinds'
  BY <1>12 DEF Prune, NoNewSent, NoNewBlank, Sent
<1>31. CASE Unlink
  BY <1>31 DEF Unlink, NoNewSent, NoNewBlank, Sent
<1>13. ASSUME NEW fails \in BOOLEAN, Forget(fails) PROVE Kinds'
  <2>1. KeyStore' = [KeyStore EXCEPT ![old[cur["poller"]].pub] = "none"] /\ KeySave(KeyStore', fails)
    BY <1>13 DEF Forget
  <2>2. NoNewSent
    BY <1>13 DEF Forget, NoNewSent, Sent
  <2>3. \A k \in Key : KeyStore'[k] \in {"none", KeyStore[k]}
    BY <2>1 DEF TypeOK, Pub
  <2> QED
    BY <1>29, <2>1, <2>2, <2>3
<1>14. CASE PruneDone
  BY <1>14 DEF PruneDone, NoNewSent, NoNewBlank, Sent
<1>15. CASE RefreshOpen
  <2>1. UNCHANGED <<server, confFile, copies, KeyStore, keysFile>>
    BY <1>15 DEF RefreshOpen
  <2>2. \A a \in Actor, m \in Mesh : msg'[a][m] \in {msg[a][m], Parsed(confFile)[m]}
    BY <1>15 DEF RefreshOpen, TypeOK
  <2>3. NoNewSent
    BY <2>1, <2>2 DEF NoNewSent, Sent, Parsed
  <2> QED
    BY <2>1, <2>3 DEF NoNewBlank
<1>16. ASSUME NEW a \in Actor, NEW m \in Mesh, Begin(a, m) PROVE Kinds'
  <2>1. KeyLookup(a, m) /\ (copies' = copies \/ \E no : copies' = copies \cup {[no |-> no, mesh |-> m, host |-> msg[a][m]]})
    BY <1>16 DEF Begin
  <2>2. m \in Members(msg[a])
    BY <2>1 DEF KeyLookup, Shape
  <2> DEFINE h == msg[a][m]
  <2>3. NoNewSent
    BY <2>1 DEF KeyLookup, NoNewSent, Sent
  <2>4. /\ keysFile' = keysFile
        /\ \/ KeyStore' = KeyStore
           \/ KeyStore' = [KeyStore EXCEPT ![h.pub] = IF h.priv THEN "priv" ELSE "blank"]
    BY <2>1 DEF KeyLookup, PrivateKey
  <2>5. h.pub \in Pub /\ h.priv \in BOOLEAN /\ Sent(h.pub, h.priv)
    BY <2>2, HandSent
  <2>6. NoNewBlank
    <3>1. CASE KeyStore' = KeyStore
      BY <2>4, <3>1 DEF NoNewBlank
    <3>2. CASE KeyStore' = [KeyStore EXCEPT ![h.pub] = IF h.priv THEN "priv" ELSE "blank"]
      <4>1. \A k \in Key : k # h.pub => KeyStore'[k] = KeyStore[k]
        BY <3>2 DEF TypeOK, Pub
      <4>2. KeyStore'[h.pub] = "blank" => Sent(h.pub, FALSE)
        BY <2>5, <3>2 DEF TypeOK
      <4> QED
        BY <2>4, <4>1, <4>2 DEF NoNewBlank
    <3> QED
      BY <2>4, <3>1, <3>2
  <2> QED
    BY <2>3, <2>6
<1>17. ASSUME NEW a \in Actor, NEW fails \in BOOLEAN, Store(a, fails) PROVE Kinds'
  <2>1. NoNewSent /\ KeyStore' = KeyStore /\ KeySave(KeyStore, fails)
    BY <1>17 DEF Store, NoNewSent, Sent
  <2> QED
    BY <1>29, <2>1
<1>18. ASSUME NEW a \in Actor, Regenerate(a) PROVE Kinds'
  <2>1. PICK k \in Key : KeyStore' = [KeyStore EXCEPT ![Rec(a).pub] = "none", ![k] = "priv"]
    BY <1>18 DEF Regenerate
  <2>2. keysFile' = keysFile /\ \A j \in Key : KeyStore'[j] \in {"none", "priv", KeyStore[j]}
    BY <1>18, <2>1 DEF Regenerate, TypeOK, Pub
  <2>3. NoNewSent
    BY <1>18 DEF Regenerate, NoNewSent, Sent
  <2> QED
    BY <2>2, <2>3 DEF NoNewBlank
<1>19. ASSUME NEW a \in Actor, NEW fails \in BOOLEAN, Save(a, fails) PROVE Kinds'
  <2>1. NoNewSent /\ KeyStore' = KeyStore /\ KeySave(KeyStore, fails)
    BY <1>19 DEF Save, NoNewSent, Sent
  <2> QED
    BY <1>29, <2>1
<1>20. ASSUME NEW a \in Actor, UpdateMeshifyHost(a) PROVE Kinds'
  <2>1. Patched(cur[a], Rec(a), key[a], FALSE)
    BY <1>20, HostPatch
  <2>2. UNCHANGED <<confFile, msg, copies, KeyStore, keysFile>> /\ InFlight(a, key[a]) /\ key[a] \in Key
    BY <1>20 DEF UpdateMeshifyHost, InFlight, Shape
  <2>3. \A j \in Key, p \in BOOLEAN : Sent(j, p)' => Sent(j, p) \/ (j = key[a] /\ p = FALSE)
    BY <2>1, <2>2 DEF Patched, Sent
  <2>4. \A p \in BOOLEAN : ~Sent(key[a], p)
    BY <2>2, SentCarried DEF Apart
  <2> QED
    BY <2>2, <2>3, <2>4 DEF Kinds
<1>21. CASE Compare
  BY <1>21 DEF Compare, NoNewSent, NoNewBlank, Sent
<1>22. ASSUME NEW fails \in BOOLEAN, Stop(fails) PROVE Kinds'
  BY <1>22 DEF Stop, NoNewSent, NoNewBlank, Sent
<1>32. CASE Clear
  BY <1>32 DEF Clear, NoNewSent, NoNewBlank, Sent
<1>23. ASSUME NEW a \in Actor, Put(a) PROVE Kinds'
  BY <1>23 DEF Put, NoNewSent, NoNewBlank, Sent
<1>24. ASSUME NEW a \in Actor, NEW fails \in BOOLEAN, Up(a, fails) PROVE Kinds'
  BY <1>24 DEF Up, NoNewSent, NoNewBlank, Sent
<1>33. ASSUME NEW a \in Actor, Clean(a) PROVE Kinds'
  BY <1>33 DEF Clean, NoNewSent, NoNewBlank, Sent
<1>25. ASSUME NEW a \in Actor, EndRound(a) PROVE Kinds'
  BY <1>25 DEF EndRound, TypeOK, NoMesh, NoNewSent, NoNewBlank, Sent
<1>26. ASSUME NEW f \in Fault, NEW cut \in BOOLEAN, Restart(f, cut) PROVE Kinds'
  BY <1>26 DEF Restart, TypeOK, Pub, NoMesh, NoNewSent, NoNewBlank, Sent
<1>27. CASE UNCHANGED vars
  BY <1>27 DEF vars, NoNewSent, NoNewBlank, Sent, Parsed
<1>28. ASSUME NEW c \in copies, ConfigureUPnP(c) PROVE Kinds'
  <2>1. Patched(c.mesh, c.host, c.host.pub, c.host.priv) /\ c.mesh \in Mesh /\ c.host \in Host
    BY <1>28, CopyPatch
  <2>2. UNCHANGED <<confFile, msg, KeyStore, keysFile>> /\ copies' \subseteq copies
    BY <1>28 DEF ConfigureUPnP
  <2>3. NoNewSent
    BY <2>1, <2>2 DEF NoNewSent, Patched, Sent
  <2> QED
    BY <2>2, <2>3 DEF NoNewBlank
<1> QED
  BY <1>1, <1>2, <1>3, <1>4, <1>5, <1>6, <1>7, <1>8, <1>9, <1>10, <1>11, <1>12, <1>13, <1>14, <1>15,
     <1>16, <1>17, <1>18, <1>19, <1>20, <1>21, <1>22, <1>23, <1>24, <1>25, <1>26, <1>27, <1>28, <1>30, <1>31, <1>32, <1>33
     DEF Next, Configure, Admin, HTTP, PollFails, UpdateMeshifyConfig, Apply

----------------------------------------------------------------------------
(* A file that is right is what its interface runs *)

\* The records in meshify.conf are carried.
LEMMA FileCarried ==
    ASSUME TypeOK, NEW m \in Members(Parsed(confFile))
    PROVE  /\ m \in Mesh /\ Parsed(confFile)[m] \in Host /\ Parsed(confFile)[m].pub \in Pub
           /\ Carries(m, Parsed(confFile)[m].pub)
<1>1. m \in Mesh /\ Parsed(confFile)[m] \in Host /\ Parsed(confFile)[m] # Nil
  BY ParsedType, NilIsNoData DEF Members, TypeOK, Message
<1> QED
  BY <1>1, HostFields DEF Carries, Has

\* The key store keeps what it says of every key that a record carries.
KeepsCarried == \A p \in Pub : (\E m \in Mesh : Carries(m, p)) => KeyStore'[p] = KeyStore[p]

\* No record carries a key that has just been generated.
LEMMA NewKeyKeeps ==
    ASSUME TypeOK, NEW k \in Key, Generated(k), KeyStore' = [KeyStore EXCEPT ![k] = "priv"]
    PROVE  KeepsCarried
BY UnusedKey DEF KeepsCarried, TypeOK

\* A step of nobody's round that touches no interface.
LEMMA StepAside ==
    ASSUME TypeOK, Shape, InStep, UNCHANGED <<wgFile, wgUp, crossed, pc, msg, cur, key, todo>>, KeepsCarried,
           \A m \in Mesh : Parsed(confFile)'[m] \in {Nil, Parsed(confFile)[m]}
    PROVE  InStep'
<1>1. \A a \in Actor : /\ Rec(a)' = Rec(a) /\ Text(a)' = Text(a)
                       /\ (pc[a] = "store" \/ pc[a] = "regen" \/ Keyed(a)) => KeyStore'[Rec(a).pub] = KeyStore[Rec(a).pub]
  <2>1. ASSUME NEW a \in Actor, pc[a] = "store" \/ pc[a] = "regen" \/ Keyed(a)
        PROVE  KeyStore'[Rec(a).pub] = KeyStore[Rec(a).pub]
    <3>1. cur[a] \in Members(msg[a])
      BY <2>1 DEF Shape, Keyed
    <3> QED
      BY <3>1, HandSent DEF KeepsCarried, Rec
  <2> QED
    BY <2>1 DEF Rec, Text
<1>2. Chosen'
  BY <1>1 DEF InStep, Chosen, Keyed
<1>3. Placed'
  BY <1>1 DEF InStep, Placed
<1>4. Applied'
  <2>1. Pending' = Pending
    BY DEF Pending
  <2>2. \A m \in Members(Parsed(confFile)') :
          /\ m \in Members(Parsed(confFile)) /\ Parsed(confFile)'[m] = Parsed(confFile)[m]
          /\ KeyStore'[Parsed(confFile)[m].pub] = KeyStore[Parsed(confFile)[m].pub]
    BY FileCarried DEF Members, KeepsCarried
  <2> QED
    BY <2>1, <2>2 DEF InStep, Applied
<1>5. Matched'
  BY DEF InStep, Matched
<1> QED
  BY <1>2, <1>3, <1>4, <1>5 DEF InStep

\* While the poller prunes, only the files and the interfaces matter.
LEMMA Pruning ==
    ASSUME pc'["poller"] \in {"write", "prune", "unlink", "forget"}, pc'["refresher"] \in {"idle", "dead"}, Matched'
    PROVE  InStep'
<1>1. Chosen' /\ Placed'
  BY DEF Chosen, Placed, Keyed, Actor
<1>2. Applied'
  BY DEF Applied, Pending, Members
<1> QED
  BY <1>1, <1>2 DEF InStep

\* Interfaces go down, and files only where they have.
LEMMA MatchedDown ==
    ASSUME Matched, Lowers, \A n \in Mesh : wgFile'[n] # wgFile[n] => Downed(n)
    PROVE  Matched'
BY NilIsNoData DEF Matched, Lowers, Downed

\* The interfaces that stay up run what they did.
LEMMA AppliedDown ==
    ASSUME Applied, Lowers, UNCHANGED <<confFile, KeyStore>>, \A n \in Pending : n \in Pending' \/ Downed(n)
    PROVE  Applied'
<1>1. Parsed(confFile)' = Parsed(confFile)
  BY DEF Parsed
<1>2. \A n \in Mesh \ (Pending' \cup crossed') :
          wgUp'[n] # Nil => n \notin Pending \cup crossed /\ wgUp'[n] = wgUp[n]
  BY DEF Lowers, Downed
<1> QED
  BY <1>1, <1>2 DEF Applied, Members

\* A step of nobody's round that takes interfaces down, and files where they are.
LEMMA StepDown ==
    ASSUME TypeOK, Shape, InStep, Lowers, UNCHANGED <<confFile, KeyStore, pc, msg, todo, cur, key>>,
           \A n \in Mesh : wgFile'[n] # wgFile[n] => wgFile'[n] = Nil /\ Downed(n)
    PROVE  InStep'
<1>1. \A a \in Actor : Rec(a)' = Rec(a) /\ Text(a)' = Text(a) /\ Keyed(a)' = Keyed(a)
  BY DEF Rec, Text, Keyed
<1>2. \A a \in Actor : pc[a] = "up" \/ Keyed(a) => cur[a] \in Mesh
  BY DEF Keyed, Shape, Members
<1>3. Chosen'
  BY <1>1, <1>2 DEF InStep, Chosen, Keyed
<1>4. Placed'
  <2>1. \A a \in Actor : pc'[a] = "up" => wgFile'[cur'[a]] \in {Nil, Text(a)'}
    BY <1>1, <1>2 DEF InStep, Placed
  <2>2. pc'["poller"] \in {"put", "up"} => wgUp'[cur'["poller"]] = Nil \/ cur'["poller"] \in crossed'
    BY <1>2 DEF InStep, Placed, Lowers, Keyed, Actor
  <2> QED
    BY <2>1, <2>2 DEF Placed
<1>5. Applied'
  BY AppliedDown DEF InStep, Pending
<1>6. Matched'
  BY MatchedDown DEF InStep
<1> QED
  BY <1>3, <1>4, <1>5, <1>6 DEF InStep

\* When goroutine a moves, the other one is not in a round.
LEMMA Solo ==
    ASSUME TypeOK, Turns, ~Overlap, NEW a \in Actor, Active(a)
    PROVE  /\ \A b \in Actor : b # a => pc[b] \in {"idle", "dead"}
           /\ a = "refresher" => pc["poller"] = "idle" /\ Pending = {}
           /\ pc[a] # "write" => msg[a] = Parsed(confFile)
<1>1. CASE a = "poller"
  BY <1>1, LonePoller DEF Actor, Active
<1>2. CASE a = "refresher"
  BY <1>2, LoneRefresher DEF Actor, Pending
<1> QED
  BY <1>1, <1>2 DEF Actor

\* A step of goroutine a that touches no file and no interface keeps the rest
\* when the poller's mesh stays in hand and the key store keeps what it says of
\* the records of all other meshes.
LEMMA InHand ==
    ASSUME TypeOK, Shape, Turns, InStep, ~Overlap, NEW a \in Actor, Active(a),
           UNCHANGED <<wgFile, wgUp, crossed, msg, confFile>>, \A b \in Actor : b # a => pc'[b] = pc[b],
           pc'[a] \notin {"put", "up", "write"}, Chosen',
           a = "poller" => Pending \subseteq Pending',
           \A m \in Members(Parsed(confFile)) \ Pending' :
               LET h == Parsed(confFile)[m]
               IN  KeyStore'[h.pub] # KeyStore[h.pub] /\ ~h.priv => KeyStore'[h.pub] # "priv"
    PROVE  InStep'
<1>1. \A b \in Actor : b # a => pc[b] \in {"idle", "dead"}
  BY Solo
<1>2. Placed'
  BY <1>1 DEF Placed, Actor
<1>3. Pending \subseteq Pending'
  BY Solo DEF Actor
<1>4. Applied'
  <2>1. Parsed(confFile)' = Parsed(confFile)
    BY DEF Parsed
  <2> SUFFICES ASSUME NEW m \in Members(Parsed(confFile)) \ (Pending' \cup crossed), wgUp[m] # Nil
               PROVE  LET h == Parsed(confFile)[m]
                          t == wgUp[m]
                      IN  /\ h.on /\ t # Empty /\ t.host = h
                          /\ t.key # h.pub => KeyStore'[h.pub] # "priv" /\ ~h.priv
    BY <2>1 DEF Applied
  <2>2. m \in Members(Parsed(confFile)) \ (Pending \cup crossed)
    BY <1>3
  <2> QED
    BY <2>2 DEF InStep, Applied
<1>5. Matched'
  BY DEF InStep, Matched
<1> QED
  BY <1>2, <1>4, <1>5 DEF InStep

\* The key lookup: the key is there, or the record's own pair is added.
LEMMA LookupInStep ==
    ASSUME TypeOK, TypeOK', Shape, Shape', Turns, Apart, Kinds, InStep, ~Overlap,
           NEW a \in Actor, NEW m \in Mesh, KeyLookup(a, m)
    PROVE  InStep'
<1> USE NilIsNoKey DEF Goto
<1> DEFINE h == msg[a][m]
<1>1. /\ pc[a] = "pick" /\ m \in todo[a] /\ todo' = [todo EXCEPT ![a] = @ \ {m}] /\ cur' = [cur EXCEPT ![a] = m]
      /\ pc' = [pc EXCEPT ![a] = pc'[a]] /\ pc'[a] \in {"dump", "regen", "store"}
      /\ UNCHANGED <<wgFile, wgUp, crossed, msg, confFile>>
  BY DEF KeyLookup, diskVars, stopVars, TypeOK
<1>2. /\ m \in Members(msg[a]) /\ h \in Host /\ h.pub \in Pub /\ h.priv \in BOOLEAN /\ Carries(m, h.pub)
      /\ Sent(h.pub, h.priv) /\ (h.priv => h.pub \in Key)
  BY <1>1, HandSent DEF Shape
<1>3. /\ Active(a) /\ \A b \in Actor : b # a => pc[b] \in {"idle", "dead"} /\ pc'[b] = pc[b]
      /\ msg[a] = Parsed(confFile) /\ (a = "refresher" => Pending = {})
  BY <1>1, Solo DEF Active, TypeOK
<1>4. \A p \in Pub : p # h.pub => KeyStore'[p] = KeyStore[p]
  BY DEF KeyLookup, TypeOK
<1>5. KeyStore'[h.pub] # KeyStore[h.pub] => KeyStore'[h.pub] = PrivateKey(h)
  BY <1>2 DEF KeyLookup, TypeOK
<1>6. Rec(a)' = h /\ cur'[a] = m
  BY <1>1 DEF Rec, TypeOK
<1>7. Chosen'
  <2>1. CASE pc'[a] = "dump"
    <3>1. key'[a] = h.pub /\ KeyStore'[h.pub] = "priv"
      BY <2>1 DEF KeyLookup, TypeOK
    <3> QED
      BY <1>3, <1>6, <2>1, <3>1 DEF Chosen, Keyed
  <2>2. CASE pc'[a] = "regen"
    <3>1. KeyStore[h.pub] = "blank" /\ KeyStore' = KeyStore
      BY <2>2 DEF KeyLookup, TypeOK
    <3>2. ~h.priv
      BY <1>2, <3>1 DEF Kinds
    <3> QED
      BY <1>3, <1>6, <2>2, <3>1, <3>2 DEF Chosen, Keyed
  <2>3. CASE pc'[a] = "store"
    <3>1. KeyStore'[h.pub] = PrivateKey(h)
      BY <1>2, <2>3 DEF KeyLookup, TypeOK
    <3> QED
      BY <1>3, <1>6, <2>3, <3>1 DEF Chosen, Keyed, PrivateKey
  <2> QED
    BY <1>1, <2>1, <2>2, <2>3
<1>8. a = "poller" => Pending \subseteq Pending' /\ m \in Pending'
  BY <1>1 DEF Pending, TypeOK
<1>9. ASSUME NEW n \in Members(Parsed(confFile)) \ Pending', KeyStore'[Parsed(confFile)[n].pub] # KeyStore[Parsed(confFile)[n].pub],
             ~Parsed(confFile)[n].priv
      PROVE  KeyStore'[Parsed(confFile)[n].pub] # "priv"
  <2> DEFINE g == Parsed(confFile)[n]
  <2>1. n \in Mesh /\ g.pub \in Pub /\ Carries(n, g.pub)
    BY FileCarried
  <2>2. g.pub = h.pub
    BY <1>4, <1>9, <2>1
  <2>3. CASE g.pub \in Key
    <3>1. n = m
      BY <1>2, <2>1, <2>2, <2>3 DEF Apart
    <3> QED
      BY <1>3, <1>5, <1>9, <2>2, <3>1 DEF PrivateKey
  <2>4. CASE g.pub = Nil
    BY <2>4 DEF Shape
  <2> QED
    BY <2>1, <2>3, <2>4 DEF Pub
<1> QED
  BY <1>1, <1>3, <1>7, <1>8, <1>9, InHand

\* A new pair is generated only for a record that came without a private key.
LEMMA RegenerateInStep ==
    ASSUME TypeOK, TypeOK', Shape, Turns, InStep, ~Overlap, NEW a \in Actor, Regenerate(a)
    PROVE  InStep'
<1> USE NilIsNoKey DEF Goto
<1>1. PICK k \in Key : /\ Generated(k) /\ key' = [key EXCEPT ![a] = k]
                       /\ KeyStore' = [KeyStore EXCEPT ![Rec(a).pub] = "none", ![k] = "priv"]
  BY DEF Regenerate
<1>2. /\ pc[a] = "regen" /\ pc' = [pc EXCEPT ![a] = "save"]
      /\ UNCHANGED <<wgFile, wgUp, crossed, msg, confFile, cur, todo>>
  BY DEF Regenerate, diskVars, asideVars, stopVars
<1>3. /\ Active(a) /\ \A b \in Actor : b # a => pc[b] \in {"idle", "dead"} /\ pc'[b] = pc[b]
  BY <1>2, Solo DEF Active, TypeOK
<1>4. cur[a] \in Members(msg[a]) /\ cur[a] \in Mesh /\ Rec(a).pub \in Pub /\ Carries(cur[a], Rec(a).pub) /\ ~Rec(a).priv
  BY <1>2, HandSent DEF Shape, Rec, InStep, Chosen
<1>5. k # Rec(a).pub /\ \A m \in Mesh : ~Carries(m, k)
  BY <1>1, <1>4, UnusedKey
<1>6. /\ KeyStore'[Rec(a).pub] = "none" /\ key'[a] = k
      /\ \A p \in Pub : p \notin {k, Rec(a).pub} => KeyStore'[p] = KeyStore[p]
  BY <1>1, <1>4, <1>5 DEF TypeOK, Pub
<1>7. Rec(a)' = Rec(a) /\ pc'[a] = "save"
  BY <1>2 DEF Rec, TypeOK
<1>8. Chosen'
  <2>1. wgFile[cur[a]] \notin {Nil, Empty} => wgFile[cur[a]].key # k
    BY <1>1, <1>4 DEF Generated, Unused
  <2> QED
    BY <1>2, <1>3, <1>4, <1>5, <1>6, <1>7, <2>1 DEF Chosen, Keyed
<1>9. a = "poller" => Pending \subseteq Pending'
  BY <1>2 DEF Pending, TypeOK
<1>10. ASSUME NEW n \in Members(Parsed(confFile)), KeyStore'[Parsed(confFile)[n].pub] # KeyStore[Parsed(confFile)[n].pub]
       PROVE  KeyStore'[Parsed(confFile)[n].pub] # "priv"
  BY <1>5, <1>6, <1>10, FileCarried
<1> QED
  BY <1>2, <1>3, <1>7, <1>8, <1>9, <1>10, InHand

\* What goroutine a puts into the file differs from what the interface runs, if
\* at all, in a key that is not the record's own.
LEMMA PutInStep ==
    ASSUME TypeOK, TypeOK', Shape, Turns, InStep, ~Overlap, NEW a \in Actor, Put(a)
    PROVE  InStep'
<1> USE NilIsNoKey, NilIsNoData DEF Goto
<1>1. /\ pc[a] = IF a = "poller" THEN "put" ELSE "dump"
      /\ wgFile' = [wgFile EXCEPT ![cur[a]] = Text(a)] /\ pc' = [pc EXCEPT ![a] = "up"]
      /\ UNCHANGED <<wgUp, crossed, msg, confFile, cur, key, todo, KeyStore>>
  BY DEF Put, asideVars, stopVars
<1>2. /\ Active(a) /\ \A b \in Actor : b # a => pc[b] \in {"idle", "dead"} /\ pc'[b] = pc[b]
      /\ msg[a] = Parsed(confFile) /\ (a = "refresher" => Pending = {} /\ pc["poller"] = "idle")
  BY <1>1, Solo DEF Active, TypeOK
<1>3. cur[a] \in Members(msg[a]) /\ cur[a] \in Mesh /\ key[a] \in Key /\ Keyed(a)
  BY <1>1 DEF Shape, Members, Keyed
<1>4. Rec(a)' = Rec(a) /\ Text(a)' = Text(a) /\ pc'[a] = "up"
  BY <1>1 DEF Rec, Text, TypeOK
<1>5. wgFile'[cur[a]] = Text(a) /\ \A m \in Mesh : m # cur[a] => wgFile'[m] = wgFile[m]
  BY <1>1, <1>3 DEF TypeOK
<1>6. Chosen'
  BY <1>1, <1>2, <1>3, <1>4 DEF InStep, Chosen, Keyed
<1>7. Placed'
  BY <1>1, <1>2, <1>4, <1>5 DEF InStep, Placed
<1>8. Applied'
  <2>1. Pending' = Pending /\ Parsed(confFile)' = Parsed(confFile)
    BY <1>1, <1>2, <1>4 DEF Pending, Parsed, TypeOK
  <2> QED
    BY <1>1, <2>1 DEF InStep, Applied
<1>9. Matched'
  <2>1. CASE a = "poller"
    <3>1. wgUp[cur[a]] = Nil \/ cur[a] \in crossed
      BY <1>1, <2>1 DEF InStep, Placed
    <3> QED
      BY <1>1, <1>5, <3>1 DEF InStep, Matched
  <2>2. CASE a = "refresher"
    <3> SUFFICES ASSUME wgUp[cur[a]] \notin {Nil, Text(a)}, cur[a] \notin crossed
                 PROVE  Text(a) \notin {Nil, Empty} /\ Text(a).host.pub # Text(a).key
      BY <1>1, <1>5 DEF InStep, Matched
    <3> DEFINE t == wgUp[cur[a]]
               h == Rec(a)
    <3>1. /\ cur[a] \in Members(Parsed(confFile)) \ (Pending \cup crossed) /\ h = Parsed(confFile)[cur[a]]
      BY <1>2, <1>3, <2>2 DEF Rec
    <3>2. /\ h.on /\ t # Empty /\ t.host = h
          /\ t.key # h.pub => KeyStore[h.pub] # "priv" /\ ~h.priv
      BY <3>1 DEF InStep, Applied
    <3>3. Text(a) = [host |-> h, key |-> key[a]] /\ Text(a) # Nil /\ Text(a) # Empty
      BY <1>3, <3>2, TextIsData
    <3>4. t = [host |-> t.host, key |-> t.key]
      BY <1>3, <3>2 DEF TypeOK, WgText, Config
    <3>5. key[a] # h.pub
      <4>1. SUFFICES ASSUME key[a] = h.pub PROVE FALSE
        OBVIOUS
      <4>2. KeyStore[h.pub] = "priv"
        BY <1>3, <4>1 DEF InStep, Chosen
      <4> QED
        BY <3>2, <3>3, <3>4, <4>1, <4>2
    <3> QED
      BY <3>3, <3>5
  <2> QED
    BY <2>1, <2>2 DEF Actor
<1> QED
  BY <1>6, <1>7, <1>8, <1>9 DEF InStep

\* When the text made for the mesh in hand is what its file holds, the interface
\* runs that text or is down, unless it was started during a stop.
LEMMA SkipRight ==
    ASSUME TypeOK, Shape, InStep, pc["poller"] = "dump", wgFile[cur["poller"]] = Text("poller"),
           cur["poller"] \notin crossed
    PROVE  wgUp[cur["poller"]] \in {Nil, Text("poller")}
<1> DEFINE m == cur["poller"]
           h == Rec("poller")
           k == key["poller"]
<1>1. m \in Members(msg["poller"]) /\ k \in Key /\ "poller" \in Actor
  BY DEF Shape, Actor
<1>2. m \in Mesh /\ Text("poller") # Nil /\ (Text("poller") # Empty => Text("poller") = [host |-> h, key |-> k])
  BY <1>1, TextIsData DEF TypeOK
<1> SUFFICES ASSUME wgUp[m] \notin {Nil, wgFile[m]} PROVE FALSE
  OBVIOUS
<1>3. wgFile[m] \notin {Nil, Empty} /\ wgFile[m].host.pub # wgFile[m].key
  BY <1>2 DEF InStep, Matched
<1>4. wgFile[m].host = h /\ wgFile[m].key = k /\ k # h.pub
  BY <1>2, <1>3
<1> QED
  BY <1>1, <1>3, <1>4 DEF InStep, Chosen

\* What an interface runs that has been brought in line with its record.
LEMMA TextFits ==
    ASSUME TypeOK, Shape, Chosen, NEW a \in Actor, Keyed(a), Text(a) # Empty
    PROVE  /\ Rec(a).on /\ Text(a).host = Rec(a)
           /\ Text(a).key # Rec(a).pub => KeyStore[Rec(a).pub] # "priv" /\ ~Rec(a).priv
<1>1. cur[a] \in Members(msg[a]) /\ key[a] \in Key
  BY DEF Shape, Keyed
<1>2. Rec(a).on /\ Text(a) = [host |-> Rec(a), key |-> key[a]]
  BY <1>1, TextIsData
<1> QED
  BY <1>2 DEF Chosen

\* The poller skips a mesh that is in line with its record.
LEMMA CompareInStep ==
    ASSUME TypeOK, TypeOK', Shape, Turns, InStep, ~Overlap, Compare
    PROVE  InStep'
<1> USE DEF Goto
<1>1. /\ pc["poller"] = "dump" /\ "poller" \in Actor /\ cur["poller"] \in Members(msg["poller"])
      /\ Keyed("poller") /\ cur["poller"] \in Mesh
      /\ UNCHANGED <<wgFile, wgUp, crossed, msg, confFile, todo, KeyStore>>
  BY DEF Compare, Actor, Shape, Keyed, Members, diskVars, asideVars, stopVars
<1>2. /\ Active("poller") /\ \A b \in Actor : b # "poller" => pc[b] \in {"idle", "dead"} /\ pc'[b] = pc[b]
      /\ msg["poller"] = Parsed(confFile)
  BY <1>1, Solo DEF Active, Compare, NextMesh, TypeOK
<1>3. CASE wgFile[cur["poller"]] # Text("poller")
  <2>1. pc'["poller"] = "stop" /\ cur' = cur /\ key' = key
    BY <1>3 DEF Compare, TypeOK, Actor
  <2>2. Rec("poller")' = Rec("poller")
    BY <1>1, <2>1 DEF Rec
  <2>3. Chosen'
    BY <1>1, <1>2, <2>1, <2>2 DEF InStep, Chosen, Keyed, Actor
  <2>4. Pending' = Pending
    BY <1>1, <2>1 DEF Pending
  <2> QED
    BY <1>1, <1>2, <2>1, <2>3, <2>4, InHand
<1>4. CASE wgFile[cur["poller"]] = Text("poller")
  <2>1. pc'["poller"] = "pick"
    BY <1>4 DEF Compare, NextMesh, TypeOK, Actor
  <2>2. Chosen' /\ Placed'
    BY <1>2, <2>1 DEF Chosen, Placed, Keyed, Actor
  <2>3. Applied'
    <3>1. Parsed(confFile)' = Parsed(confFile) /\ Pending = Pending' \cup {cur["poller"]}
      BY <1>1, <2>1 DEF Pending, Parsed
    <3> SUFFICES ASSUME NEW m \in Members(Parsed(confFile)) \ (Pending' \cup crossed), wgUp[m] # Nil
                 PROVE  LET h == Parsed(confFile)[m]
                            t == wgUp[m]
                        IN  /\ h.on /\ t # Empty /\ t.host = h
                            /\ t.key # h.pub => KeyStore[h.pub] # "priv" /\ ~h.priv
      BY <1>1, <3>1 DEF Applied
    <3>2. CASE m = cur["poller"]
      <4>1. Parsed(confFile)[m] = Rec("poller") /\ wgUp[m] = Text("poller")
        BY <1>1, <1>2, <1>4, <3>2, SkipRight DEF Rec
      <4>2. wgUp[m] # Empty
        BY <1>1, <3>2 DEF InStep, Matched
      <4> QED
        BY <1>1, <4>1, <4>2, TextFits DEF InStep
    <3>3. CASE m # cur["poller"]
      BY <3>1, <3>3 DEF InStep, Applied
    <3> QED
      BY <3>2, <3>3
  <2>4. Matched'
    BY <1>1 DEF InStep, Matched
  <2> QED
    BY <2>2, <2>3, <2>4 DEF InStep
<1> QED
  BY <1>3, <1>4

\* A mesh that is enabled comes up with its record, a disabled one goes down.
LEMMA UpInStep ==
    ASSUME TypeOK, TypeOK', Shape, Turns, Backed, InStep, ~Overlap,
           NEW a \in Actor, NEW fails \in BOOLEAN, Up(a, fails), Rec(a).on \/ ~fails
    PROVE  InStep'
<1> USE NilIsNoData DEF Goto
<1>1. /\ pc[a] = "up" /\ cur[a] \in Members(msg[a]) /\ cur[a] \in Mesh /\ Keyed(a) /\ key[a] \in Key
      /\ UNCHANGED <<wgFile, msg, confFile, todo, KeyStore>>
  BY DEF Up, Shape, Keyed, Members, TypeOK, diskVars
<1>2. /\ Active(a) /\ \A b \in Actor : b # a => pc[b] \in {"idle", "dead"} /\ pc'[b] = pc[b]
      /\ msg[a] = Parsed(confFile) /\ (a = "refresher" => Pending = {} /\ pc["poller"] = "idle")
  BY <1>1, Solo DEF Active, Up, NextMesh, TypeOK
<1> DEFINE m == cur[a]
           Fits(t) == t # Nil => /\ Rec(a).on /\ t # Empty /\ t.host = Rec(a)
                                 /\ t.key # Rec(a).pub => KeyStore[Rec(a).pub] # "priv" /\ ~Rec(a).priv
<1>3. CASE Rec(a).on
  <2>1. pc'[a] = "pick" /\ StartWireguard(m, fails)
    BY <1>3 DEF Up, NextMesh, TypeOK
  <2>2. Chosen' /\ Placed'
    BY <1>1, <1>2, <2>1 DEF Chosen, Placed, Keyed, Actor
  <2>3. Parsed(confFile)' = Parsed(confFile) /\ Pending \subseteq Pending' \cup {m} /\ crossed \subseteq crossed'
    BY <1>1, <1>2, <2>1 DEF Pending, Parsed, Actor, StartWireguard
  <2>4. \A n \in Mesh : n # m => wgUp'[n] = wgUp[n]
    BY <1>1, <2>1 DEF StartWireguard, TypeOK
  <2>5. /\ m \in crossed' \/ Fits(wgUp'[m])
        /\ m \in crossed' \/ (wgUp'[m] \in {wgUp[m], wgFile[m]} /\ wgUp'[m] # Empty)
    <3>1. wgFile[m] \in {Nil, Text(a)}
      BY <1>1 DEF InStep, Placed
    <3>2. Text(a) # Empty /\ Text(a) # Nil /\ Fits(Text(a))
      <4>1. Text(a) # Empty /\ Text(a) # Nil
        BY <1>1, <1>3, TextIsData
      <4> QED
        BY <1>1, <4>1, TextFits DEF InStep
    <3>3. CASE UNCHANGED <<wgUp, crossed>>
      <4>1. m \in crossed \/ wgUp[m] # Empty
        BY <1>1 DEF InStep, Matched
      <4>2. CASE a = "poller"
        BY <1>1, <3>3, <4>1, <4>2 DEF InStep, Placed
      <4>3. CASE a = "refresher"
        <5>1. m \in crossed \/ (m \in Members(Parsed(confFile)) \ (Pending \cup crossed) /\ Rec(a) = Parsed(confFile)[m])
          BY <1>1, <1>2, <4>3 DEF Rec
        <5>2. m \in crossed \/ Fits(wgUp[m])
          BY <5>1 DEF InStep, Applied
        <5> QED
          BY <3>3, <4>1, <5>2
      <4> QED
        BY <4>2, <4>3 DEF Actor
    <3>4. CASE wgUp' = [wgUp EXCEPT ![m] = wgFile[m]]
      <4>1. wgUp'[m] = wgFile[m]
        BY <1>1, <3>4 DEF TypeOK
      <4> QED
        BY <3>1, <3>2, <4>1
    <3> QED
      BY <2>1, <3>3, <3>4 DEF StartWireguard
  <2>6. Applied'
    <3> SUFFICES ASSUME NEW n \in Members(Parsed(confFile)) \ (Pending' \cup crossed'), wgUp'[n] # Nil
                 PROVE  LET h == Parsed(confFile)[n]
                            t == wgUp'[n]
                        IN  /\ h.on /\ t # Empty /\ t.host = h
                            /\ t.key # h.pub => KeyStore[h.pub] # "priv" /\ ~h.priv
      BY <1>1, <2>3 DEF Applied
    <3>1. CASE n = m
      <4>1. Parsed(confFile)[n] = Rec(a)
        BY <1>2, <3>1 DEF Rec
      <4> QED
        BY <2>5, <3>1, <4>1
    <3>2. CASE n # m
      <4>1. n \in Members(Parsed(confFile)) \ (Pending \cup crossed) /\ wgUp'[n] = wgUp[n]
        BY <2>3, <2>4, <3>2 DEF Members
      <4> QED
        BY <4>1 DEF InStep, Applied
    <3> QED
      BY <3>1, <3>2
  <2>7. Matched'
    BY <1>1, <2>3, <2>4, <2>5 DEF InStep, Matched
  <2> QED
    BY <2>2, <2>6, <2>7 DEF InStep
<1>4. CASE ~Rec(a).on
  <2>1. pc'[a] = "clean" /\ WgQuickDown(m, FALSE) /\ cur' = cur /\ key' = key
    BY <1>4 DEF Up, TypeOK
  <2>2. Lowers
    BY <1>1, <2>1, QuickDowns
  <2>3. Chosen'
    BY <1>1, <1>2, <2>1 DEF InStep, Chosen, Keyed, Rec, Actor
  <2>4. Placed'
    BY <1>2, <2>1 DEF Placed, Actor
  <2>5. Applied'
    <3>1. Pending' = Pending
      BY <1>1, <1>2, <2>1 DEF Pending, Actor
    <3> QED
      BY <1>1, <2>2, <3>1, AppliedDown DEF InStep
  <2>6. Matched'
    BY <1>1, <2>2, MatchedDown DEF InStep
  <2> QED
    BY <2>3, <2>4, <2>5, <2>6 DEF InStep
<1> QED
  BY <1>3, <1>4

\* A disabled mesh is done when its file is gone: its interface is down.
LEMMA CleanInStep ==
    ASSUME TypeOK, TypeOK', Shape, Turns, Backed, InStep, ~Overlap, NEW a \in Actor, Clean(a)
    PROVE  InStep'
<1> USE DEF Goto
<1>1. /\ pc[a] = "clean" /\ pc'[a] = "pick" /\ cur[a] \in Mesh /\ RemoveFile(cur[a])
      /\ UNCHANGED <<wgUp, crossed, confFile, todo, KeyStore>>
  BY DEF Clean, NextMesh, Shape, Members, TypeOK, asideVars, stopVars
<1>2. /\ \A b \in Actor : b # a => pc[b] \in {"idle", "dead"} /\ pc'[b] = pc[b]
      /\ a = "refresher" => Pending = {}
  BY <1>1, Solo DEF Active, Clean, NextMesh, TypeOK
<1>3. Lowers /\ Downed(cur[a])
  BY <1>1, StaysUp DEF Backed, Downed
<1>4. Chosen' /\ Placed'
  BY <1>1, <1>2 DEF Chosen, Placed, Keyed, Actor
<1>5. Applied'
  <2>1. Pending \subseteq Pending' \cup {cur[a]}
    BY <1>1, <1>2 DEF Pending, Actor
  <2> QED
    BY <1>1, <1>3, <2>1, AppliedDown DEF InStep
<1>6. Matched'
  <2>1. \A n \in Mesh : n # cur[a] => wgFile'[n] = wgFile[n]
    BY <1>1 DEF RemoveFile, TypeOK
  <2> QED
    BY <1>3, <2>1, MatchedDown DEF InStep
<1> QED
  BY <1>4, <1>5, <1>6 DEF InStep

\* The poller stops a mesh before it rewrites its file: first the interface, ...
LEMMA StopInStep ==
    ASSUME TypeOK, TypeOK', Shape, Turns, Backed, InStep, ~Overlap, Stop(FALSE)
    PROVE  InStep'
<1> USE DEF Goto
<1> DEFINE m == cur["poller"]
<1>1. /\ pc["poller"] = "stop" /\ pc'["poller"] = "clear" /\ "poller" \in Actor /\ m \in Mesh
      /\ Keyed("poller") /\ WgQuickDown(m, FALSE)
      /\ UNCHANGED <<wgFile, msg, confFile, cur, key, todo, KeyStore>>
  BY DEF Stop, Actor, Shape, Members, Keyed, TypeOK, diskVars
<1>2. \A b \in Actor : b # "poller" => pc[b] \in {"idle", "dead"} /\ pc'[b] = pc[b]
  BY <1>1, Solo DEF Active, Stop, TypeOK
<1>3. Lowers
  BY <1>1, QuickDowns
<1>4. Chosen'
  BY <1>1, <1>2 DEF InStep, Chosen, Keyed, Rec, Actor
<1>5. Placed'
  BY <1>1, <1>2 DEF Placed, Actor
<1>6. Applied'
  <2>1. Pending' = Pending
    BY <1>1 DEF Pending
  <2> QED
    BY <1>1, <1>3, <2>1, AppliedDown DEF InStep
<1>7. Matched'
  BY <1>1, <1>3, MatchedDown DEF InStep
<1> QED
  BY <1>4, <1>5, <1>6, <1>7 DEF InStep

\* ... then the file.
LEMMA ClearInStep ==
    ASSUME TypeOK, TypeOK', Shape, Turns, Backed, InStep, ~Overlap, Clear
    PROVE  InStep'
<1> USE DEF Goto
<1> DEFINE m == cur["poller"]
<1>1. /\ pc["poller"] = "clear" /\ pc'["poller"] = "put" /\ "poller" \in Actor /\ m \in Mesh
      /\ Keyed("poller") /\ RemoveFile(m)
      /\ UNCHANGED <<wgUp, crossed, msg, confFile, cur, key, todo, KeyStore>>
  BY DEF Clear, Actor, Shape, Members, Keyed, TypeOK, asideVars, stopVars
<1>2. \A b \in Actor : b # "poller" => pc[b] \in {"idle", "dead"} /\ pc'[b] = pc[b]
  BY <1>1, Solo DEF Active, Clear, TypeOK
<1>3. Lowers /\ Downed(m)
  BY <1>1, StaysUp DEF Backed, Downed
<1>4. Chosen'
  BY <1>1, <1>2 DEF InStep, Chosen, Keyed, Rec, Actor
<1>5. Placed'
  BY <1>1, <1>2, <1>3 DEF Placed, Downed, Actor
<1>6. Applied'
  <2>1. Pending' = Pending
    BY <1>1 DEF Pending
  <2> QED
    BY <1>1, <1>3, <2>1, AppliedDown DEF InStep
<1>7. Matched'
  <2>1. \A n \in Mesh : n # m => wgFile'[n] = wgFile[n]
    BY <1>1 DEF RemoveFile, TypeOK
  <2> QED
    BY <1>3, <2>1, MatchedDown DEF InStep
<1> QED
  BY <1>4, <1>5, <1>6, <1>7 DEF InStep

\* Every step keeps files and interfaces in step while rounds take turns, until
\* the process has crashed or wg-quick down has failed.
LEMMA StepInStep ==
    ASSUME TypeOK, TypeOK', Shape, Shape', Apart, Turns, Kinds, Backed, InStep, [Next]_vars, ~Overlap,
           ~Happened("crash")', ~Happened("stuck")'
    PROVE  InStep'
<1>0. /\ ~Spend({"crash"})
      /\ "poller" \in Actor /\ Parsed(Empty) = NoMesh /\ Parsed(Nil) = NoMesh
  BY StepSpent, Remembered DEF Fault, TypeOK, Actor, Parsed
<1> USE <1>0, Succeeds, StaysUp DEF serverVars, diskVars, workVars, asideVars, saveVars, copyVars, stopVars, Goto
<1>1. KeyStore' = KeyStore => KeepsCarried
  BY DEF KeepsCarried
<1>2. ASSUME NEW m \in Mesh, AdminAdd(m) \/ AdminEdit(m) \/ AdminRemove(m) PROVE InStep'
  BY <1>1, <1>2, StepAside DEF AdminAdd, AdminEdit, AdminRemove, Parsed
<1>3. ASSUME NEW fails \in BOOLEAN, keyHandler(fails) PROVE InStep'
  BY <1>3, NewKeyKeeps, StepAside DEF keyHandler, Parsed
<1>4. ASSUME NEW m \in Mesh, NEW fails \in BOOLEAN, stopServiceHandler(m, fails) PROVE InStep'
  <2>1. WgQuickDown(m, FALSE) /\ UNCHANGED <<wgFile, confFile, KeyStore, pc, msg, todo, cur, key>>
    BY <1>4 DEF stopServiceHandler
  <2> QED
    BY <2>1, QuickDowns, StepDown
<1>29. ASSUME NEW s \in stops, stopServiceRemoves(s) PROVE InStep'
  <2>1. UNCHANGED <<wgUp, crossed, confFile, KeyStore, pc, msg, todo, cur, key>>
    BY <1>29 DEF stopServiceRemoves
  <2>2. s.mesh \in Mesh /\ Downed(s.mesh)
    BY <1>29, <2>1 DEF Backed, Downed, TypeOK
  <2>3. \A n \in Mesh : IF n = s.mesh THEN wgFile'[n] = Nil ELSE wgFile'[n] = wgFile[n]
    BY <1>29 DEF stopServiceRemoves, RemoveFile, TypeOK
  <2> QED
    BY <2>1, <2>2, <2>3, StepDown
<1>5. ASSUME MayStart("poller") PROVE pc["poller"] = "idle" /\ pc["refresher"] \in {"idle", "dead"}
  BY <1>5 DEF MayStart, Actor
<1>6. CASE PollFetch
  <2>1. CASE UNCHANGED <<confFile, pc, msg>>
    BY <1>1, <1>6, <2>1, StepAside DEF PollFetch, Parsed
  <2>2. CASE pc' = [pc EXCEPT !["poller"] = "write"]
    <3>1. pc'["poller"] = "write" /\ pc'["refresher"] = pc["refresher"]
      BY <2>2 DEF TypeOK
    <3>2. Matched'
      BY <1>6 DEF PollFetch, InStep, Matched
    <3> QED
      BY <1>5, <1>6, <3>1, <3>2, Pruning DEF PollFetch
  <2> QED
    BY <1>6, <2>1, <2>2 DEF PollFetch
<1>7. CASE PollNotModified
  BY <1>1, <1>7, StepAside DEF PollNotModified, Parsed
<1>8. CASE PollError
  BY <1>1, <1>8, StepAside DEF PollError, Parsed
<1>9. CASE PollGarbled
  BY <1>1, <1>9, StepAside DEF PollGarbled, Parsed
<1>10. CASE PollDenied
  <2>1. \A m \in Mesh : Parsed(confFile)'[m] \in {Nil, Parsed(confFile)[m]}
    BY <1>10 DEF PollDenied, Parsed, NoMesh
  <2> QED
    BY <1>1, <1>10, <2>1, StepAside DEF PollDenied
<1>11. ASSUME Active("poller"), pc["poller"] # "write" \/ WriteConf, pc'["refresher"] = pc["refresher"]
       PROVE  pc'["refresher"] \in {"idle", "dead"}
  BY <1>11, LonePoller DEF Active
<1>12. CASE WriteConf
  <2>1. /\ pc["poller"] = "write" /\ pc'["poller"] = "prune" /\ pc'["refresher"] = pc["refresher"]
        /\ UNCHANGED <<wgUp, crossed, wgFile>>
    BY <1>12 DEF WriteConf, TypeOK
  <2> QED
    BY <1>11, <1>12, <2>1, Pruning DEF Active, InStep, Matched
<1>13. ASSUME NEW m \in Mesh, NEW fails \in BOOLEAN, Prune(m, fails) PROVE InStep'
  <2>1. /\ pc["poller"] = "prune" /\ pc'["poller"] = "unlink" /\ pc'["refresher"] = pc["refresher"]
        /\ WgQuickDown(m, FALSE) /\ wgFile' = wgFile
    BY <1>13 DEF Prune, TypeOK, Actor
  <2>2. Matched'
    BY <2>1, QuickDowns, MatchedDown DEF InStep
  <2> QED
    BY <1>11, <2>1, <2>2, Pruning DEF Active
<1>30. CASE Unlink
  <2>1. /\ pc["poller"] = "unlink" /\ pc'["poller"] = "forget" /\ pc'["refresher"] = pc["refresher"]
        /\ UNCHANGED <<wgUp, crossed>> /\ RemoveFile(cur["poller"]) /\ cur["poller"] \in Mesh
    BY <1>30 DEF Unlink, TypeOK, Shape, Members
  <2>2. Downed(cur["poller"]) /\ \A n \in Mesh : n # cur["poller"] => wgFile'[n] = wgFile[n]
    BY <2>1 DEF Backed, Downed, RemoveFile, TypeOK
  <2>3. Matched'
    BY <2>1, <2>2, MatchedDown DEF InStep
  <2> QED
    BY <1>11, <2>1, <2>3, Pruning DEF Active
<1>14. ASSUME NEW fails \in BOOLEAN, Forget(fails) PROVE InStep'
  <2>1. /\ pc["poller"] = "forget" /\ pc'["poller"] = "prune" /\ pc'["refresher"] = pc["refresher"]
        /\ UNCHANGED <<wgUp, crossed, wgFile>>
    BY <1>14 DEF Forget, TypeOK
  <2> QED
    BY <1>11, <2>1, Pruning DEF Active, InStep, Matched
<1>15. CASE PruneDone
  <2>1. /\ pc["poller"] = "prune" /\ pc'["poller"] = "pick" /\ pc'["refresher"] = pc["refresher"]
        /\ todo'["poller"] = Members(msg["poller"]) /\ UNCHANGED <<wgUp, crossed, wgFile, confFile>>
    BY <1>15 DEF PruneDone, TypeOK
  <2>2. pc["refresher"] \in {"idle", "dead"} /\ Parsed(confFile) = msg["poller"]
    BY <2>1, LonePoller DEF Active
  <2>3. Chosen' /\ Placed'
    BY <2>1, <2>2 DEF Chosen, Placed, Keyed, Actor
  <2>4. Applied'
    BY <2>1, <2>2 DEF Applied, Pending, Members, Parsed
  <2> QED
    BY <2>1, <2>3, <2>4 DEF InStep, Matched
<1>16. CASE Compare
  BY <1>16, CompareInStep
<1>17. ASSUME NEW fails \in BOOLEAN, Stop(fails) PROVE InStep'
  <2>1. Stop(FALSE)
    BY <1>17 DEF Stop
  <2> QED
    BY <2>1, StopInStep
<1>31. CASE Clear
  BY <1>31, ClearInStep
<1>18. CASE RefreshOpen
  <2>1. pc["poller"] = "idle"
    BY <1>18 DEF RefreshOpen, MayStart, Actor, Turns
  <2>2. /\ pc'["poller"] = "idle" /\ pc'["refresher"] \in {"dead", "pick"}
        /\ UNCHANGED <<wgFile, wgUp, crossed, confFile, KeyStore>>
    BY <1>18, <2>1 DEF RefreshOpen, TypeOK, Actor
  <2>3. Chosen' /\ Placed'
    BY <2>1, <2>2 DEF Chosen, Placed, Keyed, Actor
  <2>4. Applied'
    BY <2>1, <2>2 DEF InStep, Applied, Pending, Members, Parsed
  <2> QED
    BY <2>2, <2>3, <2>4 DEF InStep, Matched
<1>19. ASSUME NEW a \in Actor, NEW m \in Mesh, Begin(a, m) PROVE InStep'
  BY <1>19, LookupInStep DEF Begin
<1>20. ASSUME NEW a \in Actor, NEW fails \in BOOLEAN, Store(a, fails) PROVE InStep'
  <2>1. /\ pc[a] = "store" /\ Active(a) /\ pc'[a] \in {"dump", "regen"}
        /\ UNCHANGED <<wgFile, wgUp, crossed, msg, confFile, cur, todo, KeyStore>>
    BY <1>20 DEF Store, Active, TypeOK
  <2>2. \A b \in Actor : b # a => pc[b] \in {"idle", "dead"} /\ pc'[b] = pc[b]
    BY <1>20, <2>1, Solo DEF Store, TypeOK
  <2>3. Rec(a)' = Rec(a)
    BY <2>1 DEF Rec
  <2>4. Chosen'
    <3>1. CASE KeyStore[Rec(a).pub] = "priv"
      <4>1. pc'[a] = "dump" /\ key'[a] = Rec(a).pub
        BY <1>20, <3>1 DEF Store, TypeOK
      <4> QED
        BY <2>1, <2>2, <2>3, <3>1, <4>1 DEF Chosen, Keyed
    <3>2. CASE KeyStore[Rec(a).pub] # "priv"
      <4>1. pc'[a] = "regen" /\ Rec(a).priv \in BOOLEAN
        <5>1. cur[a] \in Members(msg[a])
          BY <2>1 DEF Shape
        <5> QED
          BY <1>20, <3>2, <5>1, HandSent DEF Store, TypeOK, Rec
      <4> QED
        BY <2>1, <2>2, <2>3, <3>2, <4>1 DEF InStep, Chosen, Keyed
    <3> QED
      BY <3>1, <3>2
  <2>5. a = "poller" => Pending \subseteq Pending'
    BY <2>1 DEF Pending
  <2> QED
    BY <2>1, <2>2, <2>4, <2>5, InHand
<1>21. ASSUME NEW a \in Actor, Regenerate(a) PROVE InStep'
  BY <1>21, RegenerateInStep
<1>22. ASSUME NEW a \in Actor, NEW fails \in BOOLEAN, Save(a, fails) \/ UpdateMeshifyHost(a) PROVE InStep'
  <2>1. /\ pc[a] \in {"save", "patch"} /\ Active(a) /\ pc'[a] \in {"patch", "dump"}
        /\ UNCHANGED <<wgFile, wgUp, crossed, msg, confFile, cur, todo, key, KeyStore>>
    BY <1>22 DEF Save, UpdateMeshifyHost, Active, TypeOK
  <2>2. \A b \in Actor : b # a => pc[b] \in {"idle", "dead"} /\ pc'[b] = pc[b]
    BY <1>22, <2>1, Solo DEF Save, UpdateMeshifyHost, TypeOK
  <2>3. Rec(a)' = Rec(a)
    BY <2>1 DEF Rec
  <2>4. Chosen'
    BY <2>1, <2>2, <2>3 DEF InStep, Chosen, Keyed
  <2>5. a = "poller" => Pending \subseteq Pending'
    BY <2>1 DEF Pending
  <2> QED
    BY <2>1, <2>2, <2>4, <2>5, InHand
<1>23. ASSUME NEW a \in Actor, Put(a) PROVE InStep'
  BY <1>23, PutInStep
<1>24. ASSUME NEW a \in Actor, NEW fails \in BOOLEAN, Up(a, fails) PROVE InStep'
  <2>1. Rec(a).on \/ ~fails
    BY <1>24 DEF Up
  <2> QED
    BY <1>24, <2>1, UpInStep
<1>32. ASSUME NEW a \in Actor, Clean(a) PROVE InStep'
  BY <1>32, CleanInStep
<1>25. ASSUME NEW a \in Actor, EndRound(a) PROVE InStep'
  <2>1. /\ pc[a] = "pick" /\ Active(a) /\ pc'[a] = "idle" /\ todo[a] = {}
        /\ UNCHANGED <<wgFile, wgUp, crossed, confFile, cur, todo, key, KeyStore>>
    BY <1>25 DEF EndRound, Active, TypeOK
  <2>2. \A b \in Actor : b # a => pc[b] \in {"idle", "dead"} /\ pc'[b] = pc[b]
    BY <1>25, <2>1, Solo DEF EndRound, TypeOK
  <2>3. Chosen' /\ Placed'
    BY <2>1, <2>2 DEF Chosen, Placed, Keyed, Actor
  <2>4. Pending' = Pending
    BY <2>1, <2>2 DEF Pending, Actor
  <2>5. Applied'
    BY <2>1, <2>4 DEF InStep, Applied, Members, Parsed
  <2> QED
    BY <2>1, <2>3, <2>5 DEF InStep, Matched
<1>26. ASSUME NEW f \in Fault, NEW cut \in BOOLEAN, Restart(f, cut) PROVE InStep'
  <2>1. /\ \A m \in Mesh : wgUp'[m] = Nil
        /\ \A a \in Actor : pc'[a] = "idle"
    BY <1>26 DEF Restart
  <2> QED
    BY <2>1, NilIsNoData DEF InStep, Chosen, Placed, Keyed, Applied, Matched, Members, Actor
<1>27. CASE UNCHANGED vars
  BY <1>1, <1>27, StepAside DEF vars, Parsed
<1>28. ASSUME NEW c \in copies, ConfigureUPnP(c) PROVE InStep'
  BY <1>1, <1>28, StepAside DEF ConfigureUPnP, Parsed
<1> QED
  BY <1>2, <1>3, <1>4, <1>6, <1>7, <1>8, <1>9, <1>10, <1>12, <1>13, <1>14, <1>15, <1>16, <1>17, <1>18,
     <1>19, <1>20, <1>21, <1>22, <1>23, <1>24, <1>25, <1>26, <1>27, <1>28, <1>29, <1>30, <1>31, <1>32
     DEF Next, Configure, Admin, HTTP, PollFails, UpdateMeshifyConfig, Apply

\* At the start every interface runs its file, made from the record and its key.
LEMMA InitInStep == Init => Kinds /\ InStep
<1> SUFFICES ASSUME Init PROVE Kinds /\ InStep
  OBVIOUS
<1> USE NilIsNoKey, NilIsNoData, JoinedType
<1> DEFINE rec(m) == [id |-> 0, rev |-> 0, on |-> TRUE, pub |-> Joined[m], priv |-> FALSE]
           run(m) == [host |-> rec(m), key |-> Joined[m]]
<1>1. /\ server = [m \in Mesh |-> IF m \in DOMAIN Joined THEN rec(m) ELSE Nil]
      /\ wgFile = [m \in Mesh |-> IF m \in DOMAIN Joined THEN run(m) ELSE Nil] /\ wgUp = wgFile
      /\ msg = [a \in Actor |-> NoMesh] /\ copies = {} /\ confFile \in {Nil, server}
      /\ \A a \in Actor : pc[a] = "idle"
  BY DEF Init
<1>2. Parsed(confFile) \in {NoMesh, server}
  BY <1>1 DEF Parsed
<1>3. \A k \in Key : ~Sent(k, TRUE)
  <2>1. \A m \in Mesh : server[m] # Nil => server[m].priv = FALSE
    BY <1>1
  <2>2. \A m \in Mesh : Parsed(confFile)[m] # Nil => Parsed(confFile)[m].priv = FALSE
    BY <1>2, <2>1 DEF NoMesh
  <2> QED
    BY <1>1, <2>1, <2>2 DEF Sent, NoMesh
<1>4. Kinds
  BY <1>3 DEF Kinds
<1>5. Chosen /\ Placed
  BY <1>1 DEF Chosen, Placed, Keyed, Actor
<1>6. \A m \in DOMAIN Joined : run(m) # Empty /\ run(m) # Nil
  <2>1. \A m \in DOMAIN Joined : rec(m) \in Host /\ Joined[m] \in Key
    BY DEF Host, Pub
  <2>2. \A m \in DOMAIN Joined : run(m) \in Config
    BY <2>1 DEF Config
  <2> QED
    BY <2>2, EmptyIsNoData
<1>7. Applied
  <2> SUFFICES ASSUME NEW m \in Members(Parsed(confFile)), wgUp[m] # Nil
               PROVE  LET h == Parsed(confFile)[m]
                          t == wgUp[m]
                      IN  /\ h.on /\ t # Empty /\ t.host = h
                          /\ t.key # h.pub => KeyStore[h.pub] # "priv" /\ ~h.priv
    BY DEF Applied
  <2>1. m \in DOMAIN Joined /\ wgUp[m] = run(m) /\ m \in Mesh
    BY <1>1 DEF Members
  <2>2. Parsed(confFile)[m] = rec(m)
    BY <1>1, <1>2, <2>1 DEF Members, NoMesh
  <2> QED
    BY <1>6, <2>1, <2>2
<1>8. Matched
  BY <1>1, <1>6 DEF Matched
<1> QED
  BY <1>4, <1>5, <1>7, <1>8 DEF InStep

\* SkipInv is an inductive invariant of the states that satisfy IInv.
THEOREM SkipInductive == Spec => []SkipInv
<1>1. Init => SkipInv
  BY InitTurns, InitInStep DEF SkipInv
<1>2. IInv /\ IInv' /\ SkipInv /\ [Next]_vars => SkipInv'
  <2> SUFFICES ASSUME IInv, IInv', SkipInv, [Next]_vars PROVE SkipInv'
    OBVIOUS
  <2>1. TypeOK /\ TypeOK' /\ Shape /\ Shape' /\ Apart /\ Turns /\ Kinds
    BY DEF IInv, SkipInv
  <2>2. Turns' /\ Kinds'
    BY <2>1, StepTurns, StepKinds
  <2>3. ASSUME ~Overlap, ~Happened("stuck")' PROVE Backed'
    <3>1. ~Happened("stuck")
      BY <2>1, <2>3, StepSpent, Remembered DEF Fault
    <3> QED
      BY <2>1, <2>3, <3>1, StepBacked DEF SkipInv
  <2>4. ASSUME ~Overlap, ~Happened("crash")', ~Happened("stuck")' PROVE InStep'
    <3>1. ~Happened("crash") /\ ~Happened("stuck")
      BY <2>1, <2>4, StepSpent, Remembered DEF Fault
    <3> QED
      BY <2>1, <2>4, <3>1, StepInStep DEF SkipInv
  <2> QED
    BY <2>2, <2>3, <2>4 DEF SkipInv
<1> QED
  BY <1>1, <1>2, Inductive, PTL DEF Spec

\* When the poller is done, every interface that is up runs the record that
\* meshify.conf has for its mesh, unless it was started during a stop.
THEOREM UpToDate == Spec => []RunsWhatConfSays
<1>1. SkipInv => RunsWhatConfSays
  BY DEF SkipInv, InStep, Applied, Pending, RunsWhatConfSays
<1> QED
  BY <1>1, SkipInductive, PTL

\* When the poller skips a mesh because its file is already right, the interface
\* runs that file, or is down, unless it was started during a stop.
THEOREM SkipsAreSound == Spec => SkipIsSound
<1> DEFINE m == cur["poller"]
           Fine == \/ Overlap \/ Happened("crash") \/ Happened("stuck")
                   \/ m \in crossed \/ wgUp[m] \in {Nil, wgFile[m]}
           Skips == pc["poller"] = "dump" /\ pc'["poller"] = "pick"
<1>1. TypeOK /\ [Next]_vars /\ Skips => Compare
  <2> SUFFICES ASSUME TypeOK, [Next]_vars, Skips PROVE Compare
    OBVIOUS
  <2> USE DEF workVars, Goto, TypeOK, Actor
  <2>1. ~UNCHANGED pc
    OBVIOUS
  <2>2. Next
    BY <2>1 DEF vars
  <2>3. ~Admin /\ ~PollNotModified /\ ~PollFails /\ ~\E c \in copies : ConfigureUPnP(c)
    BY <2>1 DEF Admin, PollFails, AdminAdd, AdminEdit, AdminRemove, PollNotModified, PollError, PollGarbled,
                PollDenied, ConfigureUPnP
  <2>4. ~HTTP
    BY <2>1 DEF HTTP, keyHandler, stopServiceHandler, stopServiceRemoves
  <2>5. ~PollFetch /\ ~RefreshOpen /\ ~WriteConf /\ ~Unlink /\ ~PruneDone /\ ~Clear
    BY <2>1 DEF PollFetch, MayStart, RefreshOpen, WriteConf, Unlink, PruneDone, Clear
  <2>6. \A fails \in BOOLEAN : ~Forget(fails) /\ ~Stop(fails) /\ \A n \in Mesh : ~Prune(n, fails)
    BY DEF Forget, Stop, Prune
  <2>7. ASSUME NEW a \in Actor, Configure(a) PROVE FALSE
    <3>1. CASE a = "poller"
      BY <2>7, <3>1 DEF Configure, Apply, Begin, KeyLookup, Store, Regenerate, Save, UpdateMeshifyHost, Put,
                        Up, Clean, EndRound
    <3>2. CASE a = "refresher"
      BY <2>7, <3>2 DEF Configure, Apply, Begin, KeyLookup, Store, Regenerate, Save, UpdateMeshifyHost, Put,
                        Up, Clean, NextMesh, EndRound
    <3> QED
      BY <3>1, <3>2
  <2>8. ~\E f \in Fault, cut \in BOOLEAN : Restart(f, cut)
    BY DEF Restart
  <2> QED
    BY <2>2, <2>3, <2>4, <2>5, <2>6, <2>7, <2>8 DEF Next, UpdateMeshifyConfig
<1>2. ASSUME TypeOK, Shape, SkipInv, Compare, Skips PROVE Fine
  <2>1. wgFile[m] = Text("poller")
    BY <1>2 DEF Compare, Goto, TypeOK, Actor
  <2> QED
    BY <1>2, <2>1, SkipRight DEF SkipInv
<1>3. TypeOK /\ Shape /\ SkipInv /\ [Next]_vars => [Skips => Fine]_vars
  BY <1>1, <1>2
<1> QED
  BY <1>3, SkipInductive, TypeCorrect, PTL DEF Spec, SkipIsSound

=============================================================================
