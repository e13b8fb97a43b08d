-------------------------- MODULE WinServiceProofs --------------------------
(***************************************************************************)
(* Proofs about WinService: a source of the event log has a service, and a *)
(* service its source, for any number of consoles, commands and meshes, as *)
(* long as nothing went wrong half-way and no mesh has the name of the     *)
(* client's own service - but for sources that a removal found missing.    *)
(***************************************************************************)
EXTENDS WinService, TLAPS

LEMMA OwnService == Meshify \in Service
BY DEF Meshify, Service

\* The states that control requests lead to.
LEMMA ControlType ==
    /\ DOMAIN Control = {"stop", "pause", "continue"}
    /\ Control["stop"] = "Stopped" /\ Control["pause"] = "Paused" /\ Control["continue"] = "Running"
BY DEF Control

\* Without a mesh of the client's name every service has a name of its own.
LEMMA OwnName ==
    ASSUME Own \notin Mesh, NEW s \in Service, NEW t \in Service, s.name = t.name
    PROVE  s = t
<1>1. \A u \in Service : u = [tunnel |-> FALSE, name |-> Own] \/ \E m \in Mesh : u = [tunnel |-> TRUE, name |-> m]
  BY DEF Service, Meshify
<1>2. CASE s.name = Own
  <2>1. \A u \in Service : u.name = Own => u = [tunnel |-> FALSE, name |-> Own]
    BY <1>1
  <2> QED
    BY <1>2, <2>1
<1>3. CASE s.name # Own
  <2>1. \A u \in Service : u.name # Own => u = [tunnel |-> TRUE, name |-> u.name]
    BY <1>1
  <2> QED
    BY <1>3, <2>1
<1> QED
  BY <1>2, <1>3

\* Every variable keeps its type, and a console its service.
LEMMA StepTyped == TypeOK /\ Shape /\ [Next]_vars => TypeOK' /\ Shape'
<1> SUFFICES ASSUME TypeOK, Shape, [Next]_vars PROVE TypeOK' /\ Shape'
  OBVIOUS
<1> USE OwnService, ControlType DEF historyVars
<1> DEFINE Goal == TypeOK' /\ Shape'
<1>1. ASSUME NEW c \in Console, NEW name \in Command, NEW s \in Service, Begin(c, name, s) PROVE Goal
  BY <1>1 DEF Begin, TypeOK, Shape, Goto, scmVars, runVars
<1>2. ASSUME NEW c \in Console, Open(c) PROVE Goal
  BY <1>2 DEF Open, TypeOK, Shape, Goto, scmVars, runVars, cmdVars, Command, Change
<1>3. ASSUME NEW c \in Console, Create(c) PROVE Goal
  BY <1>3 DEF Create, TypeOK, Shape, Goto, runVars, cmdVars, Fails
<1>4. ASSUME NEW c \in Console, AddSource(c) PROVE Goal
  BY <1>4 DEF AddSource, TypeOK, Shape, Goto, runVars, cmdVars, Fails
<1>5. ASSUME NEW c \in Console, Undo(c) PROVE Goal
  <2>1. failed' = failed \/ failed' = TRUE
    BY <1>5 DEF Undo
  <2>2. failed' \in BOOLEAN
    BY <2>1, Zenon DEF TypeOK
  <2> QED
    BY <1>5, <2>2 DEF Undo, TypeOK, Shape, Goto, runVars, cmdVars, Fails
<1>6. ASSUME NEW c \in Console, Delete(c) PROVE Goal
  BY <1>6 DEF Delete, TypeOK, Shape, Goto, runVars, cmdVars, Fails
<1>7. ASSUME NEW c \in Console, RemoveSource(c) PROVE Goal
  <2>1. failed' = failed \/ failed' = TRUE
    BY <1>7 DEF RemoveSource
  <2>2. failed' \in BOOLEAN
    BY <2>1, Zenon DEF TypeOK
  <2>3. overtaken' \subseteq {s.name : s \in Service}
    <3>1. target[c] \in Service
      BY <1>7 DEF RemoveSource, Shape, TypeOK
    <3> QED
      BY <1>7, <3>1 DEF RemoveSource, TypeOK
  <2>4. faults' \in Nat /\ sources' \subseteq sources
    BY <1>7 DEF RemoveSource, Fails, TypeOK
  <2> QED
    BY <1>7, <2>2, <2>3, <2>4 DEF RemoveSource, TypeOK, Shape, Goto, runVars, cmdVars
<1>8. ASSUME NEW c \in Console, startService(c) PROVE Goal
  BY <1>8 DEF startService, TypeOK, Shape, Goto, scmVars, cmdVars
<1>9. ASSUME NEW c \in Console, controlService(c) PROVE Goal
  BY <1>9 DEF controlService, TypeOK, Shape, Goto, scmVars, cmdVars
<1>10. ASSUME NEW c \in Console, Wait(c) PROVE Goal
  BY <1>10 DEF Wait, TypeOK, Shape, Goto, scmVars, runVars, cmdVars
<1>11. ASSUME NEW c \in Console, Close(c) PROVE Goal
  BY <1>11 DEF Close, TypeOK, Shape, Goto, runVars, Dropped
<1>12. ASSUME NEW c \in Console, Kill(c) PROVE Goal
  BY <1>12 DEF Kill, TypeOK, Shape, Goto, scmVars, runVars, cmdVars, Fails
<1>13. CASE Started
  BY <1>13 DEF Started, TypeOK, Shape, scmVars, cmdVars
<1>14. CASE Serve
  BY <1>14 DEF Serve, TypeOK, Shape, scmVars, cmdVars
<1>15. CASE StopPending
  BY <1>15 DEF StopPending, TypeOK, Shape, scmVars, cmdVars
<1>16. CASE Exit
  BY <1>16 DEF Exit, Ended, TypeOK, Shape, cmdVars, Dropped
<1>17. CASE Crash
  BY <1>17 DEF Crash, Ended, TypeOK, Shape, cmdVars, Dropped, Fails
<1>18. CASE Reboot
  BY <1>18 DEF Reboot, TypeOK, Shape, Fails
<1>19. CASE AutoStart
  BY <1>19 DEF AutoStart, TypeOK, Shape, scmVars, cmdVars
<1>20. CASE UNCHANGED vars
  BY <1>20 DEF vars, TypeOK, Shape
<1> QED
  BY <1>1, <1>2, <1>3, <1>4, <1>5, <1>6, <1>7, <1>8, <1>9, <1>10, <1>11, <1>12, <1>13, <1>14,
     <1>15, <1>16, <1>17, <1>18, <1>19, <1>20 DEF Next, ServiceManager, Execute

----------------------------------------------------------------------------
(* The two registries *)

\* Where a console has to be for the invariant to speak of it.
Changing(c) == pc[c] \in {"source", "undo", "unsource"}

\* A step in which no console begins, ends or leaves a change of a registry, and
\* in which services, sources and marks stay, keeps the registries in order.
LEMMA Quiet ==
    ASSUME Fresh, Matched,
           services' = services, marked' = marked, sources' = sources, overtaken' = overtaken,
           \A c \in Console :
              /\ (pc'[c] \in {"source", "undo"}) = (pc[c] \in {"source", "undo"})
              /\ (pc'[c] = "unsource") = (pc[c] = "unsource")
              /\ Changing(c) => target'[c] = target[c]
    PROVE  Fresh' /\ Matched'
BY DEF Fresh, Matched, Changing

\* The same when services are dropped that are marked and that no console has
\* open: nothing is left of them.
LEMMA DropQuiet ==
    ASSUME TypeOK, Shape, Fresh, Matched, Own \notin Mesh,
           NEW D \in SUBSET marked,
           \A c \in Console : Changing(c) => target[c] \notin D,
           services' = services \ D, marked' = marked \ D, sources' = sources, overtaken' = overtaken,
           \A c \in Console :
              /\ (pc'[c] \in {"source", "undo"}) = (pc[c] \in {"source", "undo"})
              /\ (pc'[c] = "unsource") = (pc[c] = "unsource")
              /\ Changing(c) => target'[c] = target[c]
    PROVE  Fresh' /\ Matched'
<1>1. \A s \in D : s.name \notin sources \ overtaken
  BY DEF Matched, Changing
<1>2. Fresh'
  BY DEF Fresh, Changing
<1>3. \A n \in sources' \ overtaken' : \E s \in services' : s.name = n
  BY <1>1 DEF Matched
<1>4. \A s \in marked' : s.name \in sources' \ overtaken' => \E c \in Console : pc'[c] = "unsource" /\ target'[c] = s
  BY DEF Matched, Changing
<1>5. \A s \in services' \ marked' :
         s.name \notin sources' => \E c \in Console : pc'[c] \in {"source", "undo"} /\ target'[c] = s
  BY DEF Matched, Changing
<1>6. \A c \in Console : pc'[c] = "unsource" => target'[c] \in marked'
  BY DEF Matched, Changing
<1> QED
  BY <1>2, <1>3, <1>4, <1>5, <1>6 DEF Matched

\* As long as nothing goes wrong the registries stay in order.
LEMMA StepMatched ==
    ASSUME TypeOK, Shape, Fresh, Matched, Own \notin Mesh, [Next]_vars, ~failed'
    PROVE  Fresh' /\ Matched'
<1> USE DEF historyVars
<1> DEFINE Goal == Fresh' /\ Matched'
<1>1. ASSUME NEW c \in Console, NEW name \in Command, NEW s \in Service, Begin(c, name, s) PROVE Goal
  BY <1>1, Quiet DEF Begin, Goto, Changing, TypeOK, scmVars
<1>2. ASSUME NEW c \in Console, Open(c) PROVE Goal
  <2>1. pc'[c] \notin {"source", "undo", "unsource"} /\ pc[c] = "open"
    BY <1>2 DEF Open, Goto, TypeOK, Shape, Command, Change, Control
  <2> QED
    BY <1>2, <2>1, Quiet DEF Open, Goto, Changing, TypeOK, scmVars, cmdVars
<1>8. ASSUME NEW c \in Console, startService(c) PROVE Goal
  BY <1>8, Quiet DEF startService, Goto, Changing, TypeOK, scmVars, cmdVars
<1>9. ASSUME NEW c \in Console, controlService(c) PROVE Goal
  BY <1>9, Quiet, ControlType DEF controlService, Goto, Changing, TypeOK, scmVars, cmdVars
<1>10. ASSUME NEW c \in Console, Wait(c) PROVE Goal
  BY <1>10, Quiet DEF Wait, Goto, Changing, TypeOK, scmVars, cmdVars
<1>13. CASE Started
  BY <1>13, Quiet DEF Started, Changing, scmVars, cmdVars
<1>14. CASE Serve
  BY <1>14, Quiet DEF Serve, Changing, scmVars, cmdVars
<1>15. CASE StopPending
  BY <1>15, Quiet DEF StopPending, Changing, scmVars, cmdVars
<1>19. CASE AutoStart
  BY <1>19, Quiet DEF AutoStart, Changing, scmVars, cmdVars
<1>20. CASE UNCHANGED vars
  BY <1>20, Quiet DEF vars, Changing
<1>12. ASSUME NEW c \in Console, Kill(c) PROVE Goal
  <2>1. ~Unfinished(c)
    BY <1>12 DEF Kill
  <2> QED
    BY <1>12, <2>1, Quiet DEF Kill, Unfinished, Goto, Changing, TypeOK, scmVars, cmdVars
<1>11. ASSUME NEW c \in Console, Close(c) PROVE Goal
  <2> DEFINE D == {s \in {handle[c]} : Dropped(s, Console \ {c}, state)}
  <2>1. D \subseteq marked /\ services' = services \ D /\ marked' = marked \ D /\ sources' = sources /\ overtaken' = overtaken
    BY <1>11 DEF Close, Dropped, TypeOK
  <2>2. \A d \in Console : Changing(d) => d # c /\ target[d] \notin D
    BY <1>11 DEF Close, Changing, Shape, Dropped
  <2>3. \A d \in Console :
           /\ (pc'[d] \in {"source", "undo"}) = (pc[d] \in {"source", "undo"})
           /\ (pc'[d] = "unsource") = (pc[d] = "unsource")
           /\ Changing(d) => target'[d] = target[d]
    BY <1>11, <2>2 DEF Close, Goto, TypeOK
  <2> HIDE DEF D
  <2>4. Fresh' /\ Matched'
    BY <2>1, <2>2, <2>3, DropQuiet
  <2> QED
    BY <2>4
<1>16. CASE Exit \/ Crash
  <2> DEFINE D == {s \in {Meshify} : Dropped(s, Console, state')}
  <2>1. D \subseteq marked /\ services' = services \ D /\ marked' = marked \ D /\ sources' = sources /\ overtaken' = overtaken
    BY <1>16 DEF Exit, Crash, Ended, Dropped, TypeOK
  <2>2. \A d \in Console : Changing(d) => target[d] \notin D
    BY DEF Changing, Shape, Dropped
  <2> QED
    BY <1>16, <2>1, <2>2, DropQuiet DEF Exit, Crash, Changing, cmdVars
<1>18. CASE Reboot
  <2>1. \A c \in Console : pc[c] \notin {"source", "undo", "unsource"}
    BY <1>18 DEF Reboot, Unfinished
  <2>2. services' = services \ marked /\ marked' = marked \ marked /\ sources' = sources /\ overtaken' = overtaken
        /\ \A c \in Console : pc'[c] = "idle"
    BY <1>18 DEF Reboot
  <2> HIDE DEF Goal
  <2>3. Fresh' /\ Matched'
    BY <2>1, <2>2, DropQuiet DEF Changing
  <2> QED
    BY <2>3 DEF Goal
<1>3. ASSUME NEW c \in Console, Create(c) PROVE Goal
  <2>1. CASE services' = services
    <3>1. pc'[c] = "close"
      BY <1>3, <2>1 DEF Create, Goto, TypeOK
    <3> QED
      BY <1>3, <2>1, <3>1, Quiet DEF Create, Goto, Changing, TypeOK, cmdVars
  <2>2. CASE services' # services
    <3> DEFINE t == target[c]
    <3>1. /\ t \notin services /\ services' = services \cup {t} /\ marked' = marked
          /\ sources' = sources /\ overtaken' = overtaken /\ t \in Service /\ target' = target
          /\ pc[c] = "create" /\ pc' = [pc EXCEPT ![c] = "source"]
      BY <1>3, <2>2 DEF Create, Goto, Shape, cmdVars
    <3>2. pc'[c] = "source" /\ \A d \in Console : d # c => pc'[d] = pc[d]
      BY <3>1 DEF TypeOK
    <3>3. t.name \notin sources \ overtaken
      BY <3>1, OwnName DEF Matched, TypeOK
    <3>4. \A d \in Console : pc[d] \in {"source", "undo"} => target[d] # t
      BY <3>1 DEF Shape
    <3> HIDE DEF t
    <3>5. Fresh'
      BY <3>1, <3>2, <3>3, <3>4 DEF Fresh, TypeOK, t
    <3>6. \A s \in marked' : s.name \in sources' \ overtaken' => \E d \in Console : pc'[d] = "unsource" /\ target'[d] = s
      BY <3>1, <3>2 DEF Matched
    <3>7. \A s \in services' \ marked' :
             s.name \notin sources' => \E d \in Console : pc'[d] \in {"source", "undo"} /\ target'[d] = s
      BY <3>1, <3>2 DEF Matched, t
    <3>8. \A d \in Console : pc'[d] = "unsource" => target'[d] \in marked'
      BY <3>1, <3>2 DEF Matched
    <3>9. \A n \in sources' \ overtaken' : \E s \in services' : s.name = n
      BY <3>1 DEF Matched
    <3> QED
      BY <3>5, <3>6, <3>7, <3>8, <3>9 DEF Matched
  <2> QED
    BY <2>1, <2>2
<1>4. ASSUME NEW c \in Console, AddSource(c) PROVE Goal
  <2> DEFINE t == target[c]
  <2>0. t \in services /\ t \in Service
    BY <1>4 DEF AddSource, Shape, TypeOK
  <2>1. CASE sources' = sources
    <3>1. pc[c] = "source" /\ pc' = [pc EXCEPT ![c] = "undo"]
      BY <1>4, <2>1 DEF AddSource, Goto
    <3> QED
      BY <1>4, <2>1, <3>1, Quiet DEF AddSource, Changing, TypeOK, cmdVars
  <2>2. CASE sources' # sources
    <3>1. /\ sources' = sources \cup {t.name} /\ services' = services /\ marked' = marked /\ target' = target
          /\ overtaken' = overtaken
          /\ pc[c] = "source" /\ pc' = [pc EXCEPT ![c] = "close"]
      BY <1>4, <2>2 DEF AddSource, Goto, cmdVars
    <3>2. pc'[c] = "close" /\ \A d \in Console : d # c => pc'[d] = pc[d]
      BY <3>1 DEF TypeOK
    <3>3. \A s \in services : s.name = t.name => s = t
      BY <2>0, OwnName DEF TypeOK
    <3> HIDE DEF t
    <3>5. Fresh'
      BY <2>0, <3>1, <3>2, <3>3 DEF Fresh, Shape, TypeOK, t
    <3>6. \A s \in marked' : s.name \in sources' \ overtaken' => \E d \in Console : pc'[d] = "unsource" /\ target'[d] = s
      BY <3>1, <3>2, <3>3 DEF Matched, Fresh, TypeOK, t
    <3>7. \A s \in services' \ marked' :
             s.name \notin sources' => \E d \in Console : pc'[d] \in {"source", "undo"} /\ target'[d] = s
      BY <3>1, <3>2 DEF Matched, t
    <3>8. \A d \in Console : pc'[d] = "unsource" => target'[d] \in marked'
      BY <3>1, <3>2 DEF Matched
    <3>9. \A n \in sources' \ overtaken' : \E s \in services' : s.name = n
      BY <2>0, <3>1 DEF Matched
    <3> QED
      BY <3>5, <3>6, <3>7, <3>8, <3>9 DEF Matched
  <2> QED
    BY <2>1, <2>2
<1>5. ASSUME NEW c \in Console, Undo(c) PROVE Goal
  <2> DEFINE t == target[c]
  <2>1. /\ sources' = sources /\ services' = services /\ marked' = marked \cup {t} /\ target' = target
        /\ overtaken' = overtaken
        /\ pc[c] = "undo" /\ pc' = [pc EXCEPT ![c] = "close"]
    BY <1>5 DEF Undo, Goto, cmdVars
  <2>2. pc'[c] = "close" /\ \A d \in Console : d # c => pc'[d] = pc[d]
    BY <2>1 DEF TypeOK
  <2>3. t.name \notin sources \ overtaken
    BY <2>1 DEF Fresh
  <2>4. \A d \in Console : pc'[d] \in {"source", "undo"} => pc[d] \in {"source", "undo"} /\ target[d] # t
    BY <2>1, <2>2 DEF Fresh
  <2> HIDE DEF t
  <2>5. Fresh'
    BY <2>1, <2>2, <2>4 DEF Fresh
  <2>6. \A s \in marked' : s.name \in sources' \ overtaken' => \E d \in Console : pc'[d] = "unsource" /\ target'[d] = s
    BY <2>1, <2>2, <2>3 DEF Matched
  <2>7. \A s \in services' \ marked' :
           s.name \notin sources' => \E d \in Console : pc'[d] \in {"source", "undo"} /\ target'[d] = s
    BY <2>1, <2>2 DEF Matched, t
  <2>8. \A d \in Console : pc'[d] = "unsource" => target'[d] \in marked'
    BY <2>1, <2>2 DEF Matched
  <2>9. \A n \in sources' \ overtaken' : \E s \in services' : s.name = n
    BY <2>1 DEF Matched
  <2> QED
    BY <2>5, <2>6, <2>7, <2>8, <2>9 DEF Matched
<1>6. ASSUME NEW c \in Console, Delete(c) PROVE Goal
  <2> DEFINE t == target[c]
  <2>1. CASE marked' = marked
    <3>1. pc[c] = "delete" /\ pc' = [pc EXCEPT ![c] = "close"]
      BY <1>6, <2>1 DEF Delete, Goto
    <3> QED
      BY <1>6, <2>1, <3>1, Quiet DEF Delete, Changing, TypeOK, cmdVars
  <2>2. CASE marked' # marked
    <3>1. /\ sources' = sources /\ services' = services /\ marked' = marked \cup {t} /\ target' = target
          /\ overtaken' = overtaken
          /\ pc[c] = "delete" /\ pc' = [pc EXCEPT ![c] = "unsource"]
      BY <1>6, <2>2 DEF Delete, Goto, cmdVars
    <3>2. pc'[c] = "unsource" /\ \A d \in Console : d # c => pc'[d] = pc[d]
      BY <3>1 DEF TypeOK
    <3> HIDE DEF t
    <3>3. Fresh'
      BY <3>1, <3>2 DEF Fresh, t
    <3>4. \A s \in marked' : s.name \in sources' \ overtaken' => \E d \in Console : pc'[d] = "unsource" /\ target'[d] = s
      BY <3>1, <3>2 DEF Matched, t
    <3>5. \A s \in services' \ marked' :
             s.name \notin sources' => \E d \in Console : pc'[d] \in {"source", "undo"} /\ target'[d] = s
      BY <3>1, <3>2 DEF Matched
    <3>6. \A d \in Console : pc'[d] = "unsource" => target'[d] \in marked'
      BY <3>1, <3>2 DEF Matched, t
    <3>7. \A n \in sources' \ overtaken' : \E s \in services' : s.name = n
      BY <3>1 DEF Matched
    <3> QED
      BY <3>3, <3>4, <3>5, <3>6, <3>7 DEF Matched
  <2> QED
    BY <2>1, <2>2
<1>7. ASSUME NEW c \in Console, RemoveSource(c) PROVE Goal
  <2> DEFINE t == target[c]
  <2>1. /\ sources' = sources \ {t.name} /\ (t.name \notin overtaken' => t.name \in sources)
        /\ overtaken \subseteq overtaken'
        /\ services' = services /\ marked' = marked /\ target' = target
        /\ pc[c] = "unsource" /\ pc' = [pc EXCEPT ![c] = "close"]
    BY <1>7, ~failed' DEF RemoveSource, Goto, cmdVars
  <2>2. pc'[c] = "close" /\ \A d \in Console : d # c => pc'[d] = pc[d]
    BY <2>1 DEF TypeOK
  <2>3. t \in marked /\ t \in Service
    BY <2>1 DEF Matched, TypeOK
  <2>4. \A s \in services : s.name = t.name => s = t
    BY <2>3, OwnName DEF TypeOK
  <2>5. \A d \in Console : /\ pc'[d] \in {"source", "undo"} => pc[d] \in {"source", "undo"}
                           /\ pc'[d] \in {"source", "undo"} /\ t.name \notin overtaken' => target[d] # t
    BY <2>1, <2>2 DEF Fresh
  <2> HIDE DEF t
  <2>6. Fresh'
    BY <2>1, <2>2, <2>5 DEF Fresh, t
  <2>7. \A s \in marked' : s.name \in sources' \ overtaken' => \E d \in Console : pc'[d] = "unsource" /\ target'[d] = s
    BY <2>1, <2>2 DEF Matched, t
  <2>8. \A s \in services' \ marked' :
           s.name \notin sources' => \E d \in Console : pc'[d] \in {"source", "undo"} /\ target'[d] = s
    BY <2>1, <2>2, <2>3, <2>4 DEF Matched
  <2>9. \A d \in Console : pc'[d] = "unsource" => target'[d] \in marked'
    BY <2>1, <2>2 DEF Matched
  <2>10. \A n \in sources' \ overtaken' : \E s \in services' : s.name = n
    BY <2>1 DEF Matched
  <2> QED
    BY <2>6, <2>7, <2>8, <2>9, <2>10 DEF Matched
<1> QED
  BY <1>1, <1>2, <1>3, <1>4, <1>5, <1>6, <1>7, <1>8, <1>9, <1>10, <1>11, <1>12, <1>13, <1>14,
     <1>15, <1>16, <1>18, <1>19, <1>20 DEF Next, ServiceManager, Execute

----------------------------------------------------------------------------
(* The theorems *)

\* IInv is an inductive invariant of WinService.
THEOREM Inductive == Spec => []IInv
<1>1. Init => IInv
  <2> SUFFICES ASSUME Init PROVE IInv
    OBVIOUS
  <2>1. TypeOK /\ Shape
    <3>1. /\ marked = {} /\ request = Nil /\ failed = FALSE /\ given = 0 /\ faults = 0 /\ overtaken = {}
          /\ services \in {{}, {Meshify}} /\ sources \in {{}, {Own}}
          /\ state \in {"Stopped", "Running"} /\ exec \in {"none", "loop"}
          /\ pc = [c \in Console |-> "idle"] /\ cmd = [c \in Console |-> Nil]
          /\ target = [c \in Console |-> Nil] /\ handle = [c \in Console |-> Nil]
      BY DEF Init
    <3>2. Meshify.name = Own
      BY DEF Meshify
    <3>3. failed \in BOOLEAN
      BY <3>1
    <3> QED
      BY <3>1, <3>2, <3>3, OwnService DEF TypeOK, Shape
  <2>2. Fresh /\ Matched
    <3>1. marked = {} /\ \A c \in Console : pc[c] = "idle"
      BY DEF Init
    <3>2. (services = {} /\ sources = {}) \/ (services = {Meshify} /\ sources = {Meshify.name})
      BY DEF Init, Meshify
    <3> QED
      BY <3>1, <3>2 DEF Fresh, Matched
  <2> QED
    BY <2>1, <2>2 DEF IInv
<1>2. IInv /\ [Next]_vars => IInv'
  <2> SUFFICES ASSUME IInv, [Next]_vars PROVE IInv'
    OBVIOUS
  <2>1. TypeOK' /\ Shape'
    BY StepTyped DEF IInv
  <2>2. failed => failed'
    BY DEF historyVars, IInv, Next, ServiceManager, Execute, vars, Begin, Open, Create, AddSource, Undo, Delete,
           RemoveSource, startService, controlService, Wait, Close, Started, Serve, StopPending,
           Exit, Crash, Kill, Reboot, AutoStart
  <2>3. ~failed' /\ Own \notin Mesh => Fresh' /\ Matched'
    BY <2>2, StepMatched DEF IInv
  <2> QED
    BY <2>1, <2>3 DEF IInv
<1> QED
  BY <1>1, <1>2, PTL DEF Spec

\* Every reachable state is well typed.
THEOREM TypeCorrect == Spec => []TypeOK
<1>1. IInv => TypeOK
  BY DEF IInv
<1> QED
  BY <1>1, Inductive, PTL

\* For a client whose name no mesh has: every source of the event log belongs
\* to a service that exists, but for those that a removal found missing, as long
\* as no command was cut short or refused half-way.
THEOREM SourcesHaveServices ==
    ASSUME Own \notin Mesh
    PROVE  Spec => []NoStraySource
<1>1. IInv => NoStraySource
  BY DEF IInv, Matched, NoStraySource
<1> QED
  BY <1>1, Inductive, PTL

\* For a client whose name no mesh has: a service that is installed has its
\* source, as long as no command was cut short or refused half-way.
THEOREM ServicesHaveSources ==
    ASSUME Own \notin Mesh
    PROVE  Spec => []NoHalfInstall
<1>1. IInv => NoHalfInstall
  BY DEF IInv, Matched, Shape, NoHalfInstall
<1> QED
  BY <1>1, Inductive, PTL
=============================================================================
