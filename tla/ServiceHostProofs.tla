-------------------------- MODULE ServiceHostProofs --------------------------
(* Proofs about ServiceHost: type correctness, and that no container the       *)
(* server names is killed.                                                     *)
EXTENDS ServiceHost, TLAPS

\* Reading the file yields a configuration, whatever the file holds.
LEMMA ParsedType ==
    ASSUME NEW file \in Message \cup {Nil, Empty}
    PROVE  Parsed(file) \in Message
BY DEF Parsed, Message, NoService

\* A new container's id is one that no configuration holds.
LEMMA NewCidUnused ==
    ASSUME Unused # {}
    PROVE  /\ NewCid \in Cid
           /\ \A s \in Service : NewCid # oldmsg[s] /\ NewCid # server[s]
<1>1. NewCid \in Unused
  BY DEF NewCid
<1> QED
  BY <1>1 DEF Unused

\* A change of one service's container leaves a configuration.
LEMMA MessageUpdate ==
    ASSUME NEW message \in Message, NEW c \in Cid \cup {Blank, Nil}
    PROVE  \A s : [message EXCEPT ![s] = c] \in Message
BY DEF Message

\* A fault uses up one of its kind.
LEMMA SpendOne ==
    ASSUME left \in [Fault -> Nat], NEW f \in Fault, Spend(f)
    PROVE  /\ left' \in [Fault -> Nat]
           /\ left'[f] < left[f]
           /\ \A g \in Fault : left'[g] <= left[g]
BY DEF Spend

\* Every step keeps the types.
LEMMA StepTyped == TypeOK /\ [Next]_vars => TypeOK'
<1> SUFFICES ASSUME TypeOK, [Next]_vars PROVE TypeOK'
  OBVIOUS
<1> USE DEF TypeOK, adminVars, workVars, Stamp
<1>0. NoService \in Message /\ Parsed(confFile) \in Message /\ Config(msg) \subseteq Service
  BY ParsedType DEF NoService, Message, Config
<1>1. ASSUME NEW s \in Service, AdminAdd(s) PROVE TypeOK'
  <2>1. server' \in Message
    BY <1>1, MessageUpdate DEF AdminAdd
  <2>2. edits' \in Nat
    BY <1>1 DEF AdminAdd
  <2>3. same' \in BOOLEAN /\ etag' \in BOOLEAN
    BY <1>1 DEF AdminAdd
  <2> QED
    BY <1>1, <2>1, <2>2, <2>3 DEF AdminAdd
<1>2. ASSUME NEW s \in Service, AdminEdit(s) PROVE TypeOK'
  <2>1. edits' \in Nat
    BY <1>2 DEF AdminEdit
  <2>2. same' \in BOOLEAN /\ etag' \in BOOLEAN
    BY <1>2 DEF AdminEdit
  <2> QED
    BY <1>2, <2>1, <2>2 DEF AdminEdit
<1>3. ASSUME NEW s \in Service, AdminRemove(s) PROVE TypeOK'
  <2>1. server' \in Message
    BY <1>3, MessageUpdate DEF AdminRemove
  <2>2. hasty' \in BOOLEAN
    BY <1>3 DEF AdminRemove
  <2>3. edits' \in Nat
    BY <1>3 DEF AdminRemove
  <2>4. same' \in BOOLEAN /\ etag' \in BOOLEAN
    BY <1>3 DEF AdminRemove
  <2> QED
    BY <1>3, <2>1, <2>2, <2>3, <2>4 DEF AdminRemove
<1>4. Poll => TypeOK'
  BY <1>0 DEF Poll
<1>5. PollCut => TypeOK'
  BY <1>0, SpendOne DEF PollCut, Fault
<1>6. PollNothing => TypeOK'
  BY DEF PollNothing, vars
<1>7. Write => TypeOK'
  BY <1>0 DEF Write
<1>8. \A s \in Service, f \in BOOLEAN : CheckService(s, f) => TypeOK'
  BY SpendOne DEF CheckService, Fault
<1>9. \A f \in BOOLEAN : StartService(f) => TypeOK'
  BY NewCidUnused, SpendOne DEF StartService, NextService, Fault
<1>10. ASSUME UpdateMeshifyServiceHost PROVE TypeOK'
  <2>1. server' \in Message
    BY <1>10, MessageUpdate DEF UpdateMeshifyServiceHost
  <2>2. left' \in [Fault -> Nat] /\ same' \in BOOLEAN /\ etag' \in BOOLEAN
    BY <1>10, SpendOne DEF UpdateMeshifyServiceHost, Fault
  <2> QED
    BY <1>10, <2>1, <2>2 DEF UpdateMeshifyServiceHost, NextService
<1>11. ServicesDone => TypeOK'
  BY DEF ServicesDone, Removed, Config
<1>12. \A s \in Service, f \in BOOLEAN : StopService(s, f) => TypeOK'
  BY SpendOne DEF StopService, Fault
<1>13. EndRound => TypeOK'
  BY <1>0 DEF EndRound
<1>14. ASSUME NEW f \in Fault, Restart(f) PROVE TypeOK'
  <2>1. left' \in [Fault -> Nat]
    BY <1>14, SpendOne DEF Restart
  <2>2. running' \in [Service -> Cid \cup {Nil}]
    BY <1>14 DEF Restart
  <2>3. todo' \subseteq Service
    BY <1>14 DEF Restart, Config
  <2> QED
    BY <1>14, <1>0, <2>1, <2>2, <2>3 DEF Restart
<1>15. UNCHANGED vars => TypeOK'
  BY DEF vars
<1> QED
  BY <1>1, <1>2, <1>3, <1>4, <1>5, <1>6, <1>7, <1>8, <1>9, <1>10, <1>11, <1>12, <1>13, <1>14, <1>15
     DEF Next, Admin, UpdateServiceHostConfig

\* The client starts well typed.
LEMMA InitTyped == Init => TypeOK
<1> SUFFICES ASSUME Init PROVE TypeOK
  OBVIOUS
<1>1. NoService \in Message
  BY DEF NoService, Message
<1>2. edits \in Nat /\ left \in [Fault -> Nat]
  BY LimitType DEF Init
<1>3. same \in BOOLEAN /\ etag \in BOOLEAN /\ hasty \in BOOLEAN /\ booting \in BOOLEAN
  BY DEF Init
<1> QED
  BY <1>1, <1>2, <1>3 DEF Init, TypeOK

\* Every reachable state is well typed.
THEOREM TypeCorrect == Spec => []TypeOK
<1>1. Init => TypeOK
  BY InitTyped
<1> QED
  BY <1>1, StepTyped, PTL DEF Spec

\* Every step keeps OldIsGone.
LEMMA StepOldIsGone == TypeOK /\ OldIsGone /\ [Next]_vars => OldIsGone'
<1> SUFFICES ASSUME TypeOK, OldIsGone, [Next]_vars PROVE OldIsGone'
  OBVIOUS
<1> USE CidType DEF OldIsGone, adminVars, workVars, Stamp, Happened, TypeOK
<1>1. \A s \in Service : AdminAdd(s) => OldIsGone'
  BY DEF AdminAdd, Message
<1>2. \A s \in Service : AdminEdit(s) => OldIsGone'
  BY DEF AdminEdit
<1>3. \A s \in Service : AdminRemove(s) => OldIsGone'
  BY DEF AdminRemove, Message
<1>4. Poll => OldIsGone'
  BY DEF Poll, Message
<1>5. PollCut => OldIsGone'
  BY LimitType, SpendOne DEF PollCut, Fault
<1>6. PollNothing => OldIsGone'
  BY DEF PollNothing, vars
<1>7. Write => OldIsGone'
  BY DEF Write
<1>8. \A s \in Service, f \in BOOLEAN : CheckService(s, f) => OldIsGone'
  BY LimitType, SpendOne DEF CheckService, Fault
<1>9. \A f \in BOOLEAN : StartService(f) => OldIsGone'
  BY LimitType, NewCidUnused, SpendOne DEF StartService, NextService, Fault
<1>10. UpdateMeshifyServiceHost => OldIsGone'
  BY LimitType, SpendOne DEF UpdateMeshifyServiceHost, NextService, Fault, Message
<1>11. ServicesDone => OldIsGone'
  BY DEF ServicesDone
<1>12. \A s \in Service, f \in BOOLEAN : StopService(s, f) => OldIsGone'
  BY LimitType, SpendOne DEF StopService, Fault
<1>13. EndRound => OldIsGone'
  BY DEF EndRound, NoService
<1>14. \A f \in Fault : Restart(f) => OldIsGone'
  BY LimitType, CidType, SpendOne DEF Restart, NoService, Fault
<1>15. UNCHANGED vars => OldIsGone'
  BY DEF vars
<1> QED
  BY <1>1, <1>2, <1>3, <1>4, <1>5, <1>6, <1>7, <1>8, <1>9, <1>10, <1>11, <1>12, <1>13, <1>14, <1>15
     DEF Next, Admin, UpdateServiceHostConfig

\* OldIsGone holds in every reachable state.
LEMMA OldConfig == Spec => []OldIsGone
<1>1. Init => OldIsGone
  BY LimitType, CidType DEF Init, OldIsGone, NoService
<1> QED
  BY <1>1, StepOldIsGone, TypeCorrect, PTL DEF Spec

\* What KillsOnlyRemoved says of one step.
KillAllowed ==
    \A s \in Service :
        running[s] # Nil /\ running'[s] = Nil /\ ~Happened("cut") /\ left'["reboot"] = left["reboot"]
           => running[s] # server[s]

\* A container only stops in StopService and in a reboot.
LEMMA KillStep == TypeOK /\ OldIsGone /\ [Next]_vars => KillAllowed
<1> SUFFICES ASSUME TypeOK, OldIsGone, [Next]_vars,
                    NEW s \in Service, running[s] # Nil, running'[s] = Nil,
                    ~Happened("cut"), left'["reboot"] = left["reboot"]
             PROVE  running[s] # server[s]
  BY DEF KillAllowed
<1>1. \/ \E r \in Service, f \in BOOLEAN : StopService(r, f)
      \/ \E f \in BOOLEAN : StartService(f)
      \/ \E f \in Fault : Restart(f)
      \/ UNCHANGED running
  BY DEF Next, Admin, AdminAdd, AdminEdit, AdminRemove, Poll, PollCut, PollNothing, vars,
         UpdateServiceHostConfig, Write, CheckService, UpdateMeshifyServiceHost, ServicesDone, EndRound
<1>2. ASSUME NEW r \in Service, NEW f \in BOOLEAN, StopService(r, f) PROVE running[s] # server[s]
  <2>1. r = s /\ oldmsg[s] = running[s] /\ s \in todo /\ pc = "prune"
    BY <1>2 DEF StopService, TypeOK
  <2>2. s \in Removed(oldmsg, msg) /\ oldmsg[s] \in Cid
    BY <2>1 DEF OldIsGone, TypeOK
  <2>3. msg[s] # oldmsg[s]
    BY <2>2, CidType DEF Removed, Config
  <2> QED
    BY <2>1, <2>2, <2>3 DEF OldIsGone
<1>3. ASSUME NEW f \in BOOLEAN, StartService(f) PROVE FALSE
  BY <1>3, NewCidUnused, CidType DEF StartService, TypeOK
<1>4. ASSUME NEW f \in Fault, Restart(f) PROVE FALSE
  BY <1>4 DEF Restart, Spend, TypeOK, Fault
<1> QED
  BY <1>1, <1>2, <1>3, <1>4

\* A container that the server names is never killed, for any number of
\* services, edits and faults, as long as no body was cut short.
THEOREM NoNamedKill == Spec => KillsOnlyRemoved
<1>1. TypeOK /\ OldIsGone /\ [Next]_vars => [KillAllowed]_vars
  BY KillStep
<1> QED
  BY <1>1, TypeCorrect, OldConfig, PTL DEF Spec, KillsOnlyRemoved, KillAllowed

----------------------------------------------------------------------------
(* No container is left over *)

\* No copy of the configuration, no port and no hand gets a container it did
\* not have.
NoNewName == \A s \in Service, c \in Cid : Names(s, c)' => Names(s, c)

\* A new container's id is nobody's.
LEMMA NewCidNameless ==
    ASSUME Unused # {}, Copied, TypeOK
    PROVE  NewCid \in Cid /\ \A s \in Service : cur # s => ~Names(s, NewCid)
<1>1. NewCid \in Unused
  BY DEF NewCid
<1> QED
  BY <1>1 DEF Unused, Names

\* Every step leaves each container with one service: new ids are drawn unused,
\* and an id is announced for the service it was started for.
LEMMA StepOneService == TypeOK /\ Copied /\ OneService /\ [Next]_vars => OneService'
<1> SUFFICES ASSUME TypeOK, Copied, OneService, [Next]_vars PROVE OneService'
  OBVIOUS
<1> USE CidType, FileType DEF TypeOK, adminVars, workVars, Stamp
<1>0. ASSUME NoNewName PROVE OneService'
  BY <1>0 DEF NoNewName, OneService
<1>1. \A s \in Service : AdminAdd(s) => OneService'
  BY <1>0 DEF AdminAdd, Message, NoNewName, Names
<1>2. \A s \in Service : AdminEdit(s) => OneService'
  BY <1>0 DEF AdminEdit, NoNewName, Names
<1>3. \A s \in Service : AdminRemove(s) => OneService'
  BY <1>0 DEF AdminRemove, Message, NoNewName, Names
<1>4. Poll => OneService'
  BY <1>0 DEF Poll, NoNewName, Names, Parsed, NoService
<1>5. PollCut => OneService'
  BY <1>0 DEF PollCut, NoNewName, Names, Parsed, NoService
<1>6. PollNothing => OneService'
  BY <1>0 DEF PollNothing, vars, NoNewName, Names
<1>7. Write => OneService'
  BY <1>0 DEF Write, NoNewName, Names, Parsed, NoService
<1>8. \A s \in Service, f \in BOOLEAN : CheckService(s, f) => OneService'
  BY <1>0 DEF CheckService, NoNewName, Names, Copied
<1>9. ASSUME NEW f \in BOOLEAN, StartService(f) PROVE OneService'
  <2>1. CASE running[cur] = Nil /\ ~f /\ Unused # {} /\ pc' = "patch"
    <3>1. /\ NewCid \in Cid /\ \A s \in Service : cur # s => ~Names(s, NewCid)
          /\ id' = NewCid /\ running' = [running EXCEPT ![cur] = NewCid] /\ cur' = cur
      BY <1>9, <2>1, NewCidNameless DEF StartService
    <3>2. \A s \in Service, c \in Cid : Names(s, c)' => Names(s, c) \/ (s = cur /\ c = NewCid)
      BY <1>9, <3>1 DEF StartService, Names
    <3> QED
      BY <3>1, <3>2 DEF OneService
  <2>2. CASE ~(running[cur] = Nil /\ ~f /\ Unused # {} /\ pc' = "patch")
    BY <1>0, <1>9, <2>2 DEF StartService, NextService, NoNewName, Names
  <2> QED
    BY <2>1, <2>2
<1>10. UpdateMeshifyServiceHost => OneService'
  BY <1>0 DEF UpdateMeshifyServiceHost, NextService, Message, NoNewName, Names
<1>11. ServicesDone => OneService'
  BY <1>0 DEF ServicesDone, NoNewName, Names
<1>12. \A s \in Service, f \in BOOLEAN : StopService(s, f) => OneService'
  BY <1>0 DEF StopService, NoNewName, Names
<1>13. EndRound => OneService'
  BY <1>0 DEF EndRound, NoNewName, Names, NoService
<1>14. \A f \in Fault : Restart(f) => OneService'
  BY <1>0 DEF Restart, NoNewName, Names, NoService
<1>15. UNCHANGED vars => OneService'
  BY <1>0 DEF vars, NoNewName, Names
<1> QED
  BY <1>1, <1>2, <1>3, <1>4, <1>5, <1>6, <1>7, <1>8, <1>9, <1>10, <1>11, <1>12, <1>13, <1>14, <1>15
     DEF Next, Admin, UpdateServiceHostConfig

\* Every step keeps Copied.
LEMMA StepCopied == TypeOK /\ Copied /\ [Next]_vars => Copied'
<1> SUFFICES ASSUME TypeOK, Copied, [Next]_vars PROVE Copied'
  OBVIOUS
<1> USE FileType DEF TypeOK, Copied, adminVars, workVars, Stamp, Config
<1>1. \A s \in Service : AdminAdd(s) \/ AdminEdit(s) \/ AdminRemove(s) => Copied'
  BY DEF AdminAdd, AdminEdit, AdminRemove
<1>2. Poll => Copied'
  BY DEF Poll
<1>3. PollCut => Copied'
  BY DEF PollCut, Parsed
<1>4. PollNothing => Copied'
  BY DEF PollNothing, vars
<1>5. Write => Copied'
  BY DEF Write, Parsed
<1>6. \A s \in Service, f \in BOOLEAN : CheckService(s, f) => Copied'
  BY DEF CheckService
<1>7. \A f \in BOOLEAN : StartService(f) => Copied'
  BY DEF StartService, NextService
<1>8. UpdateMeshifyServiceHost => Copied'
  BY DEF UpdateMeshifyServiceHost, NextService
<1>9. ServicesDone => Copied'
  BY DEF ServicesDone
<1>10. \A s \in Service, f \in BOOLEAN : StopService(s, f) => Copied'
  BY DEF StopService
<1>11. EndRound => Copied'
  BY DEF EndRound
<1>12. \A f \in Fault : Restart(f) => Copied'
  BY DEF Restart
<1>13. UNCHANGED vars => Copied'
  BY DEF vars
<1> QED
  BY <1>1, <1>2, <1>3, <1>4, <1>5, <1>6, <1>7, <1>8, <1>9, <1>10, <1>11, <1>12, <1>13
     DEF Next, Admin, UpdateServiceHostConfig

\* Patience that is lost is not regained.
LEMMA PatientBefore == TypeOK /\ [Next]_vars /\ Patient' => Patient
<1> SUFFICES ASSUME TypeOK, [Next]_vars, Patient' PROVE Patient
  OBVIOUS
<1>1. \A f \in Fault : left'[f] <= left[f]
  <2>1. (\E f \in Fault : Spend(f)) \/ left' = left
    BY DEF Next, Admin, AdminAdd, AdminEdit, AdminRemove, Poll, PollCut, PollNothing, vars, Restart,
           UpdateServiceHostConfig, Write, CheckService, StartService, UpdateMeshifyServiceHost,
           ServicesDone, StopService, EndRound, Fault
  <2> QED
    BY <2>1, SpendOne DEF TypeOK
<1>2. hasty => hasty'
  BY DEF Next, Admin, AdminAdd, AdminEdit, AdminRemove, Poll, PollCut, PollNothing, vars, Restart, adminVars,
         UpdateServiceHostConfig, Write, CheckService, StartService, UpdateMeshifyServiceHost,
         ServicesDone, StopService, EndRound
<1>3. \A f \in {"lost", "stuck", "crash", "reboot"} : f \in Fault /\ (Happened(f) => Happened(f)')
  BY <1>1, LimitType, StepTyped DEF Happened, Fault, TypeOK
<1> QED
  BY <1>2, <1>3 DEF Patient

\* A fault that is spent has happened.
LEMMA SpentHappened ==
    ASSUME TypeOK, \A f \in Fault : left[f] <= Limit[f], NEW f \in Fault, Spend(f)
    PROVE  Happened(f)'
<1>1. left[f] \in Nat /\ Limit[f] \in Nat /\ left'[f] = left[f] - 1
  BY LimitType DEF TypeOK, Spend
<1> QED
  BY <1>1 DEF Happened

\* Every patient step keeps every container findable.
LEMMA StepTraced ==
    ASSUME TypeOK, OldIsGone, OneService, Copied, Fresh, Traced, [Next]_vars, Patient'
    PROVE  Fresh' /\ Traced'
<1> USE CidType, FileType DEF TypeOK, adminVars, workVars, Stamp, Config, Ahead, Fresh, Doomed
<1> DEFINE Goal == Fresh' /\ Traced'
<1>0. ~Spend("lost") /\ ~Spend("stuck") /\ \A f \in {"crash", "reboot"} : ~Spend(f)
  BY SpentHappened DEF Patient, OldIsGone, Fault
<1>1. \A s \in Service : AdminAdd(s) => Goal
  BY DEF AdminAdd, Traced, Message, Copied
<1>2. \A s \in Service : AdminEdit(s) => Goal
  BY DEF AdminEdit, Traced
<1>3. ASSUME NEW s \in Service, AdminRemove(s) PROVE Goal
  <2>1. Settled /\ confFile = server /\ Parsed(confFile) = server
    BY <1>3 DEF AdminRemove, Patient, Settled, Copied, Parsed
  <2> QED
    BY <1>3, <2>1 DEF AdminRemove, Settled, Traced
<1>4. ASSUME Poll PROVE Goal
  <2>1. CASE same
    BY <1>4, <2>1 DEF Poll, Traced
  <2>2. CASE ~same
    <3>1. pc = "idle" /\ pc' = "write" /\ msg' = server /\ oldmsg' = Parsed(confFile) /\ cur = Nil
      BY <1>4, <2>2 DEF Poll, Copied
    <3>2. UNCHANGED <<server, running, cur>>
      BY <1>4 DEF Poll
    <3>3. Fresh'
      BY <3>1, <3>2
    <3>4. ASSUME NEW s \in Service, running[s] # Nil, server[s] # running[s], Parsed(confFile)[s] = running[s]
          PROVE  s \in Removed(Parsed(confFile), server)
      BY <3>4 DEF Removed, OneService, Names
    <3>5. Traced'
      BY <3>1, <3>2, <3>4 DEF Traced
    <3> QED
      BY <3>3, <3>5
  <2> QED
    BY <2>1, <2>2
<1>5. ASSUME PollCut PROVE Goal
  <2>1. /\ pc = "idle" /\ pc' = "pick" /\ msg' = NoService /\ oldmsg' = Parsed(confFile) /\ todo' = {}
        /\ UNCHANGED <<server, running, cur>>
    BY <1>5 DEF PollCut
  <2>2. \A s \in Service : Parsed(confFile)[s] # Nil => s \in Removed(Parsed(confFile), NoService)
    BY DEF Removed, NoService
  <2> QED
    BY <2>1, <2>2 DEF Traced
<1>6. PollNothing => Goal
  BY DEF PollNothing, vars, Traced
<1>7. ASSUME Write PROVE Goal
  <2>1. /\ pc = "write" /\ pc' = "pick" /\ todo' = Config(msg) /\ cur = Nil
        /\ UNCHANGED <<server, running, msg, oldmsg, cur>>
    BY <1>7 DEF Write, Copied
  <2>2. Parsed(confFile) = NoService /\ Parsed(confFile)' = msg
    BY <1>7 DEF Write, Parsed, Copied
  <2>3. Fresh'
    BY <2>1
  <2>4. Traced'
    BY <2>1, <2>2 DEF Traced, NoService
  <2> QED
    BY <2>3, <2>4
<1>8. \A s \in Service, f \in BOOLEAN : CheckService(s, f) => Goal
  BY DEF CheckService, Traced, Copied
<1>9. \A f \in BOOLEAN : StartService(f) => Goal
  BY NewCidUnused DEF StartService, NextService, Traced, Copied
<1>10. ASSUME UpdateMeshifyServiceHost PROVE Goal
  <2>1. /\ pc = "patch" /\ pc' = "pick" /\ cur \in Service /\ cur \notin todo /\ server[cur] = msg[cur]
        /\ msg[cur] = Parsed(confFile)[cur] /\ msg[cur] # Nil
    BY <1>10 DEF UpdateMeshifyServiceHost, NextService, Copied
  <2>2. UNCHANGED <<running, confFile, msg, oldmsg, todo>>
    BY <1>10 DEF UpdateMeshifyServiceHost
  <2>3. (server' = server /\ id \notin Cid) \/ server' = [server EXCEPT ![cur] = id]
    BY <1>0, <1>10, <2>1 DEF UpdateMeshifyServiceHost
  <2>4. Fresh'
    BY <2>1, <2>2, <2>3 DEF Message
  <2>5. Traced'
    BY <2>1, <2>2, <2>3 DEF Traced, Message
  <2> QED
    BY <2>4, <2>5
<1>11. ServicesDone => Goal
  BY DEF ServicesDone, Traced
<1>12. ASSUME NEW s \in Service, NEW f \in BOOLEAN, StopService(s, f) PROVE Goal
  BY <1>0, <1>12 DEF StopService, Traced
<1>13. EndRound => Goal
  BY DEF EndRound, Traced, Copied
<1>14. ASSUME NEW f \in Fault, Restart(f) PROVE Goal
  BY <1>0, <1>14 DEF Restart
<1>15. UNCHANGED vars => Goal
  BY DEF vars, Traced
<1> QED
  BY <1>1, <1>2, <1>3, <1>4, <1>5, <1>6, <1>7, <1>8, <1>9, <1>10, <1>11, <1>12, <1>13, <1>14, <1>15
     DEF Next, Admin, UpdateServiceHostConfig

\* The invariant holds of a new service host, and every step keeps it.
THEOREM OrphanInductive == Spec => []OrphanInv
<1>1. Init => OrphanInv
  <2> SUFFICES ASSUME Init PROVE OrphanInv
    OBVIOUS
  <2>1. \A s \in Service, c \in Cid : ~Names(s, c)
    BY CidType DEF Init, Names, NoService, Parsed
  <2>2. Copied
    BY DEF Init, Copied
  <2>3. Fresh /\ Traced
    BY DEF Init, Fresh, Ahead, Traced
  <2> QED
    BY <2>1, <2>2, <2>3 DEF OrphanInv, OneService
<1>2. TypeOK /\ OldIsGone /\ OrphanInv /\ [Next]_vars => OrphanInv'
  BY StepOneService, StepCopied, PatientBefore, StepTraced DEF OrphanInv
<1> QED
  BY <1>1, <1>2, TypeCorrect, OldConfig, PTL DEF Spec

\* For any number of services, edits and faults: once the client has settled no
\* container is left over, unless a service was removed too early, a PATCH with
\* a container id was lost, a kill failed or the process was restarted.
THEOREM PatientNoOrphan == Spec => []NoOrphanIfPatient
<1>1. TypeOK /\ OrphanInv => NoOrphanIfPatient
  <2> SUFFICES ASSUME TypeOK, OrphanInv, Patient, Settled, NEW s \in Service, running[s] # Nil
               PROVE  running[s] = server[s]
    BY DEF NoOrphanIfPatient, NoOrphan
  <2>1. pc = "idle" /\ confFile = server /\ Traced
    BY DEF OrphanInv, Copied, Settled
  <2>2. Parsed(confFile) = server
    BY <2>1, FileType DEF Parsed, TypeOK
  <2> QED
    BY <2>1, <2>2 DEF Traced, Doomed
<1> QED
  BY <1>1, TypeCorrect, OrphanInductive, PTL

=============================================================================
