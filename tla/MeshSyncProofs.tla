--------------------------- MODULE MeshSyncProofs ---------------------------
(* Proofs about MeshSync: type correctness, and that a published key is kept. *)
EXTENDS MeshSync, TLAPS

----------------------------------------------------------------------------
(* Facts about the data *)

\* The fields of a host record have their types (model.Host).
LEMMA HostFields ==
    ASSUME NEW h \in Host
    PROVE  /\ h.id \in Nat /\ h.rev \in Nat /\ h.on \in BOOLEAN
           /\ h.pub \in Pub /\ h.priv \in BOOLEAN
           /\ h.priv => h.pub # Nil
BY DEF Host

\* What the administrator and a PATCH make of a record is a record.
LEMMA HostUpdate ==
    ASSUME NEW h \in Host
    PROVE  /\ \A k \in Key : [h EXCEPT !.pub = k, !.priv = FALSE] \in Host
           /\ \A r \in Nat, on \in BOOLEAN : [h EXCEPT !.rev = r, !.on = on] \in Host
BY DEF Host, Pub

\* Reading meshify.conf yields a configuration, whatever the file holds.
LEMMA ParsedType ==
    ASSUME NEW file \in Message \cup {Nil, Empty}
    PROVE  Parsed(file) \in Message
BY DEF Parsed, Message, NoMesh

\* The text made for the mesh in hand is something its file can hold.
LEMMA TextType ==
    ASSUME TypeOK, NEW a \in Actor, cur[a] \in Members(msg[a]), key[a] \in Key
    PROVE  Text(a) \in WgText
<1>1. Rec(a) \in Host
  BY DEF TypeOK, Members, Message, Rec
<1>2. Rec(a).on \in BOOLEAN
  BY <1>1, HostFields
<1> QED
  BY <1>1, <1>2 DEF Text, DumpWireguardConfig, Config, WgText

\* Faults and requests are counted down to zero, and others stay as they are.
LEMMA SpendLeft ==
    ASSUME TypeOK, NEW F, Spend(F)
    PROVE  /\ left' \in [Fault -> Nat]
           /\ \A f \in Fault : left'[f] <= left[f]
           /\ \A f \in Fault \ F : left'[f] = left[f]
           /\ \A f \in Fault \cap F : left'[f] < left[f]
<1>1. left \in [Fault -> Nat]
  BY DEF TypeOK
<1>2. left' = [f \in Fault |-> IF f \in F THEN left[f] - 1 ELSE left[f]] /\ \A f \in F : left[f] > 0
  BY DEF Spend
<1> QED
  BY <1>1, <1>2

\* A save that does not fail writes the store; one that does leaves a file that
\* holds what it held, or nothing.
LEMMA SaveType ==
    ASSUME TypeOK, Shape, NEW store \in [Pub -> {"none", "blank", "priv"}], store[Nil] # "priv",
           NEW fails \in BOOLEAN, KeySave(store, fails)
    PROVE  /\ keysFile' \in [Pub -> {"none", "blank", "priv"}] /\ keysFile'[Nil] # "priv"
           /\ unsaved' \in BOOLEAN /\ (unsaved' \/ keysFile' = store)
           /\ \A k \in Pub : keysFile'[k] \in {"none", keysFile[k], store[k]}
BY DEF KeySave, TypeOK, Shape, Pub

\* The commands leave interfaces that hold what a file can hold.
LEMMA LinkType ==
    ASSUME TypeOK, NEW m \in Mesh, NEW fails \in BOOLEAN,
           WgQuickDown(m, fails) \/ StartWireguard(m, fails)
    PROVE  wgUp' \in [Mesh -> WgText] /\ crossed' \subseteq Mesh
BY DEF WgQuickDown, StartWireguard, TypeOK, WgText

\* The client starts well typed.
THEOREM InitTyped == Init => TypeOK /\ Shape
<1> SUFFICES ASSUME Init PROVE TypeOK /\ Shape
  OBVIOUS
<1> DEFINE rec(m) == [id |-> 0, rev |-> 0, on |-> TRUE, pub |-> Joined[m], priv |-> FALSE]
           run(m) == [host |-> rec(m), key |-> Joined[m]]
<1>1. \A m \in DOMAIN Joined : m \in Mesh /\ Joined[m] \in Key
  BY JoinedType
<1>2. \A m \in DOMAIN Joined : rec(m) \in Host
  BY <1>1 DEF Host, Pub
<1>3. \A m \in DOMAIN Joined : run(m) \in Config
  BY <1>1, <1>2 DEF Config
<1>4. server \in Message
  BY <1>1, <1>2 DEF Init, Message
<1>5. wgFile \in [Mesh -> WgText]
  BY <1>1, <1>3 DEF Init, WgText
<1>6. NoMesh \in Message
  BY DEF NoMesh, Message
<1>7. KeyStore \in [Pub -> {"none", "blank", "priv"}] /\ KeyStore[Nil] # "priv"
  BY <1>1, NilIsNoKey DEF Init, Pub
<1>8. TypeOK
  BY <1>4, <1>5, <1>6, <1>7, LimitType DEF Init, TypeOK, Label, Actor, Pub
<1>9. Shape
  BY <1>7 DEF Init, Shape, Actor
<1> QED
  BY <1>8, <1>9

----------------------------------------------------------------------------
(* Type correctness *)

\* What a PATCH with record h, public key k and private key flag p can make of
\* mesh m's record at the server: its identity stays, its keys are the PATCH's.
Patched(m, h, k, p) ==
    \A n \in Mesh :
        \/ server'[n] = server[n]
        \/ /\ n = m /\ server[n] # Nil /\ server'[n] # Nil /\ Current(m, h)
           /\ server'[n].id = server[n].id /\ server'[n].pub = k /\ server'[n].priv = p

\* UpdateMeshifyHost publishes the new key, in the present record only.
LEMMA HostPatch ==
    ASSUME TypeOK, Shape, NEW a \in Actor, UpdateMeshifyHost(a)
    PROVE  /\ server' \in Message /\ left' \in [Fault -> Nat]
           /\ Patched(cur[a], Rec(a), key[a], FALSE)
<1>1. /\ Rec(a) \in Host /\ cur[a] \in Mesh /\ key[a] \in Key /\ server \in Message
      /\ server[cur[a]] \in Host \cup {Nil}
  BY DEF UpdateMeshifyHost, Rec, TypeOK, Shape, Members, Message
<1>2. left' \in [Fault -> Nat]
  BY SpendLeft DEF UpdateMeshifyHost, TypeOK
<1>3. CASE server' = server
  BY <1>1, <1>2, <1>3 DEF Patched
<1>4. ASSUME Current(cur[a], Rec(a)), NEW h \in {server[cur[a]], Rec(a)},
             server' = [server EXCEPT ![cur[a]] = [h EXCEPT !.pub = key[a], !.priv = FALSE]]
      PROVE  server' \in Message /\ Patched(cur[a], Rec(a), key[a], FALSE)
  <2>1. h \in Host /\ h.id = server[cur[a]].id
    BY <1>1, <1>4 DEF Current
  <2> DEFINE new == [h EXCEPT !.pub = key[a], !.priv = FALSE]
  <2>2. new \in Host /\ new.id = h.id /\ new.pub = key[a] /\ new.priv = FALSE
    BY <1>1, <2>1, HostUpdate DEF Host
  <2>3. new # Nil
    BY <2>2, NilIsNoData
  <2> QED
    BY <1>1, <1>4, <2>1, <2>2, <2>3 DEF Message, Patched, Current
<1> QED
  BY <1>2, <1>3, <1>4 DEF UpdateMeshifyHost

\* ConfigureUPnP sends a copy back, to the record it is a copy of.
LEMMA CopyPatch ==
    ASSUME TypeOK, NEW c \in copies, ConfigureUPnP(c)
    PROVE  /\ c.mesh \in Mesh /\ c.host \in Host
           /\ server' \in Message /\ left' \in [Fault -> Nat]
           /\ Patched(c.mesh, c.host, c.host.pub, c.host.priv)
<1>1. c.mesh \in Mesh /\ c.host \in Host /\ server \in Message /\ server[c.mesh] \in Host \cup {Nil}
  BY DEF TypeOK, Message
<1>2. left' \in [Fault -> Nat]
  BY SpendLeft DEF ConfigureUPnP, TypeOK
<1>3. CASE server' = server
  BY <1>1, <1>2, <1>3 DEF Patched
<1>4. ASSUME Current(c.mesh, c.host), NEW h \in {server[c.mesh], c.host},
             server' = [server EXCEPT ![c.mesh] = [h EXCEPT !.pub = c.host.pub, !.priv = c.host.priv]]
      PROVE  server' \in Message /\ Patched(c.mesh, c.host, c.host.pub, c.host.priv)
  <2>1. h \in Host /\ h.id = server[c.mesh].id
    BY <1>1, <1>4 DEF Current
  <2> DEFINE new == [h EXCEPT !.pub = c.host.pub, !.priv = c.host.priv]
  <2>2. new \in Host /\ new.id = h.id /\ new.pub = c.host.pub /\ new.priv = c.host.priv
    BY <1>1, <2>1 DEF Host
  <2>3. new # Nil
    BY <2>2, NilIsNoData
  <2> QED
    BY <1>1, <1>4, <2>1, <2>2, <2>3 DEF Message, Patched, Current
<1> QED
  BY <1>1, <1>2, <1>3, <1>4 DEF ConfigureUPnP

\* Every step keeps the types and the shape of the goroutines' variables.
LEMMA StepTyped == TypeOK /\ Shape /\ [Next]_vars => TypeOK' /\ Shape'
<1> SUFFICES ASSUME TypeOK, Shape, [Next]_vars PROVE TypeOK' /\ Shape'
  OBVIOUS
<1> USE NilIsNoKey, NilIsNoData, EmptyIsNoData DEF serverVars, diskVars, workVars, asideVars, saveVars, copyVars, stopVars, Goto
<1> DEFINE Goal == TypeOK' /\ Shape'
<1>0. NoMesh \in Message /\ Members(NoMesh) = {} /\ server \in Message /\ Parsed(confFile) \in Message
  BY ParsedType DEF NoMesh, Message, Members, TypeOK
<1>1. \A m \in Mesh : AdminAdd(m) => Goal
  BY <1>0 DEF AdminAdd, TypeOK, Shape, Message, Host, Pub, Generated, Unused
<1>2. ASSUME NEW m \in Mesh, AdminEdit(m) PROVE Goal
  <2>1. PICK on \in BOOLEAN : server' = [server EXCEPT ![m] = [@ EXCEPT !.rev = edits', !.on = on]]
    BY <1>2 DEF AdminEdit
  <2>2. server[m] \in Host /\ edits' \in Nat
    BY <1>2 DEF AdminEdit, TypeOK, Message
  <2>3. server' \in Message
    BY <2>1, <2>2, <1>0, HostUpdate DEF Message
  <2> QED
    BY <1>2, <2>2, <2>3 DEF AdminEdit, TypeOK, Shape
<1>3. \A m \in Mesh : AdminRemove(m) => Goal
  BY <1>0 DEF AdminRemove, TypeOK, Shape, Message
<1>4. ASSUME NEW f \in BOOLEAN, keyHandler(f) PROVE Goal
  <2>1. PICK k \in Key : /\ KeyStore' = [KeyStore EXCEPT ![k] = "priv"]
                         /\ KeySave(KeyStore', f) /\ handed' = handed \cup {k}
    BY <1>4 DEF keyHandler
  <2>2. KeyStore' \in [Pub -> {"none", "blank", "priv"}] /\ KeyStore'[Nil] # "priv"
    BY <2>1 DEF TypeOK, Shape, Pub
  <2>3. keysFile' \in [Pub -> {"none", "blank", "priv"}] /\ keysFile'[Nil] # "priv" /\ unsaved' \in BOOLEAN
    BY <2>1, <2>2, SaveType
  <2>4. left' \in [Fault -> Nat]
    BY <1>4, SpendLeft DEF keyHandler
  <2> QED
    BY <1>4, <2>1, <2>2, <2>3, <2>4 DEF keyHandler, TypeOK, Shape
<1>5. ASSUME NEW m \in Mesh, NEW f \in BOOLEAN, stopServiceHandler(m, f) PROVE Goal
  <2>1. left' \in [Fault -> Nat] /\ wgUp' \in [Mesh -> WgText] /\ crossed' \subseteq Mesh
    BY <1>5, SpendLeft, LinkType DEF stopServiceHandler
  <2>2. left["stop"] \in Nat
    BY DEF TypeOK, Fault
  <2> QED
    BY <1>5, <2>1, <2>2 DEF stopServiceHandler, TypeOK, Shape
<1>29. ASSUME NEW s \in stops, stopServiceRemoves(s) PROVE Goal
  BY <1>29 DEF stopServiceRemoves, RemoveFile, TypeOK, Shape, WgText
<1>6. PollFetch => Goal
  BY <1>0 DEF PollFetch, MayStart, TypeOK, Shape, Actor, Label, Members
<1>7. PollNotModified => Goal
  BY <1>0 DEF PollNotModified, TypeOK, Shape
<1>8. PollError => Goal
  BY <1>0, SpendLeft DEF PollError, TypeOK, Shape
<1>9. PollGarbled => Goal
  BY <1>0, SpendLeft DEF PollGarbled, TypeOK, Shape
<1>10. PollDenied => Goal
  BY <1>0, SpendLeft DEF PollDenied, TypeOK, Shape
<1>11. WriteConf => Goal
  BY <1>0 DEF WriteConf, TypeOK, Shape, Actor, Label, Members
<1>12. ASSUME NEW m \in Mesh, NEW f \in BOOLEAN, Prune(m, f) PROVE Goal
  <2>1. left' \in [Fault -> Nat] /\ wgUp' \in [Mesh -> WgText] /\ crossed' \subseteq Mesh
    BY <1>12, SpendLeft, LinkType DEF Prune
  <2> QED
    BY <1>12, <2>1 DEF Prune, TypeOK, Shape, Actor, Label, Members
<1>30. Unlink => Goal
  BY <1>0 DEF Unlink, RemoveFile, TypeOK, Shape, Actor, Label, Members, WgText
<1>13. ASSUME NEW f \in BOOLEAN, Forget(f) PROVE Goal
  <2>1. old[cur["poller"]].pub \in Pub
    BY <1>13, HostFields DEF Forget, TypeOK, Shape, Members, Message
  <2>2. KeyStore' \in [Pub -> {"none", "blank", "priv"}] /\ KeyStore'[Nil] # "priv"
    BY <1>13, <2>1 DEF Forget, TypeOK, Shape, Pub
  <2>3. keysFile' \in [Pub -> {"none", "blank", "priv"}] /\ keysFile'[Nil] # "priv" /\ unsaved' \in BOOLEAN
    BY <1>13, <2>2, SaveType DEF Forget
  <2>4. left' \in [Fault -> Nat]
    BY <1>13, SpendLeft DEF Forget
  <2> QED
    BY <1>13, <2>2, <2>3, <2>4 DEF Forget, TypeOK, Shape, Actor, Label, Members
<1>14. PruneDone => Goal
  BY <1>0 DEF PruneDone, TypeOK, Shape, Actor, Label, Members
<1>15. RefreshOpen => Goal
  BY <1>0 DEF RefreshOpen, MayStart, TypeOK, Shape, Actor, Label, Members
<1>16. ASSUME NEW a \in Actor, NEW m \in Mesh, Begin(a, m) PROVE Goal
  <2>0. KeyLookup(a, m)
    BY <1>16 DEF Begin
  <2>1. msg[a][m] \in Host /\ m \in Members(msg[a])
    <3>1. pc[a] = "pick" /\ m \in todo[a]
      BY <2>0 DEF KeyLookup
    <3>2. m \in Members(msg[a])
      BY <3>1 DEF Shape
    <3> QED
      BY <3>2 DEF TypeOK, Members, Message
  <2>2. /\ msg[a][m].pub \in Pub
        /\ PrivateKey(msg[a][m]) \in {"blank", "priv"}
        /\ PrivateKey(msg[a][m]) = "priv" => msg[a][m].pub # Nil
    <3>1. msg[a][m].pub \in Pub /\ (msg[a][m].priv => msg[a][m].pub # Nil)
      BY <2>1, HostFields
    <3>2. CASE msg[a][m].priv
      BY <3>1, <3>2 DEF PrivateKey
    <3>3. CASE ~msg[a][m].priv
      BY <3>1, <3>3 DEF PrivateKey
    <3> QED
      BY <3>2, <3>3
  <2>3. TypeOK'
    <3>1. KeyStore' \in [Pub -> {"none", "blank", "priv"}] /\ key' \in [Actor -> Pub]
      <4> DEFINE p == msg[a][m].pub
      <4>1. CASE KeyStore[p] = "none"
        BY <2>0, <2>2, <4>1 DEF KeyLookup, TypeOK
      <4>2. CASE KeyStore[p] # "none"
        BY <2>0, <2>2, <4>2 DEF KeyLookup, TypeOK
      <4> QED
        BY <4>1, <4>2
    <3>2. /\ pc' \in [Actor -> Label] /\ todo' \in [Actor -> SUBSET Mesh]
          /\ cur' \in [Actor -> Mesh \cup {Nil}]
      BY <2>0 DEF KeyLookup, TypeOK, Label, Actor
    <3>3. copies' \subseteq [no: Nat, mesh: Mesh, host: Host] /\ spawned' \in Nat
      BY <1>16, <2>1 DEF Begin, TypeOK
    <3> QED
      BY <2>0, <3>1, <3>2, <3>3 DEF KeyLookup, TypeOK
  <2>4. Shape'
    BY <2>0, <2>1, <2>2 DEF KeyLookup, TypeOK, Shape, Actor, Pub, Members
  <2> QED
    BY <2>3, <2>4
<1>17. ASSUME NEW a \in Actor, NEW f \in BOOLEAN, Store(a, f) PROVE Goal
  <2>1. Rec(a) \in Host /\ Rec(a).pub \in Pub
    BY <1>17, HostFields DEF Store, Rec, TypeOK, Shape, Members, Message
  <2>2. keysFile' \in [Pub -> {"none", "blank", "priv"}] /\ keysFile'[Nil] # "priv" /\ unsaved' \in BOOLEAN
    BY <1>17, SaveType DEF Store, TypeOK, Shape
  <2>3. left' \in [Fault -> Nat]
    BY <1>17, SpendLeft DEF Store
  <2>4. TypeOK'
    BY <1>17, <2>1, <2>2, <2>3 DEF Store, TypeOK, Actor, Label
  <2>5. Shape'
    BY <1>17, <2>1, <2>2 DEF Store, TypeOK, Shape, Actor, Pub, Members
  <2> QED
    BY <2>4, <2>5
<1>18. \A a \in Actor : Regenerate(a) => Goal
  BY <1>0 DEF Regenerate, Rec, TypeOK, Shape, Actor, Label, Members, Pub
<1>19. ASSUME NEW a \in Actor, NEW f \in BOOLEAN, Save(a, f) PROVE Goal
  <2>1. keysFile' \in [Pub -> {"none", "blank", "priv"}] /\ keysFile'[Nil] # "priv" /\ unsaved' \in BOOLEAN
    BY <1>19, SaveType DEF Save, TypeOK, Shape
  <2>2. left' \in [Fault -> Nat]
    BY <1>19, SpendLeft DEF Save
  <2> QED
    BY <1>19, <2>1, <2>2 DEF Save, TypeOK, Shape, Actor, Label, Members
<1>20. ASSUME NEW a \in Actor, UpdateMeshifyHost(a) PROVE Goal
  <2>1. server' \in Message /\ left' \in [Fault -> Nat]
    BY <1>20, HostPatch
  <2>2. TypeOK'
    BY <1>20, <2>1 DEF UpdateMeshifyHost, TypeOK, Label
  <2>3. Shape'
    BY <1>20 DEF UpdateMeshifyHost, TypeOK, Shape, Actor, Members
  <2> QED
    BY <2>2, <2>3
<1>21. Compare => Goal
  BY <1>0 DEF Compare, NextMesh, TypeOK, Shape, Actor, Label, Members, Pub
<1>22. ASSUME NEW f \in BOOLEAN, Stop(f) PROVE Goal
  <2>1. cur["poller"] \in Mesh
    BY <1>22 DEF Stop, Shape, Members, Actor
  <2>2. left' \in [Fault -> Nat] /\ wgUp' \in [Mesh -> WgText] /\ crossed' \subseteq Mesh
    BY <1>22, <2>1, SpendLeft, LinkType DEF Stop
  <2> QED
    BY <1>22, <2>2 DEF Stop, TypeOK, Shape, Actor, Label, Members
<1>31. Clear => Goal
  BY <1>0 DEF Clear, RemoveFile, TypeOK, Shape, Actor, Label, Members, WgText
<1>23. ASSUME NEW a \in Actor, Put(a) PROVE Goal
  <2>1. Text(a) \in WgText
    BY <1>23, TextType DEF Put, Shape
  <2> QED
    BY <1>23, <2>1 DEF Put, TypeOK, Shape, Actor, Label, Members
<1>24. ASSUME NEW a \in Actor, NEW f \in BOOLEAN, Up(a, f) PROVE Goal
  <2>1. cur[a] \in Mesh
    BY <1>24 DEF Up, Shape, Members
  <2>2. left' \in [Fault -> Nat] /\ wgUp' \in [Mesh -> WgText] /\ crossed' \subseteq Mesh
    BY <1>24, <2>1, SpendLeft, LinkType DEF Up
  <2> QED
    BY <1>24, <2>2 DEF Up, NextMesh, TypeOK, Shape, Actor, Label, Members, Pub
<1>32. \A a \in Actor : Clean(a) => Goal
  BY <1>0 DEF Clean, RemoveFile, NextMesh, TypeOK, Shape, Actor, Label, Members, WgText, Pub
<1>25. \A a \in Actor : EndRound(a) => Goal
  BY <1>0 DEF EndRound, TypeOK, Shape, Actor, Label, Members
<1>26. ASSUME NEW f \in Fault, NEW c \in BOOLEAN, Restart(f, c) PROVE Goal
  <2>1. left' \in [Fault -> Nat]
    BY <1>26, SpendLeft DEF Restart
  <2>2. TypeOK'
    BY <1>0, <1>26, <2>1 DEF Restart, TypeOK, Label, Pub, WgText
  <2>3. Shape'
    BY <1>0, <1>26 DEF Restart, TypeOK, Shape, Actor, Pub
  <2> QED
    BY <2>2, <2>3
<1>27. UNCHANGED vars => Goal
  BY <1>0 DEF vars, TypeOK, Shape, Rec, Members
<1>28. ASSUME NEW c \in copies, ConfigureUPnP(c) PROVE Goal
  BY <1>28, CopyPatch DEF ConfigureUPnP, TypeOK, Shape
<1> QED
  BY <1>28, <1>29, <1>30, <1>31, <1>32, <1>1, <1>2, <1>3, <1>4, <1>5, <1>6, <1>7, <1>8, <1>9, <1>10, <1>11,
     <1>12, <1>13, <1>14, <1>15, <1>16, <1>17, <1>18, <1>19, <1>20, <1>21, <1>22, <1>23, <1>24, <1>25, <1>26,
     <1>27 DEF Next, Admin, HTTP, PollFails, UpdateMeshifyConfig, Apply, Configure

\* Every reachable state is well typed.
THEOREM TypeCorrect == Spec => [](TypeOK /\ Shape)
BY InitTyped, StepTyped, PTL DEF Spec

----------------------------------------------------------------------------
(* Published keys are kept: what a step must not do to each part of IInv *)

\* No mesh's record, no hand and no goroutine gets a key it did not have.
NoNewOwner ==
    /\ \A m \in Mesh, k \in Key : Carries(m, k)' => Carries(m, k)
    /\ handed' \subseteq handed
    /\ \A a \in Actor, k \in Key : InFlight(a, k)' => InFlight(a, k)

\* No key becomes precious except one that no record carries.
NoNewPrecious ==
    \A k \in Key : Precious(k)' => Precious(k) \/ \A m \in Mesh : ~Carries(m, k)

\* What is in the goroutines' hands to be deleted was so before.
NoNewVictim ==
    /\ \A a \in Actor : pc'[a] \in {"store", "regen"} =>
          pc[a] \in {"store", "regen"} /\ cur'[a] = cur[a] /\ msg'[a] = msg[a]
    /\ pc'["poller"] \in {"write", "prune", "unlink", "forget"} =>
          pc["poller"] \in {"write", "prune", "unlink", "forget"} /\ old' = old /\ msg'["poller"] = msg["poller"]

\* No key changes owner in a step that makes nobody carry or publish a new one.
LEMMA ApartKept == Apart /\ NoNewOwner => Apart'
BY DEF Apart, NoNewOwner

\* What a goroutine is about to delete stays dispensable in a step that makes
\* no key precious and does not choose anew what to delete.
LEMMA DeletableKept ==
    ASSUME TypeOK, Shape, Deletable, NoNewPrecious, NoNewVictim
    PROVE  Deletable'
<1>1. ASSUME NEW a \in Actor, pc'[a] \in {"store", "regen"}, (Rec(a).pub)' \in Key, Precious(Rec(a).pub)'
      PROVE  FALSE
  <2>1. pc[a] \in {"store", "regen"} /\ Rec(a)' = Rec(a)
    BY <1>1 DEF NoNewVictim, Rec
  <2>2. ~Precious(Rec(a).pub)
    BY <1>1, <2>1 DEF Deletable
  <2>3. Carries(cur[a], Rec(a).pub) /\ cur[a] \in Mesh
    BY <2>1 DEF Shape, Members, Carries, Has, Rec
  <2> QED
    BY <1>1, <2>1, <2>2, <2>3 DEF NoNewPrecious
<1>2. ASSUME pc'["poller"] \in {"write", "prune", "unlink", "forget"},
             NEW m \in Mesh, (m \in Members(old) \ Members(msg["poller"]))',
             (old[m].pub)' \in Key, Precious(old[m].pub)'
      PROVE  FALSE
  <2>1. /\ pc["poller"] \in {"write", "prune", "unlink", "forget"} /\ old' = old
        /\ m \in Members(old) \ Members(msg["poller"])
    BY <1>2 DEF NoNewVictim, Members
  <2>2. ~Precious(old[m].pub) /\ Carries(m, old[m].pub) /\ m \in Mesh
    BY <1>2, <2>1 DEF Deletable, Carries, Has, Members
  <2> QED
    BY <1>2, <2>1, <2>2 DEF NoNewPrecious
<1> QED
  BY <1>1, <1>2 DEF Deletable, Members

\* A step that leaves the key store alone, and writes the file only by KeySave.
LEMMA KeptKept ==
    ASSUME Kept, KeyStore' = KeyStore,
           unsaved' \/ keysFile' = KeyStore \/ UNCHANGED <<keysFile, unsaved>>,
           \A k \in Key : Precious(k)' => Precious(k),
           \A k \in Key : Shared(k)' => Shared(k) \/ ((unsaved' \/ keysFile' = KeyStore) /\ Precious(k))
    PROVE  Kept'
<1>1. \A k \in Key : Shared(k) => Precious(k)
  BY DEF Shared, Precious, InFlight
<1> QED
  BY <1>1 DEF Kept

\* An unused key is nobody's.
LEMMA UnusedKey ==
    ASSUME NEW k, Generated(k)
    PROVE  /\ k \in Key /\ k \notin handed /\ \A m \in Mesh : ~Carries(m, k)
           /\ \A a \in Actor : key[a] # k /\ ~InFlight(a, k)
           /\ ~Precious(k)
<1>1. k \in Unused
  BY DEF Generated
<1>2. k \in Key /\ k \notin handed /\ \A m \in Mesh : ~Carries(m, k)
  BY <1>1 DEF Unused
<1>3. \A a \in Actor : key[a] # k
  BY <1>1 DEF Unused
<1> QED
  BY <1>2, <1>3 DEF Precious, Publishable, Vouches, Carries, Has, InFlight

----------------------------------------------------------------------------
(* Records and edits *)

\* Records only move: from the server and meshify.conf to the goroutines, from
\* the poller to meshify.conf, from the goroutines to copies.
NoNewRecord ==
    /\ \A m \in Mesh : server'[m] = Nil \/ (server[m] # Nil /\ server'[m].id = server[m].id)
    /\ \A m \in Mesh : Parsed(confFile)'[m] \in {Nil, Parsed(confFile)[m], msg["poller"][m]}
    /\ \A a \in Actor, m \in Mesh : msg'[a][m] \in {Nil, msg[a][m], server[m], Parsed(confFile)[m]}
    /\ \A c \in copies' : c \in copies \/ \E a \in Actor : c.host = msg[a][c.mesh]

\* The identities of all records are numbers.
LEMMA Identities ==
    ASSUME TypeOK
    PROVE  /\ \A m \in Mesh : server[m] # Nil => server[m].id \in Nat
           /\ \A m \in Mesh : Parsed(confFile)[m] # Nil => Parsed(confFile)[m].id \in Nat
           /\ \A a \in Actor, m \in Mesh : msg[a][m] # Nil => msg[a][m].id \in Nat
           /\ \A c \in copies : c.mesh \in Mesh /\ c.host.id \in Nat
<1>1. \A h \in Host : h.id \in Nat
  BY DEF Host
<1>2. server \in Message /\ Parsed(confFile) \in Message /\ \A a \in Actor : msg[a] \in Message
  BY ParsedType DEF TypeOK
<1> QED
  BY <1>1, <1>2 DEF Message, TypeOK

\* A step in which records only move leaves no record newer than the last edit.
LEMMA AgedKept ==
    ASSUME TypeOK, Aged, NoNewRecord, edits' \in {edits, edits + 1}, copies' \subseteq [no: Nat, mesh: Mesh, host: Host]
    PROVE  Aged'
<1>1. edits \in Nat /\ \A i \in Nat : i <= edits => i <= edits'
  BY DEF TypeOK
<1>2. "poller" \in Actor
  BY DEF Actor
<1>3. \A m \in Mesh : server'[m] # Nil => server'[m].id <= edits'
  BY <1>1, Identities DEF Aged, NoNewRecord
<1>4. \A m \in Mesh : Parsed(confFile)'[m] # Nil => Parsed(confFile)'[m].id <= edits'
  BY <1>1, <1>2, Identities DEF Aged, NoNewRecord
<1>5. \A a \in Actor, m \in Mesh : msg'[a][m] # Nil => msg'[a][m].id <= edits'
  BY <1>1, Identities DEF Aged, NoNewRecord
<1>6. \A c \in copies' : c.host # Nil => c.host.id <= edits'
  BY <1>1, Identities DEF Aged, NoNewRecord
<1> QED
  BY <1>3, <1>4, <1>5, <1>6 DEF Aged

\* Every step leaves records with identities from the past: a new one has the
\* number of its edit, and all others are copies.
LEMMA StepAged == TypeOK /\ Shape /\ Aged /\ [Next]_vars => Aged'
<1> SUFFICES ASSUME TypeOK, Shape, Aged, [Next]_vars PROVE Aged'
  OBVIOUS
<1> USE DEF serverVars, diskVars, workVars, asideVars, saveVars, copyVars, stopVars, TypeOK, Actor
<1>0. ASSUME NoNewRecord, edits' \in {edits, edits + 1} PROVE Aged'
  BY <1>0, AgedKept, StepTyped
<1>1. ASSUME NEW m \in Mesh, AdminAdd(m) PROVE Aged'
  <2>1. /\ edits' = edits + 1 /\ server'[m].id = edits'
        /\ \A n \in Mesh : n # m => server'[n] = server[n]
    BY <1>1 DEF AdminAdd, Message
  <2>2. UNCHANGED <<msg, confFile, copies>>
    BY <1>1 DEF AdminAdd
  <2>3. \A i \in Nat : i <= edits => i <= edits'
    BY <2>1
  <2> QED
    BY <2>1, <2>2, <2>3, Identities DEF Aged
<1>2. ASSUME NEW m \in Mesh, AdminEdit(m) PROVE Aged'
  <2>1. server[m] \in Host /\ server[m] # Nil
    BY <1>2 DEF AdminEdit, Message
  <2>2. PICK on \in BOOLEAN : server' = [server EXCEPT ![m] = [@ EXCEPT !.rev = edits', !.on = on]]
    BY <1>2 DEF AdminEdit
  <2>3. [server[m] EXCEPT !.rev = edits', !.on = on].id = server[m].id
    BY <2>1 DEF Host
  <2> QED
    BY <1>0, <1>2, <2>1, <2>2, <2>3 DEF AdminEdit, NoNewRecord, Message
<1>3. \A m \in Mesh : AdminRemove(m) => Aged'
  BY <1>0 DEF AdminRemove, NoNewRecord, Message
<1>4. \A f \in BOOLEAN : keyHandler(f) => Aged'
  BY <1>0 DEF keyHandler, NoNewRecord
<1>5. \A m \in Mesh, f \in BOOLEAN : stopServiceHandler(m, f) => Aged'
  BY <1>0 DEF stopServiceHandler, NoNewRecord
<1>29. \A s \in stops : stopServiceRemoves(s) => Aged'
  BY <1>0 DEF stopServiceRemoves, NoNewRecord
<1>6. PollFetch => Aged'
  BY <1>0 DEF PollFetch, NoNewRecord, Parsed, NoMesh
<1>7. PollNotModified => Aged'
  BY <1>0 DEF PollNotModified, NoNewRecord, Parsed, NoMesh
<1>8. PollError => Aged'
  BY <1>0 DEF PollError, NoNewRecord
<1>9. PollGarbled => Aged'
  BY <1>0 DEF PollGarbled, NoNewRecord, Parsed, NoMesh
<1>10. PollDenied => Aged'
  BY <1>0 DEF PollDenied, NoNewRecord, Parsed, NoMesh
<1>11. WriteConf => Aged'
  BY <1>0 DEF WriteConf, NoNewRecord, Parsed, NoMesh
<1>12. \A m \in Mesh, f \in BOOLEAN : Prune(m, f) => Aged'
  BY <1>0 DEF Prune, NoNewRecord
<1>30. Unlink => Aged'
  BY <1>0 DEF Unlink, NoNewRecord
<1>13. \A f \in BOOLEAN : Forget(f) => Aged'
  BY <1>0 DEF Forget, NoNewRecord
<1>14. PruneDone => Aged'
  BY <1>0 DEF PruneDone, NoNewRecord
<1>15. RefreshOpen => Aged'
  BY <1>0 DEF RefreshOpen, NoNewRecord
<1>16. \A a \in Actor, m \in Mesh : Begin(a, m) => Aged'
  BY <1>0 DEF Begin, KeyLookup, NoNewRecord
<1>17. \A a \in Actor, f \in BOOLEAN : Store(a, f) => Aged'
  BY <1>0 DEF Store, NoNewRecord
<1>18. \A a \in Actor : Regenerate(a) => Aged'
  BY <1>0 DEF Regenerate, NoNewRecord
<1>19. \A a \in Actor, f \in BOOLEAN : Save(a, f) => Aged'
  BY <1>0 DEF Save, NoNewRecord
<1>20. \A a \in Actor : UpdateMeshifyHost(a) => Aged'
  BY <1>0, HostPatch DEF UpdateMeshifyHost, Patched, NoNewRecord
<1>21. \A c \in copies : ConfigureUPnP(c) => Aged'
  BY <1>0, CopyPatch DEF ConfigureUPnP, Patched, NoNewRecord
<1>22. Compare => Aged'
  BY <1>0 DEF Compare, NoNewRecord
<1>23. \A f \in BOOLEAN : Stop(f) => Aged'
  BY <1>0 DEF Stop, NoNewRecord
<1>31. Clear => Aged'
  BY <1>0 DEF Clear, NoNewRecord
<1>32. \A a \in Actor : Clean(a) => Aged'
  BY <1>0 DEF Clean, NoNewRecord
<1>24. \A a \in Actor : Put(a) => Aged'
  BY <1>0 DEF Put, NoNewRecord
<1>25. \A a \in Actor, f \in BOOLEAN : Up(a, f) => Aged'
  BY <1>0 DEF Up, NoNewRecord
<1>26. \A a \in Actor : EndRound(a) => Aged'
  BY <1>0 DEF EndRound, NoNewRecord, NoMesh
<1>27. \A f \in Fault, c \in BOOLEAN : Restart(f, c) => Aged'
  BY <1>0 DEF Restart, NoNewRecord, NoMesh
<1>28. UNCHANGED vars => Aged'
  BY <1>0 DEF vars, NoNewRecord
<1> QED
  BY <1>1, <1>2, <1>3, <1>4, <1>5, <1>6, <1>7, <1>8, <1>9, <1>10, <1>11, <1>12, <1>13, <1>14, <1>15,
     <1>16, <1>17, <1>18, <1>19, <1>20, <1>21, <1>22, <1>23, <1>24, <1>25, <1>26, <1>27, <1>28, <1>29,
     <1>30, <1>31, <1>32
     DEF Next, Admin, HTTP, PollFails, UpdateMeshifyConfig, Apply, Configure

----------------------------------------------------------------------------
(* Every key has one owner *)

\* Every step leaves each key with one owner: new keys are drawn unused, and
\* records move only between copies of the same mesh.
LEMMA StepApart == TypeOK /\ Shape /\ Apart /\ [Next]_vars => Apart'
<1> SUFFICES ASSUME TypeOK, Shape, Apart, [Next]_vars PROVE Apart'
  OBVIOUS
<1> USE NilIsNoKey, NilIsNoData DEF serverVars, diskVars, workVars, asideVars, saveVars, copyVars, stopVars, Goto
<1>0. ASSUME NoNewOwner PROVE Apart'
  BY <1>0, ApartKept
<1>1. \A m \in Mesh : AdminEdit(m) => Apart'
  BY <1>0 DEF AdminEdit, TypeOK, Message, NoNewOwner, Carries, Has, InFlight
<1>2. \A m \in Mesh : AdminRemove(m) => Apart'
  BY <1>0 DEF AdminRemove, TypeOK, Message, NoNewOwner, Carries, Has, InFlight
<1>3. \A m \in Mesh, f \in BOOLEAN : stopServiceHandler(m, f) => Apart'
  BY <1>0 DEF stopServiceHandler, NoNewOwner, Carries, Has, InFlight
<1>29. \A s \in stops : stopServiceRemoves(s) => Apart'
  BY <1>0 DEF stopServiceRemoves, NoNewOwner, Carries, Has, InFlight
<1>4. PollFetch => Apart'
  BY <1>0 DEF PollFetch, MayStart, TypeOK, Parsed, NoMesh, Actor, NoNewOwner, Carries, Has, InFlight
<1>5. PollNotModified => Apart'
  BY <1>0 DEF PollNotModified, Parsed, NoMesh, NoNewOwner, Carries, Has, InFlight
<1>6. PollError => Apart'
  BY <1>0 DEF PollError, NoNewOwner, Carries, Has, InFlight
<1>7. PollGarbled => Apart'
  BY <1>0 DEF PollGarbled, Parsed, NoMesh, NoNewOwner, Carries, Has, InFlight
<1>8. PollDenied => Apart'
  BY <1>0 DEF PollDenied, Parsed, NoMesh, NoNewOwner, Carries, Has, InFlight
<1>9. WriteConf => Apart'
  BY <1>0 DEF WriteConf, TypeOK, Parsed, NoMesh, Actor, NoNewOwner, Carries, Has, InFlight
<1>10. \A m \in Mesh, f \in BOOLEAN : Prune(m, f) => Apart'
  BY <1>0 DEF Prune, TypeOK, Actor, NoNewOwner, Carries, Has, InFlight
<1>30. Unlink => Apart'
  BY <1>0 DEF Unlink, TypeOK, Actor, NoNewOwner, Carries, Has, InFlight
<1>11. \A f \in BOOLEAN : Forget(f) => Apart'
  BY <1>0 DEF Forget, TypeOK, Actor, NoNewOwner, Carries, Has, InFlight
<1>12. PruneDone => Apart'
  BY <1>0 DEF PruneDone, TypeOK, NoMesh, Actor, NoNewOwner, Carries, Has, InFlight
<1>13. RefreshOpen => Apart'
  BY <1>0 DEF RefreshOpen, TypeOK, NoMesh, Parsed, Actor, NoNewOwner, Carries, Has, InFlight
<1>14. \A a \in Actor, m \in Mesh : Begin(a, m) => Apart'
  BY <1>0 DEF Begin, KeyLookup, TypeOK, Actor, NoNewOwner, Carries, Has, InFlight
<1>15. \A a \in Actor, f \in BOOLEAN : Store(a, f) => Apart'
  BY <1>0 DEF Store, TypeOK, Actor, NoNewOwner, Carries, Has, InFlight
<1>16. \A a \in Actor, f \in BOOLEAN : Save(a, f) => Apart'
  BY <1>0 DEF Save, TypeOK, Actor, NoNewOwner, Carries, Has, InFlight
<1>17. Compare => Apart'
  BY <1>0 DEF Compare, NextMesh, TypeOK, Actor, NoNewOwner, Carries, Has, InFlight
<1>18. \A f \in BOOLEAN : Stop(f) => Apart'
  BY <1>0 DEF Stop, TypeOK, Actor, NoNewOwner, Carries, Has, InFlight
<1>31. Clear => Apart'
  BY <1>0 DEF Clear, TypeOK, Actor, NoNewOwner, Carries, Has, InFlight
<1>32. \A a \in Actor : Clean(a) => Apart'
  BY <1>0 DEF Clean, NextMesh, TypeOK, Actor, NoNewOwner, Carries, Has, InFlight
<1>19. \A a \in Actor : Put(a) => Apart'
  BY <1>0 DEF Put, TypeOK, Actor, NoNewOwner, Carries, Has, InFlight
<1>20. \A a \in Actor, f \in BOOLEAN : Up(a, f) => Apart'
  BY <1>0 DEF Up, NextMesh, TypeOK, Actor, NoNewOwner, Carries, Has, InFlight
<1>21. \A a \in Actor : EndRound(a) => Apart'
  BY <1>0 DEF EndRound, TypeOK, NoMesh, Actor, NoNewOwner, Carries, Has, InFlight
<1>22. \A f \in Fault, c \in BOOLEAN : Restart(f, c) => Apart'
  BY <1>0 DEF Restart, NoMesh, TypeOK, NoNewOwner, Carries, Has, InFlight
<1>23. UNCHANGED vars => Apart'
  BY <1>0 DEF vars, Parsed, NoNewOwner, Carries, Has, InFlight
<1>24. ASSUME NEW m \in Mesh, AdminAdd(m) PROVE Apart'
  <2>1. PICK k \in Pub :
          /\ k = Nil \/ k \in handed \/ Generated(k)
          /\ handed' = handed \ {k}
          /\ \E priv \in BOOLEAN, on \in BOOLEAN : server' = [server EXCEPT ![m] =
                [id |-> edits', rev |-> edits', on |-> on, pub |-> k, priv |-> priv]]
    BY <1>24 DEF AdminAdd
  <2>5. /\ \A n \in Mesh : n # m => server'[n] = server[n]
        /\ server'[m].pub = k
    BY <2>1 DEF TypeOK, Message
  <2>2. \A n \in Mesh, j \in Key : Carries(n, j)' => Carries(n, j) \/ (n = m /\ j = k)
    <3>1. \A n \in Mesh, j \in Key : Has(server[n], j)' => Has(server[n], j) \/ (n = m /\ j = k)
      BY <2>5 DEF Has
    <3> QED
      BY <1>24, <3>1 DEF AdminAdd, Carries, Has
  <2>3. \A a \in Actor, j \in Key : InFlight(a, j)' <=> InFlight(a, j)
    BY <1>24 DEF AdminAdd, InFlight
  <2>4. k = Nil \/ ((\A n \in Mesh : ~Carries(n, k)) /\ \A a \in Actor : ~InFlight(a, k))
    BY <2>1, UnusedKey DEF Apart, TypeOK
  <2> QED
    BY <2>1, <2>2, <2>3, <2>4 DEF Apart
<1>25. ASSUME NEW f \in BOOLEAN, keyHandler(f) PROVE Apart'
  <2>1. PICK k \in Key : Generated(k) /\ handed' = handed \cup {k}
    BY <1>25 DEF keyHandler
  <2>2. \A n \in Mesh, j \in Key : Carries(n, j)' <=> Carries(n, j)
    BY <1>25 DEF keyHandler, Carries
  <2>3. \A a \in Actor, j \in Key : InFlight(a, j)' <=> InFlight(a, j)
    BY <1>25 DEF keyHandler, InFlight
  <2> QED
    BY <2>1, <2>2, <2>3, UnusedKey DEF Apart
<1>26. ASSUME NEW a \in Actor, Regenerate(a) PROVE Apart'
  <2>1. PICK k \in Key : Generated(k) /\ key' = [key EXCEPT ![a] = k]
    BY <1>26 DEF Regenerate
  <2>2. \A n \in Mesh, j \in Key : Carries(n, j)' <=> Carries(n, j)
    BY <1>26 DEF Regenerate, Carries
  <2>3. \A b \in Actor, j \in Key : InFlight(b, j)' => InFlight(b, j) \/ (b = a /\ j = k)
    BY <1>26, <2>1 DEF Regenerate, InFlight, TypeOK, Actor
  <2>4. handed' = handed
    BY <1>26 DEF Regenerate
  <2> QED
    BY <2>1, <2>2, <2>3, <2>4, UnusedKey DEF Apart
<1>27. ASSUME NEW a \in Actor, UpdateMeshifyHost(a) PROVE Apart'
  <2>1. key[a] \in Key /\ InFlight(a, key[a]) /\ handed' = handed /\ cur[a] \in Mesh
    BY <1>27 DEF UpdateMeshifyHost, Shape, InFlight, Members
  <2>2. \A n \in Mesh, j \in Key : Carries(n, j)' => Carries(n, j) \/ (n = cur[a] /\ j = key[a])
    BY <1>27, HostPatch DEF UpdateMeshifyHost, Patched, Carries, Has
  <2>3. \A b \in Actor, j \in Key : InFlight(b, j)' => InFlight(b, j) /\ b # a
    BY <1>27 DEF UpdateMeshifyHost, InFlight, TypeOK, Actor
  <2> QED
    BY <2>1, <2>2, <2>3 DEF Apart
<1>28. ASSUME NEW c \in copies, ConfigureUPnP(c) PROVE Apart'
  <2>1. NoNewOwner
    BY <1>28, CopyPatch DEF ConfigureUPnP, Patched, NoNewOwner, Carries, Has, InFlight
  <2> QED
    BY <1>0, <2>1
<1> QED
  BY <1>28, <1>29, <1>30, <1>31, <1>32, <1>1, <1>2, <1>3, <1>4, <1>5, <1>6, <1>7, <1>8, <1>9, <1>10, <1>11,
     <1>12, <1>13, <1>14, <1>15, <1>16, <1>17, <1>18, <1>19, <1>20, <1>21, <1>22, <1>23, <1>24, <1>25, <1>26,
     <1>27 DEF Next, Admin, HTTP, PollFails, UpdateMeshifyConfig, Apply, Configure

----------------------------------------------------------------------------
(* Published keys are kept: the steps *)

\* Nothing becomes precious or shared.
NothingNew == \A k \in Key : (Precious(k)' => Precious(k)) /\ (Shared(k)' => Shared(k))

\* Every step keeps what is precious: it is saved before it is shared, and
\* deleted only when nobody needs it, as long as no crash cuts a KeySave short.
LEMMA StepKept ==
    ASSUME TypeOK, Shape, Aged, Apart, Kept, Deletable, [Next]_vars, ~torn'
    PROVE  Kept' /\ Deletable'
<1> USE NilIsNoKey, NilIsNoData DEF serverVars, diskVars, workVars, asideVars, saveVars, copyVars, stopVars, Goto
<1> DEFINE Goal == Kept' /\ Deletable'
<1>0. ASSUME NothingNew, NoNewVictim, KeyStore' = KeyStore,
             unsaved' \/ keysFile' = KeyStore \/ UNCHANGED <<keysFile, unsaved>>
      PROVE  Goal
  <2>1. Kept'
    BY <1>0, KeptKept DEF NothingNew
  <2>2. Deletable'
    BY <1>0, DeletableKept DEF NothingNew, NoNewPrecious
  <2> QED
    BY <2>1, <2>2
<1>1. \A m \in Mesh : AdminEdit(m) => Goal
  BY <1>0 DEF AdminEdit, TypeOK, Message, NothingNew, NoNewVictim, Precious, Shared, Publishable, Vouches, Current, InFlight
<1>2. \A m \in Mesh : AdminRemove(m) => Goal
  BY <1>0 DEF AdminRemove, TypeOK, Message, NothingNew, NoNewVictim, Precious, Shared, Publishable, Vouches, Current, InFlight
<1>3. \A m \in Mesh, f \in BOOLEAN : stopServiceHandler(m, f) => Goal
  BY <1>0 DEF stopServiceHandler, NothingNew, NoNewVictim, Precious, Shared, Publishable, Vouches, Current, InFlight
<1>29. \A s \in stops : stopServiceRemoves(s) => Goal
  BY <1>0 DEF stopServiceRemoves, NothingNew, NoNewVictim, Precious, Shared, Publishable, Vouches, Current, InFlight
<1>4. PollNotModified => Goal
  BY <1>0 DEF PollNotModified, Parsed, NoMesh, NothingNew, NoNewVictim, Precious, Shared, Publishable, Vouches, Current, InFlight
<1>5. PollError => Goal
  BY <1>0 DEF PollError, NothingNew, NoNewVictim, Precious, Shared, Publishable, Vouches, Current, InFlight
<1>6. PollGarbled => Goal
  BY <1>0 DEF PollGarbled, Parsed, NoMesh, NothingNew, NoNewVictim, Precious, Shared, Publishable, Vouches, Current, InFlight
<1>7. PollDenied => Goal
  BY <1>0 DEF PollDenied, Parsed, NoMesh, NothingNew, NoNewVictim, Precious, Shared, Publishable, Vouches, Current, InFlight
<1>8. WriteConf => Goal
  BY <1>0 DEF WriteConf, Parsed, NoMesh, TypeOK, Actor, NothingNew, NoNewVictim, Precious, Shared, Publishable, Vouches, Current, InFlight
<1>9. \A m \in Mesh, f \in BOOLEAN : Prune(m, f) => Goal
  BY <1>0 DEF Prune, TypeOK, Actor, NothingNew, NoNewVictim, Precious, Shared, Publishable, Vouches, Current, InFlight
<1>30. Unlink => Goal
  BY <1>0 DEF Unlink, TypeOK, Actor, NothingNew, NoNewVictim, Precious, Shared, Publishable, Vouches, Current, InFlight
<1>10. PruneDone => Goal
  BY <1>0 DEF PruneDone, TypeOK, Actor, NothingNew, NoNewVictim, Precious, Shared, Publishable, Vouches, Current, InFlight
<1>11. RefreshOpen => Goal
  BY <1>0 DEF RefreshOpen, NoMesh, Parsed, MayStart, TypeOK, Actor, NothingNew, NoNewVictim, Precious, Shared, Publishable, Vouches, Current, InFlight
<1>12. \A a \in Actor, f \in BOOLEAN : Store(a, f) => Goal
  BY <1>0 DEF Store, KeySave, TypeOK, Actor, NothingNew, NoNewVictim, Precious, Shared, Publishable, Vouches, Current, InFlight
<1>13. Compare => Goal
  BY <1>0 DEF Compare, NextMesh, TypeOK, Actor, NothingNew, NoNewVictim, Precious, Shared, Publishable, Vouches, Current, InFlight
<1>14. \A f \in BOOLEAN : Stop(f) => Goal
  BY <1>0 DEF Stop, TypeOK, Actor, NothingNew, NoNewVictim, Precious, Shared, Publishable, Vouches, Current, InFlight
<1>31. Clear => Goal
  BY <1>0 DEF Clear, TypeOK, Actor, NothingNew, NoNewVictim, Precious, Shared, Publishable, Vouches, Current, InFlight
<1>32. \A a \in Actor : Clean(a) => Goal
  BY <1>0 DEF Clean, NextMesh, TypeOK, Actor, NothingNew, NoNewVictim, Precious, Shared, Publishable, Vouches, Current, InFlight
<1>15. \A a \in Actor : Put(a) => Goal
  BY <1>0 DEF Put, TypeOK, Actor, NothingNew, NoNewVictim, Precious, Shared, Publishable, Vouches, Current, InFlight
<1>16. \A a \in Actor, f \in BOOLEAN : Up(a, f) => Goal
  BY <1>0 DEF Up, NextMesh, TypeOK, Actor, NothingNew, NoNewVictim, Precious, Shared, Publishable, Vouches, Current, InFlight
<1>17. \A a \in Actor : EndRound(a) => Goal
  BY <1>0 DEF EndRound, NoMesh, TypeOK, Actor, NothingNew, NoNewVictim, Precious, Shared, Publishable, Vouches, Current, InFlight
<1>18. UNCHANGED vars => Goal
  BY <1>0 DEF vars, NothingNew, NoNewVictim, Precious, Shared, Publishable, Vouches, Current, InFlight
<1>19. ASSUME NEW m \in Mesh, AdminAdd(m) PROVE Goal
  <2>1. PICK k \in Pub, priv \in BOOLEAN, on \in BOOLEAN :
          /\ (k = Nil \/ k \in handed \/ priv) /\ handed' = handed \ {k}
          /\ server' = [server EXCEPT ![m] =
                [id |-> edits', rev |-> edits', on |-> on, pub |-> k, priv |-> priv]]
    BY <1>19 DEF AdminAdd
  <2>2. \A j \in Key : Publishable(j)' => Publishable(j) \/ (j = k /\ ~priv)
    <3>1. /\ server[m] = Nil /\ \A n \in Mesh : n # m => server'[n] = server[n]
          /\ server'[m].id = edits + 1 /\ server'[m].pub = k /\ server'[m].priv = priv
      BY <1>19, <2>1 DEF AdminAdd, TypeOK, Message
    <3>2. UNCHANGED <<msg, confFile, copies>> /\ edits \in Nat
      BY <1>19 DEF AdminAdd, TypeOK
    <3>3. \A h, j : Vouches(m, h, j)' /\ h # Nil /\ h.id <= edits => FALSE
      BY <3>1, <3>2 DEF Vouches, Current
    <3>4. \A n \in Mesh : \A h, j : n # m /\ Vouches(n, h, j)' => Vouches(n, h, j)
      BY <3>1 DEF Vouches, Current
    <3> QED
      BY <3>1, <3>2, <3>3, <3>4 DEF Publishable, Aged, Vouches
  <2>3. NothingNew
    BY <1>19, <2>1, <2>2 DEF AdminAdd, NothingNew, Precious, Shared, InFlight
  <2> QED
    BY <1>19, <1>0, <2>3 DEF AdminAdd, NoNewVictim
<1>20. ASSUME NEW f \in BOOLEAN, keyHandler(f) PROVE Goal
  <2>1. PICK k \in Key : /\ Generated(k) /\ handed' = handed \cup {k}
                         /\ KeyStore' = [KeyStore EXCEPT ![k] = "priv"]
                         /\ KeySave(KeyStore', f)
    BY <1>20 DEF keyHandler
  <2>5. unsaved' \/ keysFile' = KeyStore'
    BY <2>1 DEF KeySave
  <2>2. \A j \in Key : /\ Precious(j)' => Precious(j) \/ j = k
                       /\ Shared(j)' => Precious(j) \/ j = k
    BY <1>20, <2>1 DEF keyHandler, Precious, Shared, Publishable, Vouches, Current, InFlight
  <2>3. Kept'
    BY <2>1, <2>2, <2>5 DEF Kept, TypeOK, Pub
  <2>4. Deletable'
    BY <1>20, <2>1, <2>2, UnusedKey, DeletableKept DEF keyHandler, NoNewPrecious, NoNewVictim
  <2> QED
    BY <2>3, <2>4
<1>21. ASSUME PollFetch PROVE Goal
  <2>1. /\ NothingNew /\ KeyStore' = KeyStore /\ UNCHANGED <<keysFile, unsaved>>
        /\ \A a \in Actor : pc'[a] \in {"store", "regen"} =>
              pc[a] \in {"store", "regen"} /\ cur'[a] = cur[a] /\ msg'[a] = msg[a]
    BY <1>21 DEF PollFetch, Parsed, NoMesh, MayStart, TypeOK, Actor, NothingNew, Precious, Shared, Publishable, Vouches, Current, InFlight
  <2>2. CASE confFile = server
    BY <1>0, <1>21, <2>1, <2>2 DEF PollFetch, Parsed, NoMesh, NoNewVictim
  <2>3. CASE confFile # server
    <3>1. msg'["poller"] = server /\ old' = Parsed(confFile)
      BY <1>21, <2>3 DEF PollFetch, Parsed, NoMesh, TypeOK, Actor
    <3>2. ASSUME NEW m \in Mesh, old'[m] # Nil, server[m] = Nil, old'[m].pub \in Key, Precious(old'[m].pub)
          PROVE  FALSE
      <4> DEFINE k == old'[m].pub
      <4>1. Carries(m, k)
        BY <3>1, <3>2 DEF Carries, Has
      <4>2. PICK n \in Mesh : Carries(n, k) /\ server[n] # Nil
        BY <4>1, <3>2 DEF Precious, Publishable, Vouches, Current, Apart, Carries, Has
      <4> QED
        BY <3>2, <4>1, <4>2 DEF Apart
    <3>3. \A k \in Key : Precious(k)' => Precious(k)
      BY <2>1 DEF NothingNew
    <3>4. Kept'
      BY <2>1, KeptKept DEF NothingNew
    <3>5. \A a \in Actor : pc'[a] \in {"store", "regen"} => ~((Rec(a).pub)' \in Key /\ Precious(Rec(a).pub)')
      BY <2>1, <3>3 DEF Deletable, Rec
    <3> QED
      BY <3>1, <3>2, <3>3, <3>4, <3>5 DEF Deletable, Members
  <2> QED
    BY <2>2, <2>3
<1>22. ASSUME NEW f \in BOOLEAN, Forget(f) PROVE Goal
  <2> DEFINE k == old[cur["poller"]].pub
  <2>1. k \in Pub /\ ~(k \in Key /\ Precious(k))
    <3>1. cur["poller"] \in Members(old) \ Members(msg["poller"])
      BY <1>22 DEF Forget, Shape
    <3>2. old[cur["poller"]] \in Host
      BY <3>1 DEF Members, TypeOK, Message
    <3> QED
      BY <1>22, <3>1, <3>2, HostFields DEF Forget, Deletable
  <2>2. NothingNew
    BY <1>22 DEF Forget, TypeOK, Actor, NothingNew, Precious, Shared, Publishable, Vouches, Current, InFlight
  <2>3. Kept'
    <3>1. \A j \in Key : Shared(j)' => Precious(j)
      BY <2>2 DEF NothingNew, Shared, Precious, InFlight
    <3>2. KeyStore' = [KeyStore EXCEPT ![k] = "none"] /\ (unsaved' \/ keysFile' = KeyStore')
      BY <1>22 DEF Forget, KeySave
    <3> QED
      BY <2>1, <2>2, <3>1, <3>2 DEF Kept, NothingNew, TypeOK, Pub
  <2>4. NoNewVictim
    BY <1>22 DEF Forget, TypeOK, Actor, NoNewVictim
  <2> QED
    BY <2>2, <2>3, <2>4, DeletableKept DEF NothingNew, NoNewPrecious
<1>23. ASSUME NEW a \in Actor, NEW m \in Mesh, Begin(a, m) PROVE Goal
  <2>0. KeyLookup(a, m) /\ (copies' = copies \/ \E no : copies' = copies \cup {[no |-> no, mesh |-> m, host |-> msg[a][m]]})
    BY <1>23 DEF Begin
  <2> DEFINE k == msg[a][m].pub
  <2>1. NothingNew
    BY <2>0 DEF KeyLookup, TypeOK, Actor, NothingNew, Precious, Shared, Publishable, Vouches, Current, InFlight
  <2>2. KeyStore[k] # "priv" => ~(k \in Key /\ Precious(k))
    BY DEF Kept
  <2>3. \/ KeyStore' = KeyStore
        \/ KeyStore[k] = "none" /\ \E x \in {"blank", "priv"} : KeyStore' = [KeyStore EXCEPT ![k] = x]
    BY <2>0 DEF KeyLookup, PrivateKey
  <2>4. Kept'
    BY <2>0, <2>1, <2>2, <2>3 DEF KeyLookup, Kept, NothingNew, TypeOK, Pub
  <2>5. /\ pc'[a] \in {"store", "regen"} => KeyStore[k] # "priv"
        /\ cur'[a] = m /\ msg' = msg /\ old' = old
        /\ \A b \in Actor : b # a => pc'[b] = pc[b] /\ cur'[b] = cur[b]
        /\ pc'[a] \notin {"write", "prune", "unlink", "forget"}
    BY <2>0 DEF KeyLookup, TypeOK
  <2>6. \A b \in Actor : pc'[b] \in {"store", "regen"} => ~((Rec(b).pub)' \in Key /\ Precious(Rec(b).pub)')
    BY <2>1, <2>2, <2>5 DEF Deletable, Rec, NothingNew
  <2>7. pc'["poller"] \in {"write", "prune", "unlink", "forget"} => pc["poller"] \in {"write", "prune", "unlink", "forget"}
    BY <2>5 DEF Actor
  <2> QED
    BY <2>1, <2>4, <2>5, <2>6, <2>7 DEF Deletable, NothingNew, Members
<1>24. ASSUME NEW a \in Actor, Regenerate(a) PROVE Goal
  <2>1. PICK k \in Key : /\ Generated(k) /\ key' = [key EXCEPT ![a] = k]
                         /\ KeyStore' = [KeyStore EXCEPT ![Rec(a).pub] = "none", ![k] = "priv"]
    BY <1>24 DEF Regenerate
  <2>2. /\ pc' = [pc EXCEPT ![a] = "save"] /\ UNCHANGED <<keysFile, unsaved>> /\ cur' = cur /\ msg' = msg
        /\ old' = old /\ server' = server /\ handed' = handed /\ pc[a] = "regen"
        /\ confFile' = confFile /\ copies' = copies
    BY <1>24 DEF Regenerate
  <2>3. \A j \in Key : /\ Precious(j)' => Precious(j) \/ j = k
                       /\ Shared(j)' => Shared(j)
    BY <2>1, <2>2 DEF Precious, Shared, Publishable, Vouches, Current, InFlight, TypeOK, Actor
  <2>4. Rec(a).pub \in Pub /\ ~(Rec(a).pub \in Key /\ Precious(Rec(a).pub))
    BY <2>2, HostFields DEF Deletable, Shape, TypeOK, Members, Message, Rec
  <2>5. Kept'
    BY <2>1, <2>2, <2>3, <2>4 DEF Kept, TypeOK, Pub
  <2>6. NoNewVictim
    BY <2>2 DEF NoNewVictim, TypeOK, Actor
  <2>7. NoNewPrecious
    BY <2>1, <2>3, UnusedKey DEF NoNewPrecious
  <2> QED
    BY <2>5, <2>6, <2>7, DeletableKept
<1>25. ASSUME NEW a \in Actor, NEW f \in BOOLEAN, Save(a, f) PROVE Goal
  <2>1. /\ pc[a] = "save" /\ pc' = [pc EXCEPT ![a] = "patch"] /\ KeyStore' = KeyStore
        /\ unsaved' \/ keysFile' = KeyStore
        /\ server' = server /\ handed' = handed /\ key' = key /\ cur' = cur /\ msg' = msg /\ old' = old
        /\ confFile' = confFile /\ copies' = copies
    BY <1>25 DEF Save, KeySave
  <2>2. \A j \in Key : /\ Precious(j)' => Precious(j)
                       /\ Shared(j)' => Precious(j)
    BY <2>1 DEF Precious, Shared, Publishable, Vouches, Current, InFlight, TypeOK, Actor
  <2>3. Kept'
    BY <2>1, <2>2 DEF Kept
  <2>4. NoNewVictim
    BY <2>1 DEF NoNewVictim, TypeOK, Actor
  <2> QED
    BY <2>2, <2>3, <2>4, DeletableKept DEF NoNewPrecious
<1>26. ASSUME NEW a \in Actor, UpdateMeshifyHost(a) PROVE Goal
  <2>1. /\ pc[a] = "patch" /\ pc' = [pc EXCEPT ![a] = "dump"] /\ UNCHANGED <<KeyStore, keysFile, unsaved>>
        /\ handed' = handed /\ key' = key /\ cur' = cur /\ msg' = msg /\ old' = old /\ key[a] \in Key
        /\ confFile' = confFile /\ copies' = copies
    BY <1>26 DEF UpdateMeshifyHost, Shape
  <2>2. Patched(cur[a], Rec(a), key[a], FALSE)
    BY <1>26, HostPatch
  <2>3. \A j \in Key : Publishable(j)' => Publishable(j) \/ j = key[a]
    BY <2>1, <2>2 DEF Patched, Publishable, Vouches, Current
  <2>4. InFlight(a, key[a]) /\ Shared(key[a])
    BY <2>1 DEF InFlight, Shared
  <2>5. NothingNew
    BY <2>1, <2>3, <2>4 DEF NothingNew, Precious, Shared, InFlight, TypeOK, Actor
  <2>6. NoNewVictim
    BY <2>1 DEF NoNewVictim, TypeOK, Actor
  <2> QED
    BY <1>0, <2>1, <2>5, <2>6
<1>27. ASSUME NEW f \in Fault, NEW c \in BOOLEAN, Restart(f, c) PROVE Goal
  <2>1. /\ ~c /\ ~unsaved /\ keysFile' = keysFile /\ KeyStore' = keysFile /\ confFile' = confFile /\ copies' = {}
        /\ server' = server /\ handed' = handed /\ \A a \in Actor : pc'[a] = "idle" /\ msg'[a] = NoMesh
    BY <1>27, ~torn' DEF Restart
  <2>2. \A j \in Key : (Precious(j)' => Shared(j)) /\ (Shared(j)' => Shared(j))
    <3>1. \A j \in Key : Publishable(j)' => Publishable(j)
      BY <2>1 DEF Publishable, Vouches, Current, NoMesh
    <3> QED
      BY <2>1, <3>1 DEF Precious, Shared, InFlight
  <2>3. Kept'
    BY <2>1, <2>2 DEF Kept
  <2>4. Deletable'
    BY <2>1 DEF Deletable, Actor
  <2> QED
    BY <2>3, <2>4
<1>28. ASSUME NEW c \in copies, ConfigureUPnP(c) PROVE Goal
  <2>1. /\ UNCHANGED <<KeyStore, keysFile, unsaved, confFile, msg, handed, pc, key, cur, old>> /\ copies' \subseteq copies
        /\ Patched(c.mesh, c.host, c.host.pub, c.host.priv) /\ c.mesh \in Mesh /\ c.host # Nil
    BY <1>28, CopyPatch DEF ConfigureUPnP
  <2>2. \A k \in Key : Publishable(k)' => Publishable(k)
    BY <2>1 DEF Patched, Publishable, Vouches, Current
  <2>3. NothingNew
    BY <2>1, <2>2 DEF NothingNew, Precious, Shared, InFlight
  <2> QED
    BY <1>0, <2>1, <2>3 DEF NoNewVictim
<1> QED
  BY <1>28, <1>29, <1>30, <1>31, <1>32, <1>1, <1>2, <1>3, <1>4, <1>5, <1>6, <1>7, <1>8, <1>9, <1>10, <1>11,
     <1>12, <1>13, <1>14, <1>15, <1>16, <1>17, <1>18, <1>19, <1>20, <1>21, <1>22, <1>23, <1>24, <1>25, <1>26,
     <1>27 DEF Next, Admin, HTTP, PollFails, UpdateMeshifyConfig, Apply, Configure

----------------------------------------------------------------------------
(* The theorems *)

\* IInv is an inductive invariant of MeshSync.
THEOREM Inductive == Spec => []IInv
<1>1. Init => IInv
  <2> SUFFICES ASSUME Init PROVE IInv
    OBVIOUS
  <2>1. TypeOK /\ Shape
    BY InitTyped
  <2>2. \A k \in Key, m \in Mesh : Carries(m, k) => m \in DOMAIN Joined /\ k = Joined[m]
    <3> DEFINE rec(m) == [id |-> 0, rev |-> 0, on |-> TRUE, pub |-> Joined[m], priv |-> FALSE]
    <3>1. server = [m \in Mesh |-> IF m \in DOMAIN Joined THEN rec(m) ELSE Nil]
      BY DEF Init
    <3>2. old = NoMesh /\ msg = [a \in Actor |-> NoMesh] /\ confFile \in {Nil, server} /\ copies = {}
      BY DEF Init
    <3>3. Parsed(confFile) \in {NoMesh, server}
      BY <3>2 DEF Parsed
    <3>4. \A k \in Key, m \in Mesh : Carries(m, k) => Has(server[m], k)
      BY <3>2, <3>3 DEF Carries, Has, NoMesh
    <3>5. \A k \in Key, m \in Mesh : Has(server[m], k) => m \in DOMAIN Joined /\ k = Joined[m]
      BY <3>1 DEF Has
    <3> QED
      BY <3>4, <3>5
  <2>3. handed = {} /\ \A a \in Actor : pc[a] = "idle"
    BY DEF Init
  <2>4. Apart
    BY <2>2, <2>3, JoinedType DEF Apart, InFlight
  <2>5. \A k \in Key : Precious(k) \/ Shared(k) => \E m \in DOMAIN Joined : k = Joined[m]
    BY <2>2, <2>3 DEF Precious, Shared, Publishable, Vouches, InFlight, Carries, Has
  <2>6. Kept
    BY <2>5 DEF Init, Kept, Pub
  <2>7. Deletable
    BY <2>3 DEF Deletable, Actor
  <2>8. Aged
    <3>1. \A m \in Mesh : server[m] # Nil => server[m].id = 0
      BY DEF Init
    <3>2. msg = [a \in Actor |-> NoMesh] /\ confFile \in {Nil, server} /\ copies = {} /\ edits = 0
      BY DEF Init
    <3>3. Parsed(confFile) \in {NoMesh, server}
      BY <3>2 DEF Parsed
    <3> QED
      BY <3>1, <3>2, <3>3 DEF Aged, NoMesh
  <2> QED
    BY <2>1, <2>4, <2>6, <2>7, <2>8 DEF IInv
<1>2. IInv /\ [Next]_vars => IInv'
  <2> SUFFICES ASSUME IInv, [Next]_vars PROVE IInv'
    OBVIOUS
  <2>1. torn => torn'
    BY DEF Next, vars, Admin, HTTP, PollFails, UpdateMeshifyConfig, Apply, Configure, AdminAdd, AdminEdit,
           AdminRemove, keyHandler, stopServiceHandler, stopServiceRemoves, PollFetch, PollNotModified, PollError, PollGarbled,
           PollDenied, WriteConf, Prune, Unlink, Forget, PruneDone, Compare, Stop, Clear, Clean, RefreshOpen, Begin, KeyLookup, Store,
           Regenerate, Save, UpdateMeshifyHost, ConfigureUPnP, Put, Up, EndRound, Restart, asideVars, saveVars, copyVars, stopVars
  <2> QED
    BY <2>1, StepTyped, StepAged, StepApart, StepKept DEF IInv
<1> QED
  BY <1>1, <1>2, PTL DEF Spec

\* A public key that the server publishes has its private half in memory, and in
\* keys.json unless the last KeySave failed, until a crash cut a KeySave short or
\* came before a save that had failed was made good.
THEOREM KeyKept == Spec => []PublishedKeyKept
<1>1. IInv => PublishedKeyKept
  BY DEF IInv, PublishedKeyKept, Kept, Shared, Precious, Published, Has, Publishable, Vouches, Current
<1> QED
  BY <1>1, Inductive, PTL

----------------------------------------------------------------------------
(* The ETag *)

\* A step that leaves the ETag, meshify.conf and what is to be written alone.
LEMMA EtagQuiet ==
    ASSUME EtagKept, etag' = etag, confFile' = confFile, left'["garbled"] = left["garbled"],
           (pc'["poller"] = "write") = (pc["poller"] = "write"),
           pc["poller"] = "write" => msg'["poller"] = msg["poller"]
    PROVE  EtagKept'
BY DEF EtagKept

\* Every step keeps the invariant.
LEMMA StepEtag == TypeOK /\ EtagKept /\ [Next]_vars => EtagKept'
<1> SUFFICES ASSUME TypeOK, EtagKept, [Next]_vars PROVE EtagKept'
  OBVIOUS
<1> USE EtagQuiet DEF asideVars, saveVars, copyVars, stopVars
<1>0. /\ "garbled" \in Fault /\ left["garbled"] \in Nat
      /\ \A f \in BOOLEAN, g \in {"stuck", "noup", "disk"} : "garbled" \notin When(f, g)
      /\ \A f \in BOOLEAN : /\ "garbled" \notin {"handed"} \cup When(f, "disk")
                            /\ "garbled" \notin {"stop"} \cup When(f, "stuck")
  BY DEF Fault, When, TypeOK
<1>1. ASSUME NEW m \in Mesh, AdminAdd(m) \/ AdminEdit(m) \/ AdminRemove(m) PROVE EtagKept'
  BY <1>1 DEF AdminAdd, AdminEdit, AdminRemove, diskVars, workVars
<1>2. ASSUME NEW f \in BOOLEAN, keyHandler(f) PROVE EtagKept'
  BY <1>0, <1>2, SpendLeft DEF keyHandler, workVars
<1>3. ASSUME NEW m \in Mesh, NEW f \in BOOLEAN, stopServiceHandler(m, f) PROVE EtagKept'
  BY <1>0, <1>3, SpendLeft DEF stopServiceHandler, diskVars, workVars
<1>27. ASSUME NEW s \in stops, stopServiceRemoves(s) PROVE EtagKept'
  BY <1>27 DEF stopServiceRemoves, workVars
<1>4. CASE PollFetch
  <2>1. pc["poller"] = "idle"
    BY <1>4 DEF PollFetch, MayStart
  <2>2. etag' = server /\ left' = left
    BY <1>4 DEF PollFetch
  <2>3. CASE confFile = server
    BY <1>4, <2>1, <2>2, <2>3 DEF PollFetch, EtagKept
  <2>4. CASE confFile # server
    BY <1>4, <2>1, <2>2, <2>4 DEF PollFetch, EtagKept, Goto, TypeOK, Actor
  <2> QED
    BY <2>3, <2>4
<1>5. CASE PollNotModified
  <2>1. pc["poller"] = "idle" /\ etag = server /\ server # Nil
    BY <1>5, NilIsNoData DEF PollNotModified, MayStart, TypeOK
  <2> QED
    BY <1>5, <2>1 DEF PollNotModified, EtagKept, workVars
<1>6. CASE PollError
  BY <1>0, <1>6, SpendLeft DEF PollError, EtagKept, diskVars, workVars
<1>7. CASE PollGarbled
  BY <1>0, <1>7, SpendLeft, LimitType DEF PollGarbled, EtagKept, workVars
<1>8. CASE PollDenied
  BY <1>0, <1>8, SpendLeft DEF PollDenied, EtagKept, workVars
<1>9. CASE WriteConf
  BY <1>9 DEF WriteConf, EtagKept, Goto, TypeOK, Actor
<1>10. ASSUME NEW m \in Mesh, NEW fails \in BOOLEAN, Prune(m, fails) PROVE EtagKept'
  BY <1>0, <1>10, SpendLeft DEF Prune, Goto, TypeOK, Actor, diskVars
<1>28. CASE Unlink
  BY <1>28 DEF Unlink, Goto, TypeOK, Actor
<1>11. ASSUME NEW f \in BOOLEAN, Forget(f) PROVE EtagKept'
  BY <1>0, <1>11, SpendLeft DEF Forget, Goto, TypeOK, Actor
<1>12. CASE PruneDone
  BY <1>12 DEF PruneDone, Goto, TypeOK, Actor, diskVars
<1>13. CASE Compare
  BY <1>13 DEF Compare, NextMesh, Goto, TypeOK, Actor, diskVars
<1>14. ASSUME NEW fails \in BOOLEAN, Stop(fails) PROVE EtagKept'
  BY <1>0, <1>14, SpendLeft DEF Stop, Goto, TypeOK, Actor, diskVars
<1>29. CASE Clear
  BY <1>29 DEF Clear, Goto, TypeOK, Actor
<1>30. ASSUME NEW a \in Actor, Clean(a) PROVE EtagKept'
  BY <1>30 DEF Clean, NextMesh, Goto, TypeOK, Actor
<1>15. CASE RefreshOpen
  BY <1>15 DEF RefreshOpen, Goto, TypeOK, Actor, diskVars
<1>16. ASSUME NEW a \in Actor, NEW m \in Mesh, Begin(a, m) PROVE EtagKept'
  BY <1>16 DEF Begin, KeyLookup, Goto, TypeOK, Actor, diskVars
<1>17. ASSUME NEW a \in Actor, NEW f \in BOOLEAN, Store(a, f) PROVE EtagKept'
  BY <1>0, <1>17, SpendLeft DEF Store, Goto, TypeOK, Actor
<1>18. ASSUME NEW a \in Actor, Regenerate(a) PROVE EtagKept'
  BY <1>18 DEF Regenerate, Goto, TypeOK, Actor, diskVars
<1>19. ASSUME NEW a \in Actor, NEW f \in BOOLEAN, Save(a, f) PROVE EtagKept'
  BY <1>0, <1>19, SpendLeft DEF Save, Goto, TypeOK, Actor
<1>20. ASSUME NEW a \in Actor, UpdateMeshifyHost(a) PROVE EtagKept'
  BY <1>0, <1>20, SpendLeft DEF UpdateMeshifyHost, Goto, TypeOK, Actor, diskVars
<1>21. ASSUME NEW a \in Actor, Put(a) PROVE EtagKept'
  BY <1>21 DEF Put, Goto, TypeOK, Actor
<1>22. ASSUME NEW a \in Actor, NEW fails \in BOOLEAN, Up(a, fails) PROVE EtagKept'
  BY <1>0, <1>22, SpendLeft DEF Up, NextMesh, Goto, TypeOK, Actor, diskVars
<1>23. ASSUME NEW a \in Actor, EndRound(a) PROVE EtagKept'
  BY <1>23 DEF EndRound, Goto, TypeOK, Actor, diskVars
<1>24. ASSUME NEW f \in Fault, NEW cut \in BOOLEAN, Restart(f, cut) PROVE EtagKept'
  BY <1>0, <1>24, SpendLeft DEF Restart, EtagKept
<1>25. CASE UNCHANGED vars
  BY <1>25 DEF vars
<1>26. ASSUME NEW c \in copies, ConfigureUPnP(c) PROVE EtagKept'
  BY <1>0, <1>26, SpendLeft DEF ConfigureUPnP, diskVars, workVars
<1> QED
  BY <1>26, <1>27, <1>28, <1>29, <1>30, <1>1, <1>2, <1>3, <1>4, <1>5, <1>6, <1>7, <1>8, <1>9, <1>10, <1>11, <1>12, <1>13, <1>14,
     <1>15, <1>16, <1>17, <1>18, <1>19, <1>20, <1>21, <1>22, <1>23, <1>24, <1>25
     DEF Next, Configure, Admin, HTTP, PollFails, UpdateMeshifyConfig, Apply

\* Between two polls an ETag that the poller still sends names the configuration
\* in meshify.conf, unless a body was cut short.
THEOREM EtagHonest == Spec => []EtagNamesConf
<1>1. Init => EtagKept
  BY LimitType DEF Init, EtagKept, Fault
<1>2. Spec => []EtagKept
  BY <1>1, StepEtag, TypeCorrect, PTL DEF Spec
<1>3. EtagKept => EtagNamesConf
  BY DEF EtagKept, EtagNamesConf
<1> QED
  BY <1>2, <1>3, PTL

=============================================================================
