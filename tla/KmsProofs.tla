------------------------------ MODULE KmsProofs ------------------------------
(* Proofs about Kms: mutual exclusion under KeyLock, and that the store is    *)
(* the atomic one MeshSync uses.                                              *)
EXTENDS Kms, TLAPS

\* A call is no NoCall, and each name has its fields.
LEMMA CallNames ==
    ASSUME NEW c \in Call
    PROVE  /\ c.name \in {"lookup", "add", "delete", "save"} /\ c # NoCall
           /\ c.name \in {"lookup", "add", "delete"} => c.key \in Key
           /\ c.name = "add" => c.value \in Value
BY DEF Call, NoCall, Abstract!Call, Abstract!NoCall

\* KeyLoad always yields a map.
LEMMA LoadType == ASSUME NEW f \in Map \cup {Empty} PROVE Load(f) \in Map
BY DEF Load, Map, Blank

\* The store starts with the lock free and nobody in a call.
LEMMA InitLocked == Init => IInv
<1> SUFFICES ASSUME Init PROVE IInv
  OBVIOUS
<1>1. Blank \in Map /\ KeyStore \in Map
  BY LoadType DEF Init, Blank, Map
<1> QED
  BY <1>1, NoneIsNoThread, AnswersDiffer DEF Init, IInv, TypeOK, Locked

\* Every step keeps the types and the lock: a thread in a function body has
\* KeyLock, so the map does not change between Marshal and Write.
LEMMA StepLocked == IInv /\ [Next]_vars => IInv'
<1> SUFFICES ASSUME IInv, [Next]_vars PROVE IInv'
  OBVIOUS
<1> USE NoneIsNoThread, AnswersDiffer DEF Goto, Done
<1>0. Blank \in Map /\ Load(file) \in Map
  BY LoadType DEF IInv, TypeOK, Blank, Map
<1>1. ASSUME NEW t \in Thread, NEW c \in Call, Ask(t, c) PROVE IInv'
  BY <1>1, CallNames DEF Ask, IInv, TypeOK, Locked
<1>2. ASSUME NEW t \in Thread, Lock(t) PROVE IInv'
  BY <1>2 DEF Lock, IInv, TypeOK, Locked
<1>3. ASSUME NEW t \in Thread, KeyLookup(t) PROVE IInv'
  <2>1. asked[t] \in Call /\ asked[t].key \in Key
    BY <1>3, CallNames DEF KeyLookup, IInv, TypeOK, Locked
  <2>2. KeyStore[asked[t].key] \in Value \cup {None}
    BY <2>1 DEF IInv, TypeOK, Map
  <2> QED
    BY <1>3, <2>2 DEF KeyLookup, IInv, TypeOK, Locked
<1>4. ASSUME NEW t \in Thread, KeyAdd(t) PROVE IInv'
  <2>1. asked[t] \in Call /\ asked[t].key \in Key /\ asked[t].value \in Value
    BY <1>4, CallNames DEF KeyAdd, IInv, TypeOK, Locked
  <2>2. KeyStore' \in Map
    BY <1>4, <2>1 DEF KeyAdd, IInv, TypeOK, Map
  <2> QED
    BY <1>4, <2>2 DEF KeyAdd, IInv, TypeOK, Locked
<1>5. ASSUME NEW t \in Thread, KeyDelete(t) PROVE IInv'
  <2>1. KeyStore' \in Map
    BY <1>5 DEF KeyDelete, IInv, TypeOK, Map
  <2> QED
    BY <1>5, <2>1 DEF KeyDelete, IInv, TypeOK, Locked
<1>6. ASSUME NEW t \in Thread, Open(t) PROVE IInv'
  BY <1>6, <1>0 DEF Open, IInv, TypeOK, Locked
<1>7. ASSUME NEW t \in Thread, OpenFails(t) PROVE IInv'
  BY <1>7 DEF OpenFails, IInv, TypeOK, Locked
<1>8. ASSUME NEW t \in Thread, Marshal(t) PROVE IInv'
  BY <1>8 DEF Marshal, IInv, TypeOK, Locked
<1>9. ASSUME NEW t \in Thread, Write(t) PROVE IInv'
  BY <1>9, <1>0 DEF Write, IInv, TypeOK, Locked
<1>10. ASSUME NEW t \in Thread, Unlock(t) PROVE IInv'
  BY <1>10 DEF Unlock, IInv, TypeOK, Locked
<1>11. ASSUME Crash PROVE IInv'
  BY <1>11, <1>0 DEF Crash, IInv, TypeOK, Locked
<1>12. ASSUME UNCHANGED vars PROVE IInv'
  BY <1>12 DEF vars, IInv, TypeOK, Locked
<1> QED
  BY <1>1, <1>2, <1>3, <1>4, <1>5, <1>6, <1>7, <1>8, <1>9, <1>10, <1>11, <1>12 DEF Next, Body

\* Every reachable state is well typed, and KeyLock excludes.
THEOREM Inductive == Spec => []IInv
BY InitLocked, StepLocked, PTL DEF Spec

\* Every reachable state is well typed.
THEOREM TypeCorrect == Spec => []TypeOK
<1>1. IInv => TypeOK
  BY DEF IInv
<1> QED
  BY <1>1, Inductive, PTL

----------------------------------------------------------------------------
(* The refinement *)

\* The abstract disk: the file, or what it held before KeySave truncated it.
Disk == IF Truncated THEN before ELSE Load(file)

\* Only the thread that has the lock can have truncated the file.
LEMMA OneTruncates ==
    ASSUME IInv, NEW t \in Thread, KeyLock = t
    PROVE  Truncated <=> pc[t] \in {"marshal", "write"}
BY DEF IInv, Locked, Truncated

\* Every step of Kms is a step of the atomic store, or none.
LEMMA StepAtomic == IInv /\ IInv' /\ [Next]_vars => [Abstract!Next]_Abstract!vars
<1> SUFFICES ASSUME IInv, IInv', [Next]_vars PROVE [Abstract!Next]_Abstract!vars
  OBVIOUS
<1> USE NoneIsNoThread, AnswersDiffer DEF Goto, Done
<1> DEFINE Stutter == KeyStore' = KeyStore /\ Disk' = Disk /\ asked' = asked /\ answer' = answer
<1>0. ASSUME Stutter PROVE UNCHANGED Abstract!vars
  BY <1>0 DEF Disk, Abstract!vars
<1>1. ASSUME NEW t \in Thread, NEW c \in Call, Ask(t, c) PROVE Abstract!Next
  <2>1. Truncated' = Truncated
    BY <1>1 DEF Ask, Truncated, IInv, TypeOK
  <2>2. asked[t] = NoCall /\ c \in Abstract!Call
    BY <1>1 DEF Ask, IInv, Locked, Call
  <2>3. Abstract!Ask(t, c)
    BY <1>1, <2>1, <2>2 DEF Ask, Abstract!Ask, NoCall
  <2> QED
    BY <2>2, <2>3 DEF Abstract!Next
<1>2. ASSUME NEW t \in Thread, Lock(t) PROVE Stutter
  <2>1. Truncated' = Truncated
    BY <1>2 DEF Lock, Truncated, IInv, TypeOK
  <2> QED
    BY <1>2, <2>1 DEF Lock, Disk
<1>3. ASSUME NEW t \in Thread, KeyLookup(t) PROVE Abstract!Next
  <2>1. Truncated' = Truncated
    BY <1>3 DEF KeyLookup, Truncated, IInv, TypeOK
  <2>2. answer[t] = "pending"
    BY <1>3 DEF KeyLookup, IInv, Locked
  <2>3. Abstract!Lookup(t)
    BY <1>3, <2>1, <2>2 DEF KeyLookup, Abstract!Lookup, Abstract!Answer
  <2> QED
    BY <2>3 DEF Abstract!Next
<1>4. ASSUME NEW t \in Thread, KeyAdd(t) PROVE Abstract!Next
  <2>1. Truncated' = Truncated
    BY <1>4 DEF KeyAdd, Truncated, IInv, TypeOK
  <2>2. answer[t] = "pending"
    BY <1>4 DEF KeyAdd, IInv, Locked
  <2>3. Abstract!Add(t)
    BY <1>4, <2>1, <2>2 DEF KeyAdd, Abstract!Add, Abstract!Answer
  <2> QED
    BY <2>3 DEF Abstract!Next
<1>5. ASSUME NEW t \in Thread, KeyDelete(t) PROVE Abstract!Next
  <2>1. Truncated' = Truncated
    BY <1>5 DEF KeyDelete, Truncated, IInv, TypeOK
  <2>2. answer[t] = "pending"
    BY <1>5 DEF KeyDelete, IInv, Locked
  <2>3. Abstract!Delete(t)
    BY <1>5, <2>1, <2>2 DEF KeyDelete, Abstract!Delete, Abstract!Answer
  <2> QED
    BY <2>3 DEF Abstract!Next
<1>6. ASSUME NEW t \in Thread, Open(t) PROVE Stutter
  <2>1. ~Truncated /\ Truncated'
    BY <1>6, OneTruncates DEF Open, Truncated, IInv, TypeOK, Locked
  <2> QED
    BY <1>6, <2>1 DEF Open, Disk
<1>7. ASSUME NEW t \in Thread, OpenFails(t) PROVE Abstract!Next
  <2>1. Truncated' = Truncated
    BY <1>7 DEF OpenFails, Truncated, IInv, TypeOK
  <2>2. answer[t] = "pending"
    BY <1>7 DEF OpenFails, IInv, Locked
  <2>3. Abstract!Save(t)
    BY <1>7, <2>1, <2>2 DEF OpenFails, Abstract!Save, Abstract!Answer
  <2> QED
    BY <2>3 DEF Abstract!Next
<1>8. ASSUME NEW t \in Thread, Marshal(t) PROVE Stutter
  <2>1. Truncated /\ Truncated'
    BY <1>8 DEF Marshal, Truncated, IInv, TypeOK
  <2> QED
    BY <1>8, <2>1 DEF Marshal, Disk
<1>9. ASSUME NEW t \in Thread, Write(t) PROVE Abstract!Next
  <2>1. /\ KeyLock = t /\ asked[t].name = "save" /\ answer[t] = "pending" /\ bytes[t] = KeyStore
        /\ pc' = [pc EXCEPT ![t] = "unlock"]
    BY <1>9 DEF Write, IInv, Locked
  <2>2. Truncated /\ ~Truncated'
    <3>1. \A u \in Thread : u # t => pc[u] \notin {"marshal", "write"}
      BY <2>1 DEF IInv, Locked
    <3> QED
      BY <1>9, <2>1, <3>1 DEF Write, Truncated, IInv, TypeOK
  <2>3. Load(Empty) = Blank /\ Load(KeyStore) = KeyStore
    BY EmptyIsNoMap DEF Load, IInv, TypeOK
  <2>4. Abstract!Blank = Blank
    BY DEF Abstract!Blank, Blank
  <2>5. Abstract!Save(t)
    BY <1>9, <2>1, <2>2, <2>3, <2>4 DEF Write, Abstract!Save, Abstract!Answer
  <2> QED
    BY <2>5 DEF Abstract!Next
<1>10. ASSUME NEW t \in Thread, Unlock(t) PROVE Abstract!Next
  <2>1. Truncated' = Truncated
    BY <1>10 DEF Unlock, Truncated, IInv, TypeOK
  <2>2. answer[t] # "pending"
    BY <1>10 DEF Unlock, IInv, Locked
  <2>3. Abstract!Return(t)
    BY <1>10, <2>1, <2>2 DEF Unlock, Abstract!Return, NoCall
  <2> QED
    BY <2>3 DEF Abstract!Next
<1>11. ASSUME Crash PROVE Abstract!Next
  <2>1. ~Truncated'
    BY <1>11 DEF Crash, Truncated
  <2>2. \/ Load(file) = Disk
        \/ Load(file) = Blank /\ \E t \in Thread : asked[t].name = "save" /\ answer[t] = "pending"
    BY DEF Disk, Truncated, IInv, Locked, Load
  <2> QED
    BY <1>11, <2>1, <2>2 DEF Crash, Disk, Abstract!Next, Abstract!Crash, NoCall, Abstract!Blank, Blank
<1>12. ASSUME UNCHANGED vars PROVE Stutter
  BY <1>12 DEF vars, Disk, Truncated
<1> QED
  BY <1>0, <1>1, <1>2, <1>3, <1>4, <1>5, <1>6, <1>7, <1>8, <1>9, <1>10, <1>11, <1>12 DEF Next, Body

\* The key store implements the atomic one.
THEOREM Atomic == Spec => StoreIsAtomic
<1>1. Init => Abstract!Init
  <2> SUFFICES ASSUME Init PROVE Abstract!Init
    OBVIOUS
  <2>1. ~Truncated
    BY DEF Init, Truncated
  <2>2. KeyStore \in Abstract!Map
    BY InitLocked DEF IInv, TypeOK, Map, Abstract!Map
  <2> QED
    BY <2>1, <2>2 DEF Init, Abstract!Init, NoCall
<1> QED
  BY <1>1, StepAtomic, Inductive, PTL DEF Spec, StoreIsAtomic, Abstract!Spec

=============================================================================
