---------------------------- MODULE PollerProofs ----------------------------
(***************************************************************************)
(* The program's configuration file keeps up with the key it uses          *)
(* (KeySaved), and no key is passed over (TriesAllKeys), for any keys,     *)
(* lists and faults.                                                       *)
(***************************************************************************)
EXTENDS Poller, TLAPS

\* KeySaved, everywhere but inside saveConfig.
Saved == pc \notin {"save", "write"} /\ ApiKey # None => file \in {ApiKey, agentKey}

\* saveConfig has a key to write.
HasKey == pc \in {"save", "write"} => ApiKey \in Key

IInv == TypeOK /\ HasKey /\ Saved

----------------------------------------------------------------------------

\* Decoding yields a key or leaves the old one.
LEMMA DecodedKey ==
    ASSUME NEW old \in Key \cup {None}
    PROVE  Decoded(old) \in Key \cup {None} /\ Decoded(old) \in {old, file}
BY DEF Decoded

\* The invariant holds at the start.
LEMMA InitIInv == Init => IInv
BY BoundsType, DecodedKey DEF Init, IInv, TypeOK, HasKey, Saved, Decoded

\* A key that the loop takes is a key.
LEMMA TakenKey ==
    ASSUME TypeOK, todo # <<>>
    PROVE  /\ Tail(todo) \in Seq(Key \cup {None})
           /\ ~Skips(Head(todo)) => Head(todo) \in Key
BY DEF TypeOK, Skips

\* The keys of meshify.conf are a sequence of keys.
LEMMA ConfKeys ==
    ASSUME TypeOK, confFile # Nil
    PROVE  confFile \in Seq(Key \cup {None})
BY ListsType DEF TypeOK

\* Every step keeps the invariant.
LEMMA StepIInv == IInv /\ [Next]_vars => IInv'
<1> SUFFICES ASSUME IInv, [Next]_vars PROVE IInv'
  OBVIOUS
<1> USE NoDataIsNoKey DEF IInv, TypeOK, HasKey, Saved, outside, Spend
<1>1. CASE AdminEdit
  BY <1>1 DEF AdminEdit
<1>2. ASSUME NEW k \in Key, AgentEdit(k) PROVE IInv'
  BY <1>2 DEF AgentEdit
<1>3. CASE Tick
  BY <1>3 DEF Tick
<1>4. CASE Receive
  BY <1>4 DEF Receive
<1>5. CASE loadConfig
  BY <1>5, DecodedKey DEF loadConfig, Decoded
<1>6. CASE Accepted
  BY <1>6 DEF Accepted
<1>7. CASE Unauthorized
  <2>1. todo' \in Seq(Key \cup {None})
    BY <1>7, ConfKeys DEF Unauthorized
  <2> QED
    BY <1>7, <2>1 DEF Unauthorized
<1>8. CASE Lost
  BY <1>8 DEF Lost, Fault
<1>9. CASE Hang
  BY <1>9 DEF Hang
<1>10. CASE SkipKey
  <2>1. todo' \in Seq(Key \cup {None})
    BY <1>10, TakenKey DEF SkipKey
  <2> QED
    BY <1>10, <2>1 DEF SkipKey
<1>11. CASE UseKey
  <2>1. todo' \in Seq(Key \cup {None}) /\ ApiKey' \in Key
    BY <1>11, TakenKey DEF UseKey
  <2> QED
    BY <1>11, <2>1 DEF UseKey
<1>12. CASE saveConfig
  BY <1>12 DEF saveConfig
<1>13. CASE WriteFile
  BY <1>13 DEF WriteFile
<1>14. CASE NoneWorks
  BY <1>14 DEF NoneWorks
<1>15. CASE reloadConfig
  BY <1>15, DecodedKey DEF reloadConfig, Decoded
<1>16. CASE Restart
  BY <1>16, DecodedKey DEF Restart, Decoded, Fault
<1>17. CASE UNCHANGED vars
  BY <1>17 DEF vars
<1> QED
  BY <1>1, <1>2, <1>3, <1>4, <1>5, <1>6, <1>7, <1>8, <1>9, <1>10, <1>11, <1>12,
     <1>13, <1>14, <1>15, <1>16, <1>17 DEF Next, GetMeshifyConfig

\* Whatever the agent writes and wherever the program is restarted, it never
\* asks with a key that a restart would not know (KeySaved).
THEOREM AlwaysSaved == Spec => []KeySaved
<1>1. IInv => KeySaved
  BY DEF IInv, Saved, KeySaved
<1> QED
  BY <1>1, InitIInv, StepIInv, PTL DEF Spec

\* Every reachable state is well typed.
THEOREM TypeCorrect == Spec => []TypeOK
<1>1. IInv => TypeOK
  BY DEF IInv
<1> QED
  BY <1>1, InitIInv, StepIInv, PTL DEF Spec

----------------------------------------------------------------------------
(* No key is passed over *)

\* Nobody has interfered since the first round.
Undisturbed == edits = 0 /\ left["lost"] = Limit["lost"] /\ ApiKey # None

\* In the loop the key in use has been denied, and of the keys in meshify.conf
\* the server accepts at most it and those still to be looked at.
Denied ==
    pc \in {"loop", "save", "write", "retry"} /\ Undisturbed =>
        /\ pc = "loop" => ApiKey \notin Valid
        /\ confFile # Nil => Range(confFile) \cap Valid \subseteq Range(todo) \cup {ApiKey}

Bounded == left["lost"] <= Limit["lost"]

\* A sequence's first element and the rest are all its elements.
LEMMA RangeTail ==
    ASSUME NEW S, NEW s \in Seq(S), s # <<>>
    PROVE  Range(s) \subseteq {Head(s)} \cup Range(Tail(s))
<1>0. Tail(s) \in Seq(S) /\ DOMAIN s = 1..Len(s) /\ DOMAIN Tail(s) = 1..Len(Tail(s))
  OBVIOUS
<1> SUFFICES ASSUME NEW i \in 1..Len(s) PROVE s[i] = Head(s) \/ \E j \in 1..Len(Tail(s)) : Tail(s)[j] = s[i]
  BY <1>0, Zenon DEF Range
<1>1. CASE i = 1
  BY <1>1
<1>2. CASE i # 1
  <2>1. i - 1 \in 1..Len(Tail(s)) /\ Tail(s)[i - 1] = s[i]
    BY <1>2
  <2> QED
    BY <2>1
<1> QED
  BY <1>1, <1>2

\* The empty sequence has no elements.
LEMMA RangeEmpty == Range(<<>>) = {}
BY DEF Range

\* A step that keeps the round as it is, or ends it.
LEMMA DeniedKept ==
    ASSUME Denied, UNCHANGED <<records, confFile, ApiKey, todo, edits>>,
           left' = left, pc' \in {"loop", "save", "write", "retry"} => pc' = pc
    PROVE  Denied'
BY DEF Denied, Undisturbed, Valid

\* Lost requests are only counted down.
LEMMA StepBounded == IInv /\ Bounded /\ [Next]_vars => Bounded'
<1> SUFFICES ASSUME IInv, Bounded, [Next]_vars PROVE Bounded'
  OBVIOUS
<1>1. left["lost"] \in Nat /\ Limit["lost"] \in Nat
  BY BoundsType DEF IInv, TypeOK, Fault
<1>2. left' = left \/ \E f \in Fault : Spend(f)
  BY DEF Next, GetMeshifyConfig, AdminEdit, AgentEdit, Tick, Receive, loadConfig, Accepted, Unauthorized,
         SkipKey, UseKey, saveConfig, WriteFile, NoneWorks, reloadConfig, Lost, Hang, Restart, vars, Fault
<1> QED
  BY <1>1, <1>2 DEF Bounded, Spend, IInv, TypeOK, Fault

\* Every step keeps the invariant.
LEMMA StepDenied == IInv /\ Bounded /\ Denied /\ [Next]_vars => Denied'
<1> SUFFICES ASSUME IInv, Bounded, Denied, [Next]_vars PROVE Denied'
  OBVIOUS
<1> USE DEF outside
<1>0. /\ TypeOK /\ TypeOK' /\ left["lost"] \in Nat /\ Limit["lost"] \in Nat /\ edits \in Nat
      /\ None \notin Valid
  BY StepIInv, BoundsType DEF IInv, TypeOK, Fault, Valid
<1>1. ASSUME edits' = edits + 1 PROVE Denied'
  BY <1>0, <1>1 DEF Denied, Undisturbed
<1>2. ASSUME pc' \notin {"loop", "save", "write", "retry"} PROVE Denied'
  BY <1>2 DEF Denied
<1>3. CASE AdminEdit \/ \E k \in Key : AgentEdit(k)
  BY <1>1, <1>3 DEF AdminEdit, AgentEdit
<1>4. CASE Tick
  BY <1>4, DeniedKept DEF Tick
<1>5. CASE Receive \/ loadConfig \/ Accepted \/ Hang \/ NoneWorks \/ reloadConfig \/ Restart
  BY <1>2, <1>5 DEF Receive, loadConfig, Accepted, Hang, NoneWorks, reloadConfig, Restart
<1>6. CASE Unauthorized
  BY <1>6 DEF Unauthorized, Denied, Undisturbed, Valid
<1>7. CASE Lost
  <2>1. left'["lost"] < Limit["lost"]
    BY <1>0, <1>7 DEF Lost, Spend, TypeOK, Fault, Bounded
  <2> QED
    BY <1>0, <2>1 DEF Denied, Undisturbed
<1>8. CASE SkipKey
  <2>1. /\ pc = "loop" /\ pc' = "loop" /\ Range(todo) \subseteq {Head(todo)} \cup Range(todo')
        /\ UNCHANGED <<records, confFile, ApiKey, edits, left>>
    BY <1>0, <1>8, RangeTail DEF SkipKey, TypeOK
  <2>2. Head(todo) = None \/ Head(todo) = ApiKey \/ ApiKey = None
    BY <1>8 DEF SkipKey, Skips
  <2>3. Valid' = Valid
    BY <2>1 DEF Valid
  <2> QED
    BY <1>0, <2>1, <2>2, <2>3 DEF Denied, Undisturbed
<1>9. CASE UseKey
  <2>1. /\ pc = "loop" /\ pc' = "save" /\ Range(todo) \subseteq {Head(todo)} \cup Range(todo')
        /\ ApiKey' = Head(todo) /\ UNCHANGED <<records, confFile, edits, left>> /\ ApiKey # None
    BY <1>0, <1>9, RangeTail DEF UseKey, Skips, TypeOK
  <2>2. Valid' = Valid
    BY <2>1 DEF Valid
  <2> QED
    BY <2>1, <2>2 DEF Denied, Undisturbed
<1>10. CASE saveConfig \/ WriteFile
  <2>1. /\ pc \in {"save", "write"} /\ pc' \in {"write", "retry"}
        /\ UNCHANGED <<records, confFile, ApiKey, todo, edits, left>>
    BY <1>10 DEF saveConfig, WriteFile
  <2>2. Valid' = Valid
    BY <2>1 DEF Valid
  <2> QED
    BY <2>1, <2>2 DEF Denied, Undisturbed
<1>11. CASE UNCHANGED vars
  BY <1>11, DeniedKept DEF vars
<1> QED
  BY <1>3, <1>4, <1>5, <1>6, <1>7, <1>8, <1>9, <1>10, <1>11 DEF Next, GetMeshifyConfig

\* The client gives up a round only when the server accepts none of the keys
\* that meshify.conf lists, unless somebody interfered (TriesAllKeys).
THEOREM NoKeyPassedOver == Spec => TriesAllKeys
<1> DEFINE GivesUp == pc = "loop" /\ pc' = "reload" /\ confFile # Nil
           Fine == \/ Range(confFile) \cap Valid = {}
                   \/ edits > 0 \/ left["lost"] < Limit["lost"] \/ ApiKey = None
<1>1. Init => Bounded /\ Denied
  BY BoundsType DEF Init, Bounded, Denied, Fault
<1>2. IInv /\ Bounded /\ Denied /\ [Next]_vars => [GivesUp => Fine]_vars
  <2> SUFFICES ASSUME IInv, Bounded, Denied, [Next]_vars, GivesUp PROVE Fine
    OBVIOUS
  <2> USE DEF outside
  <2>1. NoneWorks
    BY DEF Next, GetMeshifyConfig, AdminEdit, AgentEdit, Tick, Receive, loadConfig, Accepted, Unauthorized,
           SkipKey, UseKey, saveConfig, WriteFile, reloadConfig, Lost, Hang, Restart, vars
  <2>2. todo = <<>>
    BY <2>1 DEF NoneWorks
  <2>3. CASE Undisturbed
    BY <2>2, <2>3, RangeEmpty DEF Denied
  <2>4. CASE ~Undisturbed
    <3>1. edits \in Nat /\ left["lost"] \in Nat /\ Limit["lost"] \in Nat
      BY BoundsType DEF IInv, TypeOK, Fault
    <3> QED
      BY <2>4, <3>1 DEF Undisturbed, Bounded
  <2> QED
    BY <2>3, <2>4
<1> QED
  BY <1>1, <1>2, InitIInv, StepIInv, StepBounded, StepDenied, PTL DEF Spec, TriesAllKeys

=============================================================================
