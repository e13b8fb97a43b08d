----------------------------- MODULE AtomicStore -----------------------------
(***************************************************************************)
(* What the key store (kms.go) promises its callers, as if every call were *)
(* done at one moment: a lookup answers what the store holds, an add and a *)
(* delete change it, a save copies all of it to the disk.  A save may fail *)
(* and then leaves the disk as it was or blank.  A crash loses what was    *)
(* not saved, and may catch a pending save and leave the disk blank.       *)
(*                                                                         *)
(* MeshSync uses the store in this form; Kms implements it.                *)
(***************************************************************************)
CONSTANTS
    Thread,     \* the goroutines that call the store
    Key,        \* public keys
    Value,      \* private keys
    None        \* no private key, no answer

VARIABLES
    store,      \* the private key of each public key
    disk,       \* what a restart would load
    asked,      \* the call each thread has made
    answer      \* and its answer

vars == <<store, disk, asked, answer>>

Map == [Key -> Value \cup {None}]
Blank == [k \in Key |-> None]

NoCall == [name |-> "none", key |-> None, value |-> None]
Call ==
    [name: {"lookup", "delete"}, key: Key, value: {None}]
        \cup [name: {"add"}, key: Key, value: Value]
        \cup {[name |-> "save", key |-> None, value |-> None]}

Init ==
    /\ store \in Map /\ disk = store
    /\ asked = [t \in Thread |-> NoCall]
    /\ answer = [t \in Thread |-> "pending"]

Ask(t, c) ==
    /\ asked[t] = NoCall
    /\ asked' = [asked EXCEPT ![t] = c]
    /\ UNCHANGED <<store, disk, answer>>

Answer(t, name, a) ==
    /\ asked[t].name = name /\ answer[t] = "pending"
    /\ answer' = [answer EXCEPT ![t] = a]
    /\ UNCHANGED asked

Lookup(t) == Answer(t, "lookup", store[asked[t].key]) /\ UNCHANGED <<store, disk>>

Add(t) ==
    /\ Answer(t, "add", "ok")
    /\ store' = [store EXCEPT ![asked[t].key] = asked[t].value]
    /\ UNCHANGED disk

Delete(t) ==
    /\ Answer(t, "delete", "ok")
    /\ store' = [store EXCEPT ![asked[t].key] = None]
    /\ UNCHANGED disk

Save(t) ==
    /\ \/ Answer(t, "save", "ok") /\ disk' = store
       \/ Answer(t, "save", "error") /\ disk' \in {disk, Blank}
    /\ UNCHANGED store

Return(t) ==
    /\ answer[t] # "pending"
    /\ asked' = [asked EXCEPT ![t] = NoCall]
    /\ answer' = [answer EXCEPT ![t] = "pending"]
    /\ UNCHANGED <<store, disk>>

Crash ==
    /\ \/ disk' = disk
       \/ disk' = Blank /\ \E t \in Thread : asked[t].name = "save" /\ answer[t] = "pending"
    /\ store' = disk'
    /\ asked' = [t \in Thread |-> NoCall]
    /\ answer' = [t \in Thread |-> "pending"]

Next ==
    \/ \E t \in Thread, c \in Call : Ask(t, c)
    \/ \E t \in Thread : Lookup(t) \/ Add(t) \/ Delete(t) \/ Save(t) \/ Return(t)
    \/ Crash

Spec == Init /\ [][Next]_vars

=============================================================================
