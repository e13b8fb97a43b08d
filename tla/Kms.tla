--------------------------------- MODULE Kms ---------------------------------
(***************************************************************************)
(* The key store at the level of its lock and its file (kms.go).           *)
(*                                                                         *)
(* The map KeyStore is shared by the poller, the refresher and the HTTP    *)
(* handlers; every function takes KeyLock and gives it back on return      *)
(* (defer).  KeySave truncates keys.json, marshals the map and writes it,  *)
(* so that the file is empty meanwhile; opening it may fail and so may     *)
(* writing it, for instance on a full disk.  A crash may come at any time; *)
(* the next start loads the file, and an empty one loads nothing.          *)
(***************************************************************************)
CONSTANTS
    Thread,     \* the goroutines that call the store
    Key,        \* public keys
    Value,      \* private keys
    None,       \* no private key, no thread
    Empty       \* a keys.json that is absent or truncated

VARIABLES
    KeyStore,   \* the map
    KeyLock,    \* the thread that holds the mutex
    file,       \* keys.json: a map, or Empty when absent or truncated
    pc,         \* where each thread is
    asked,      \* the call it has made
    answer,     \* what the function will return
    bytes,      \* what KeySave has marshalled
    before      \* history: the file before KeySave truncated it

vars == <<KeyStore, KeyLock, file, pc, asked, answer, bytes, before>>

Map == [Key -> Value \cup {None}]
Blank == [k \in Key |-> None]

\* Mutant: an empty file leaves no map at all.
LoadNil(f) == f

\* KeyLoad: json.Unmarshal leaves the map as it is when the file is empty.
Load(f) == IF f = Empty THEN Blank ELSE f

\* Only the thread between Open and Write has truncated the file.
Truncated == \E t \in Thread : pc[t] \in {"marshal", "write"}

\* The store as its callers see it: until the save is done, what counts is what
\* the file held before.
Abstract == INSTANCE AtomicStore WITH
    store <- KeyStore,
    disk <- IF Truncated THEN before ELSE Load(file)

NoCall == Abstract!NoCall
Call == Abstract!Call

ASSUME NoneIsNoThread == None \notin Thread
ASSUME AnswersDiffer == None \notin Value \cup {"pending"} /\ "pending" \notin Value
ASSUME EmptyIsNoMap == Empty \notin Map

Goto(t, label) == pc' = [pc EXCEPT ![t] = label]

\* The thread is about to return with this answer.
Done(t, a) ==
    /\ Goto(t, "unlock")
    /\ answer' = [answer EXCEPT ![t] = a]

\* A goroutine calls a function of kms.go.
Ask(t, c) ==
    /\ pc[t] = "idle"
    /\ Goto(t, "lock")
    /\ asked' = [asked EXCEPT ![t] = c]
    /\ UNCHANGED <<KeyStore, KeyLock, file, answer, bytes, before>>

\* Mutant: KeySave does not take the lock.
LockButSave(t) ==
    /\ pc[t] = "lock"
    /\ \/ asked[t].name = "save" /\ UNCHANGED KeyLock
       \/ asked[t].name # "save" /\ KeyLock = None /\ KeyLock' = t
    /\ Goto(t, "body")
    /\ UNCHANGED <<KeyStore, file, asked, answer, bytes, before>>

Lock(t) ==
    /\ pc[t] = "lock" /\ KeyLock = None
    /\ KeyLock' = t
    /\ Goto(t, "body")
    /\ UNCHANGED <<KeyStore, file, asked, answer, bytes, before>>

KeyLookup(t) ==
    /\ pc[t] = "body" /\ asked[t].name = "lookup"
    /\ Done(t, KeyStore[asked[t].key])
    /\ UNCHANGED <<KeyStore, KeyLock, file, asked, bytes, before>>

KeyAdd(t) ==
    /\ pc[t] = "body" /\ asked[t].name = "add"
    /\ KeyStore' = [KeyStore EXCEPT ![asked[t].key] = asked[t].value]
    /\ Done(t, "ok")
    /\ UNCHANGED <<KeyLock, file, asked, bytes, before>>

KeyDelete(t) ==
    /\ pc[t] = "body" /\ asked[t].name = "delete"
    /\ KeyStore' = [KeyStore EXCEPT ![asked[t].key] = None]
    /\ Done(t, "ok")
    /\ UNCHANGED <<KeyLock, file, asked, bytes, before>>

\* KeySave opens the file, which truncates it, ...
Open(t) ==
    /\ pc[t] = "body" /\ asked[t].name = "save"
    /\ file' = Empty
    /\ before' = Load(file)
    /\ Goto(t, "marshal")
    /\ UNCHANGED <<KeyStore, KeyLock, asked, answer, bytes>>

\* Mutant: the early return forgets the lock.
OpenFailsLocked(t) ==
    /\ pc[t] = "body" /\ asked[t].name = "save"
    /\ Goto(t, "idle")
    /\ asked' = [asked EXCEPT ![t] = NoCall]
    /\ UNCHANGED <<KeyStore, KeyLock, file, answer, bytes, before>>

\* ... or cannot open it and returns, ...
OpenFails(t) ==
    /\ pc[t] = "body" /\ asked[t].name = "save"
    /\ Done(t, "error")
    /\ UNCHANGED <<KeyStore, KeyLock, file, asked, bytes, before>>

Marshal(t) ==
    /\ pc[t] = "marshal"
    /\ bytes' = [bytes EXCEPT ![t] = KeyStore]
    /\ Goto(t, "write")
    /\ UNCHANGED <<KeyStore, KeyLock, file, asked, answer, before>>

\* ... and writes the map, or as much of it as the disk takes: half a JSON text
\* is as good as none.
Write(t) ==
    /\ pc[t] = "write"
    /\ \/ file' = bytes[t] /\ Done(t, "ok")
       \/ file' = Empty /\ Done(t, "error")
    /\ bytes' = [bytes EXCEPT ![t] = Blank]
    /\ before' = Blank
    /\ UNCHANGED <<KeyStore, KeyLock, asked>>

\* The function returns.
Unlock(t) ==
    /\ pc[t] = "unlock"
    /\ KeyLock' = None
    /\ Goto(t, "idle")
    /\ asked' = [asked EXCEPT ![t] = NoCall]
    /\ answer' = [answer EXCEPT ![t] = "pending"]
    /\ UNCHANGED <<KeyStore, file, bytes, before>>

\* The process dies and is started again: KeyInitialize, KeyLoad.
Crash ==
    /\ KeyStore' = Load(file)
    /\ KeyLock' = None
    /\ pc' = [t \in Thread |-> "idle"]
    /\ asked' = [t \in Thread |-> NoCall]
    /\ answer' = [t \in Thread |-> "pending"]
    /\ bytes' = [t \in Thread |-> Blank]
    /\ before' = Blank
    /\ UNCHANGED file

Init ==
    /\ file \in Map \cup {Empty} /\ KeyStore = Load(file)
    /\ KeyLock = None
    /\ pc = [t \in Thread |-> "idle"]
    /\ asked = [t \in Thread |-> NoCall]
    /\ answer = [t \in Thread |-> "pending"]
    /\ bytes = [t \in Thread |-> Blank]
    /\ before = Blank

\* What a thread does between its call and its return, once it has the lock.
Body(t) ==
    \/ KeyLookup(t) \/ KeyAdd(t) \/ KeyDelete(t)
    \/ Open(t) \/ OpenFails(t) \/ Marshal(t) \/ Write(t)
    \/ Unlock(t)

Next ==
    \/ \E t \in Thread, c \in Call : Ask(t, c)
    \/ \E t \in Thread : Lock(t) \/ Body(t)
    \/ Crash

Spec == Init /\ [][Next]_vars

\* Goroutines run on, and sync.Mutex lets nobody wait forever.
FairSpec == Spec /\ \A t \in Thread : SF_vars(Lock(t)) /\ WF_vars(Body(t))

----------------------------------------------------------------------------
(* Properties *)

\* Every variable has its type.
TypeOK ==
    /\ KeyStore \in Map
    /\ KeyLock \in Thread \cup {None}
    /\ file \in Map \cup {Empty}
    /\ pc \in [Thread -> {"idle", "lock", "body", "marshal", "write", "unlock"}]
    /\ asked \in [Thread -> Call \cup {NoCall}]
    /\ answer \in [Thread -> Value \cup {None, "pending", "ok", "error"}]
    /\ bytes \in [Thread -> Map]
    /\ before \in Map

\* Whatever the threads do at once, each call of kms.go has its effect at one
\* moment between call and return; a KeySave that returns no error has put the
\* whole map on disk, and only a KeySave that fails or is cut short by a crash
\* can leave keys.json without content (kms.go:46-66).
StoreIsAtomic == Abstract!Spec

\* Every call returns, also when the file cannot be opened or written: no path
\* keeps KeyLock (defer KeyLock.Unlock, kms.go:49).
CallsReturn == \A t \in Thread : pc[t] # "idle" ~> pc[t] = "idle"

----------------------------------------------------------------------------
(* The inductive invariant behind StoreIsAtomic *)

\* A thread in a function body has the lock, an answer is pending until the
\* thread is about to return, a save in the making has truncated the file, and
\* what was marshalled is what the map still is.
Locked ==
    \A t \in Thread :
        /\ pc[t] \in {"body", "marshal", "write", "unlock"} => KeyLock = t
        /\ pc[t] = "idle" <=> asked[t] = NoCall
        /\ pc[t] = "unlock" <=> answer[t] # "pending"
        /\ pc[t] \in {"marshal", "write"} => asked[t].name = "save" /\ file = Empty
        /\ pc[t] = "write" => bytes[t] = KeyStore

IInv == TypeOK /\ Locked

=============================================================================
