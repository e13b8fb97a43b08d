-------------------------------- MODULE Poller --------------------------------
(***************************************************************************)
(* Who the client is to the server (client.go: StartChannel, CallMeshify,  *)
(* GetMeshifyConfig; config.go): the API key the program uses, the one in  *)
(* its own configuration file, which the agent also writes, and those that *)
(* meshify.conf lists, which it tries in turn when the server denies it.   *)
(*                                                                         *)
(* The ticker's send waits until the round before it is over.  Over https  *)
(* a request has no timeout once it is connected, and may hang.            *)
(*                                                                         *)
(* What a poll does with the answer is the subject of MeshSync: here a     *)
(* round that succeeds replaces meshify.conf.  The file has the HostID too,*)
(* so a program that has no key yet has no HostID either; the environment  *)
(* and the command line, which may give both, are left out.                *)
(***************************************************************************)
EXTENDS Naturals, Sequences, Functions

CONSTANTS
    Key,        \* API keys
    Lists,      \* what a configuration may list, mesh by mesh
    None,       \* no key; in a list: a mesh without this host
    Nil,        \* an absent file, no edit
    Empty,      \* an empty file
    Limit,      \* how often each fault may happen
    MaxEdits    \* how many changes the administrator and the agent make

Fault == {"lost", "crash"}

ASSUME ListsType == Lists \subseteq Seq(Key \cup {None})
ASSUME NoDataIsNoKey ==
    /\ None \notin Key /\ Nil \notin Key /\ Empty \notin Key
    /\ None # Nil /\ None # Empty /\ Nil # Empty
    /\ Nil \notin Lists
ASSUME BoundsType == Limit \in [Fault -> Nat] /\ MaxEdits \in Nat

VARIABLES
    records,    \* the server's records of this host, by mesh
    agentKey,   \* the key the agent wrote last, Nil before it did
    edits,      \* changes made so far
    left,       \* what is left of Limit
    secure,     \* whether the server is reached over https
    confFile,   \* the keys meshify.conf lists
    file,       \* the key in meshify-client.config.json
    ApiKey,     \* the key in memory
    loaded,     \* config.loaded
    ticker,     \* DoWork's loop: asleep or sending
    pc,         \* where the poller is
    todo        \* the keys of meshify.conf it has still to look at

outside == <<records, agentKey, edits, secure>>
vars == <<outside, left, confFile, file, ApiKey, loaded, ticker, pc, todo>>

Valid == Range(records) \ {None}
Spend(f) == left[f] > 0 /\ left' = [left EXCEPT ![f] = @ - 1]

\* Mutant: a file that cannot be read clears it.
DecodedAnyway(old) == file

\* What decoding the file into config leaves as its key.
Decoded(old) == IF file \in Key THEN file ELSE old

----------------------------------------------------------------------------
(* The server and the agent *)

AdminEdit ==
    /\ edits < MaxEdits
    /\ edits' = edits + 1
    /\ records' \in Lists \ {records}
    /\ UNCHANGED <<agentKey, secure, left, confFile, file, ApiKey, loaded, ticker, pc, todo>>

AgentEdit(k) ==
    /\ edits < MaxEdits
    /\ edits' = edits + 1
    /\ file' = k /\ agentKey' = k
    /\ UNCHANGED <<records, secure, left, confFile, ApiKey, loaded, ticker, pc, todo>>

----------------------------------------------------------------------------
(* The ticker *)

Tick ==
    /\ ticker = "asleep"
    /\ ticker' = "sending"
    /\ UNCHANGED <<outside, left, confFile, file, ApiKey, loaded, pc, todo>>

\* StartChannel takes what is sent when it has nothing else to do.
Receive ==
    /\ ticker = "sending" /\ pc = "wait"
    /\ ticker' = "asleep"
    /\ pc' = IF loaded THEN "call" ELSE "load"
    /\ UNCHANGED <<outside, left, confFile, file, ApiKey, loaded, todo>>

----------------------------------------------------------------------------
(* A round *)

\* A configuration that could not be read before is read when it is there.
loadConfig ==
    /\ pc = "load"
    /\ ApiKey' = Decoded(ApiKey)
    /\ loaded' = (file \in Key)
    /\ pc' = "call"
    /\ UNCHANGED <<outside, left, confFile, file, ticker, todo>>

\* The server knows the key and sends its records.
Accepted ==
    /\ pc \in {"call", "retry"} /\ ApiKey \in Valid
    /\ confFile' = records
    /\ pc' = "wait" /\ todo' = <<>>
    /\ UNCHANGED <<outside, left, file, ApiKey, loaded, ticker>>

\* It does not: the first time, the keys in meshify.conf are tried.
Unauthorized ==
    /\ pc \in {"call", "retry"} /\ ApiKey \notin Valid
    /\ todo' = IF pc = "retry" THEN todo ELSE IF confFile = Nil THEN <<>> ELSE confFile
    /\ pc' = "loop"
    /\ UNCHANGED <<outside, left, confFile, file, ApiKey, loaded, ticker>>

\* No answer: the round is over, or the next key is tried.
Lost ==
    /\ pc \in {"call", "retry"} /\ Spend("lost")
    /\ pc' = IF pc = "retry" THEN "loop" ELSE "wait"
    /\ UNCHANGED <<outside, confFile, file, ApiKey, loaded, ticker, todo>>

\* Mutant: the client for http has no timeout either.
HangAlways ==
    /\ pc \in {"call", "retry"}
    /\ pc' = "hung"
    /\ UNCHANGED <<outside, left, confFile, file, ApiKey, loaded, ticker, todo>>

\* No answer, ever: the client for https times out on connecting only.
Hang ==
    /\ pc \in {"call", "retry"} /\ secure
    /\ pc' = "hung"
    /\ UNCHANGED <<outside, left, confFile, file, ApiKey, loaded, ticker, todo>>

\* A program without HostID finds no record of its own.
Skips(k) == k = None \/ k = ApiKey \/ ApiKey = None

SkipKey ==
    /\ pc = "loop" /\ todo # <<>> /\ Skips(Head(todo))
    /\ todo' = Tail(todo)
    /\ UNCHANGED <<outside, left, confFile, file, ApiKey, loaded, ticker, pc>>

\* Mutant: the key is tried without saving it.
UseKeyUnsaved ==
    /\ pc = "loop" /\ todo # <<>> /\ ~Skips(Head(todo))
    /\ ApiKey' = Head(todo) /\ todo' = Tail(todo)
    /\ pc' = "retry"
    /\ UNCHANGED <<outside, left, confFile, file, loaded, ticker>>

UseKey ==
    /\ pc = "loop" /\ todo # <<>> /\ ~Skips(Head(todo))
    /\ ApiKey' = Head(todo) /\ todo' = Tail(todo)
    /\ pc' = "save"
    /\ UNCHANGED <<outside, left, confFile, file, loaded, ticker>>

\* saveConfig truncates the file ...
saveConfig ==
    /\ pc = "save"
    /\ file' = Empty
    /\ pc' = "write"
    /\ UNCHANGED <<outside, left, confFile, ApiKey, loaded, ticker, todo>>

\* Mutant: the key is saved for the next round.
WriteFileOnly ==
    /\ pc = "write"
    /\ file' = ApiKey
    /\ pc' = "loop"
    /\ UNCHANGED <<outside, left, confFile, ApiKey, loaded, ticker, todo>>

\* ... and writes it, whatever the agent has written meanwhile.
WriteFile ==
    /\ pc = "write"
    /\ file' = ApiKey
    /\ pc' = "retry"
    /\ UNCHANGED <<outside, left, confFile, ApiKey, loaded, ticker, todo>>

\* Mutant: however many meshes there are.
GiveUpAll ==
    /\ pc = "loop" /\ todo = <<>>
    /\ confFile' = Nil
    /\ pc' = "reload"
    /\ UNCHANGED <<outside, left, file, ApiKey, loaded, ticker, todo>>

\* No key worked: the only mesh is given up.
NoneWorks ==
    /\ pc = "loop" /\ todo = <<>>
    /\ confFile' = IF confFile # Nil /\ Len(confFile) = 1 THEN Nil ELSE confFile
    /\ pc' = "reload"
    /\ UNCHANGED <<outside, left, file, ApiKey, loaded, ticker, todo>>

reloadConfig ==
    /\ pc = "reload"
    /\ ApiKey' = Decoded(ApiKey)
    /\ pc' = "wait"
    /\ UNCHANGED <<outside, left, confFile, file, loaded, ticker, todo>>

----------------------------------------------------------------------------
(* Restart *)

\* main loads the configuration if it is there.
Restart ==
    /\ Spend("crash")
    /\ ApiKey' = Decoded(None)
    /\ loaded' = (file \in Key)
    /\ ticker' = "asleep" /\ pc' = "wait" /\ todo' = <<>>
    /\ UNCHANGED <<outside, confFile, file>>

----------------------------------------------------------------------------
(* The specification *)

Init ==
    /\ records \in Lists /\ agentKey = Nil /\ edits = 0 /\ left = Limit
    /\ secure \in BOOLEAN
    /\ confFile \in Lists \cup {Nil}
    /\ file \in Key \cup {Nil}
    /\ ApiKey = Decoded(None) /\ loaded = (file \in Key)
    /\ ticker = "asleep" /\ pc = "wait" /\ todo = <<>>

GetMeshifyConfig ==
    \/ loadConfig \/ Accepted \/ Unauthorized
    \/ SkipKey \/ UseKey \/ saveConfig \/ WriteFile
    \/ NoneWorks \/ reloadConfig

Next ==
    \/ AdminEdit \/ \E k \in Key : AgentEdit(k)
    \/ Tick \/ Receive
    \/ GetMeshifyConfig \/ Lost \/ Hang
    \/ Restart

Spec == Init /\ [][Next]_vars

\* The ticker and the poller run, and a request that does not hang ends.
FairSpec == Spec /\ WF_vars(Tick) /\ WF_vars(Receive) /\ WF_vars(GetMeshifyConfig)

----------------------------------------------------------------------------
(* Properties *)

\* Every variable has its type.
TypeOK ==
    /\ records \in Lists
    /\ agentKey \in Key \cup {Nil}
    /\ edits \in Nat /\ left \in [Fault -> Nat]
    /\ secure \in BOOLEAN /\ loaded \in BOOLEAN
    /\ confFile \in Lists \cup {Nil}
    /\ file \in Key \cup {Nil, Empty}
    /\ ApiKey \in Key \cup {None}
    /\ ticker \in {"asleep", "sending"}
    /\ pc \in {"wait", "load", "call", "loop", "save", "write", "retry", "reload", "hung"}
    /\ todo \in Seq(Key \cup {None})

\* Between rounds and while the server is asked, the file has the key in use or
\* the one the agent has just written, so a restart goes on with one of them:
\* every key is saved before it is tried (client.go:150-153, config.go:39-49).
KeySaved ==
    pc \in {"wait", "call", "retry"} /\ ApiKey # None => file \in {ApiKey, agentKey}

\* The client gives up a round, and with it perhaps its only mesh, only when the
\* server accepts none of the keys that meshify.conf lists - unless a request
\* was lost, an administrator interfered, or the program has no HostID to find
\* its records by.  Nothing is lost by "edits = 0": the first states are all
\* those that edits lead to (client.go:132-166).
TriesAllKeys ==
    [][pc = "loop" /\ pc' = "reload" /\ confFile # Nil
          => \/ Range(confFile) \cap Valid = {}
             \/ edits > 0 \/ left["lost"] < Limit["lost"] \/ ApiKey = None]_vars

\* When meshify.conf lists a key the server accepts, the program gets the new
\* configuration from the next round or a later one, however many keys fail
\* before, whatever requests are lost and wherever it is restarted - unless
\* somebody changes something, a request hangs or a crash left an empty
\* configuration file (client.go:132-165).
FindsKey ==
    \A e \in 0..MaxEdits :
        pc = "wait" /\ edits = e /\ confFile # Nil /\ Range(confFile) \cap Valid # {}
            ~> confFile = records \/ edits # e \/ pc = "hung" \/ ApiKey = None

\* Over http the poller always comes back for the next tick (client.go:50-53,
\* 664-669).
PollsGoOn == ~secure ~> pc = "wait" /\ ticker = "sending"

\* "pick up any changes from the agent or manually editing the config file"
\* (client.go:174): a key that the server accepts and that is written to the
\* configuration file while the program is denied is used in the end.  It is
\* not: when meshify.conf lists another key, saveConfig writes that one over it
\* before reloadConfig reads the file.
EditsArePickedUp ==
    \A k \in Key :
        agentKey = k /\ k \in Valid
            ~> ApiKey \in Valid \/ agentKey # k \/ k \notin Valid \/ pc = "hung"

=============================================================================
