------------------------------ MODULE MeshSync ------------------------------
(***************************************************************************)
(* How the client keeps this host's WireGuard meshes equal to what the     *)
(* Meshify server says (client.go, kms.go, http.go, platform_linux.go).    *)
(*                                                                         *)
(* Two goroutines of one process work on the same files.  The POLLER       *)
(* (StartChannel) fetches the configuration every ten seconds, saves it as *)
(* meshify.conf and applies what changed; the REFRESHER                    *)
(* (StartBackgroundRefreshService) applies the saved meshify.conf once an  *)
(* hour.  Both may replace a host's key pair: the private key goes to      *)
(* keys.json, the public key to the server in a PATCH that may get lost.   *)
(* Around them act an administrator at the server, the agent that calls    *)
(* the local HTTP service, and crashes and reboots.                        *)
(*                                                                         *)
(* When the hosts' UPnP flag is on, both loops also start ConfigureUPnP on *)
(* a goroutine of its own for every mesh they begin, with a copy of this   *)
(* host's record.  When the gateway's external address is not the record's *)
(* endpoint, it sends the whole copy to the server - with the public key   *)
(* it had before the loop looked the key up, and whatever has happened     *)
(* since (upnp.go).                                                        *)
(***************************************************************************)
EXTENDS Naturals, FiniteSets

CONSTANTS
    Mesh,       \* names of meshes
    Key,        \* public keys; a private key is named by its public key
    Nil,        \* an absent record, key, ETag, file or interface
    Empty,      \* an empty file
    Joined,     \* the meshes joined at the start, with the key used in each
    Limit,      \* how often each fault or request may happen
    MaxEdits,   \* how many changes the administrator makes
    MaxCopies,  \* how many calls of ConfigureUPnP send a PATCH
    Overlap     \* may a poll and a refresh run at the same time?

Actor == {"poller", "refresher"}
Fault == {"error", "garbled", "denied", "lost", "crash", "reboot",
          "stuck", "noup", "disk", "stop", "handed"}

Pub == Key \cup {Nil}

\* This host's record in one mesh.  id is the record's own identity (a mesh
\* left and joined again has a new one), rev the edit it dates from, on its
\* Enable flag, pub its public key; priv says that the server sends the private
\* key along.
Host == {h \in [id: Nat, rev: Nat, on: BOOLEAN, pub: Pub, priv: BOOLEAN] :
            h.priv => h.pub # Nil}

\* A configuration: the record of this host in every mesh it is a member of.
Message == [Mesh -> Host \cup {Nil}]
NoMesh == [m \in Mesh |-> Nil]

\* A WireGuard configuration: the record it was made from and the private key.
Config == [host: Host, key: Key]

ASSUME NilIsNoKey == Nil \notin Key /\ Nil \notin Mesh
ASSUME NilIsNoData == Nil # Empty /\ Nil \notin Host /\ Nil \notin Message /\ Nil \notin Config
ASSUME EmptyIsNoData == Empty \notin Message /\ Empty \notin Config
ASSUME LimitType == Limit \in [Fault -> Nat]
ASSUME MaxEditsType == MaxEdits \in Nat
ASSUME MaxCopiesType == MaxCopies \in Nat
ASSUME OverlapType == Overlap \in BOOLEAN
ASSUME JoinedType ==
    /\ DOMAIN Joined \subseteq Mesh
    /\ Joined \in [DOMAIN Joined -> Key]
    /\ \A m, n \in DOMAIN Joined : Joined[m] = Joined[n] => m = n

VARIABLES
    server,     \* the server's configuration of this host
    edits,      \* changes the administrator has made
    handed,     \* keys the agent was handed and has not yet used
    left,       \* what is left of Limit
    torn,       \* has a crash cut a KeySave short, or followed one that failed?
    unsaved,    \* has the last KeySave failed?
    etag,       \* the poller's ETag: the configuration it names
    confFile,   \* meshify.conf
    KeyStore,   \* the key store in memory: "none", "blank" or "priv" per key
    keysFile,   \* keys.json
    wgFile,     \* the WireGuard configuration file of each mesh
    wgUp,       \* what each mesh's interface runs
    pc,         \* where each goroutine is
    msg,        \* the configuration it works on
    old,        \* the poller's oldconf
    todo,       \* meshes still to be handled
    cur,        \* the mesh in hand
    key,        \* the key it runs with
    copies,     \* calls of ConfigureUPnP under way: the mesh and the copy of each
    spawned,    \* how many there have been
    stops,      \* stops by the HTTP service that have yet to remove the file
    crossed     \* meshes started during such a stop, and not taken down since:
                \* a history variable, which no action reads

serverVars == <<server, edits, handed>>
diskVars == <<confFile, keysFile, wgFile>>
workVars == <<pc, msg, old, todo, cur, key>>
saveVars == <<torn, unsaved>>
copyVars == <<copies, spawned>>
stopVars == <<stops, crossed>>
asideVars == <<saveVars, copyVars, stopVars>>
vars == <<server, edits, handed, left, torn, unsaved, etag, confFile, KeyStore,
          keysFile, wgFile, wgUp, pc, msg, old, todo, cur, key, copies, spawned,
          stops, crossed>>

----------------------------------------------------------------------------
(* Helpers *)

\* The faults and requests in F happen.
Spend(F) ==
    /\ \A f \in F : left[f] > 0
    /\ left' = [f \in Fault |-> IF f \in F THEN left[f] - 1 ELSE left[f]]

\* Fault f, if it is to happen.
When(fails, f) == IF fails THEN {f} ELSE {}

Members(message) == {m \in Mesh : message[m] # Nil}

\* What json.Unmarshal makes of meshify.conf.
Parsed(file) == IF file \in {Nil, Empty} THEN NoMesh ELSE file

\* DumpWireguardConfig: the template prints nothing for a disabled host.
DumpWireguardConfig(h, k) == IF h.on THEN [host |-> h, key |-> k] ELSE Empty

\* What KeyAdd stores for the key pair of a record.
PrivateKey(h) == IF h.priv THEN "priv" ELSE "blank"

\* Does record h carry public key k, and does any copy of mesh m's record?
Has(h, k) == h # Nil /\ h.pub = k
Carries(m, k) ==
    \/ Has(server[m], k) \/ Has(Parsed(confFile)[m], k) \/ Has(old[m], k)
    \/ \E a \in Actor : Has(msg[a][m], k)
    \/ \E c \in copies : c.mesh = m /\ Has(c.host, k)

\* A new key is in no record, in no hand and in no WireGuard configuration, and
\* no store has its public half alone.
Unused ==
    {k \in Key :
        /\ k \notin handed /\ KeyStore[k] # "blank" /\ keysFile[k] # "blank"
        /\ \A a \in Actor : key[a] # k
        /\ \A m \in Mesh :
              /\ ~Carries(m, k)
              /\ \A t \in {wgFile[m], wgUp[m]} : t \notin {Nil, Empty} => t.key # k}

\* A key pair is generated.  Which key is drawn makes no difference, so one is
\* enough: one that no store remembers, or, when lost PATCHes have left all the
\* others behind in the store, one of those, whose public half nobody has.
Generated(k) ==
    LET Forgotten == {x \in Unused : KeyStore[x] = "none" /\ keysFile[x] = "none"}
    IN  k \in Unused /\ k = CHOOSE x \in (IF Forgotten = {} THEN Unused ELSE Forgotten) : TRUE

\* KeySave writes the whole store under the lock.  Or it fails: the file cannot
\* be opened and stays, or is truncated and written in part, so that nothing in
\* it parses.  No caller looks at its error.
KeySave(store, fails) ==
    /\ keysFile' \in IF fails THEN {keysFile, [p \in Pub |-> "none"]} ELSE {store}
    /\ unsaved' = fails

\* StopWireguard is two steps, and nothing keeps others out in between.  First
\* wg-quick down, which needs the mesh's file and fails without it.  fails is a
\* failure of the command itself: only where there is an interface to take down.
WgQuickDown(m, fails) ==
    /\ fails => wgUp[m] # Nil
    /\ IF fails \/ wgFile[m] = Nil
         THEN UNCHANGED <<wgUp, crossed>>
         ELSE wgUp' = [wgUp EXCEPT ![m] = Nil] /\ crossed' = crossed \ {m}

\* Then the file is removed, whatever has come of it.
RemoveFile(m) == wgFile' = [wgFile EXCEPT ![m] = Nil]

\* wg-quick up runs what the file holds, and fails when the interface exists
\* or the file does not.  fails is any other failure.
StartWireguard(m, fails) ==
    /\ fails => wgUp[m] = Nil /\ wgFile[m] # Nil
    /\ IF fails \/ wgUp[m] # Nil \/ wgFile[m] = Nil
         THEN UNCHANGED <<wgUp, crossed>>
         ELSE /\ wgUp' = [wgUp EXCEPT ![m] = wgFile[m]]
              /\ crossed' = IF \E s \in stops : s.mesh = m THEN crossed \cup {m} ELSE crossed

\* A goroutine may start when the other is between two rounds, or at any time.
MayStart(a) == pc[a] = "idle" /\ (Overlap \/ \A b \in Actor \ {a} : pc[b] \in {"idle", "dead"})

Goto(a, label) == pc' = [pc EXCEPT ![a] = label]

\* Does the server still have the record that h is a copy of?
Current(m, h) == server[m] # Nil /\ server[m].id = h.id

\* The record and the configuration goroutine a is working on.
Rec(a) == msg[a][cur[a]]
Text(a) == DumpWireguardConfig(Rec(a), key[a])

----------------------------------------------------------------------------
(* The server and its administrator *)

\* A membership is added: without a key pair, with a key the agent was handed
\* by keyHandler, or with a key pair of the server's own.
AdminAdd(m) ==
    /\ edits < MaxEdits /\ server[m] = Nil
    /\ edits' = edits + 1
    /\ \E k \in Pub, priv \in BOOLEAN, on \in BOOLEAN :
          /\ \/ k = Nil /\ ~priv
             \/ k \in handed /\ ~priv
             \/ Generated(k) /\ priv
          /\ server' = [server EXCEPT ![m] =
                [id |-> edits', rev |-> edits', on |-> on, pub |-> k, priv |-> priv]]
          /\ handed' = handed \ {k}
    /\ UNCHANGED <<left, asideVars, etag, KeyStore, wgUp, diskVars, workVars>>

AdminEdit(m) ==
    /\ edits < MaxEdits /\ server[m] # Nil
    /\ edits' = edits + 1
    /\ \E on \in BOOLEAN :
          server' = [server EXCEPT ![m].rev = edits', ![m].on = on]
    /\ UNCHANGED <<handed, left, asideVars, etag, KeyStore, wgUp, diskVars, workVars>>

AdminRemove(m) ==
    /\ edits < MaxEdits /\ server[m] # Nil
    /\ edits' = edits + 1
    /\ server' = [server EXCEPT ![m] = Nil]
    /\ UNCHANGED <<handed, left, asideVars, etag, KeyStore, wgUp, diskVars, workVars>>

----------------------------------------------------------------------------
(* The local HTTP service *)

\* Mutant: the pair is kept in memory only.
keyHandlerUnsaved(fails) ==
    /\ ~fails /\ Spend({"handed"})
    /\ \E k \in Key :
          /\ Generated(k)
          /\ KeyStore' = [KeyStore EXCEPT ![k] = "priv"]
          /\ handed' = handed \cup {k}
    /\ UNCHANGED <<server, edits, asideVars, etag, diskVars, wgUp, workVars>>

\* GET /keys/: a new key pair is stored and saved before the agent sees it; the
\* agent gets it even when the save has failed.
keyHandler(fails) ==
    /\ Spend({"handed"} \cup When(fails, "disk"))
    /\ \E k \in Key :
          /\ Generated(k)
          /\ KeyStore' = [KeyStore EXCEPT ![k] = "priv"]
          /\ KeySave(KeyStore', fails)
          /\ handed' = handed \cup {k}
    /\ UNCHANGED <<server, edits, torn, copyVars, stopVars, etag, confFile, wgFile, wgUp, workVars>>

\* DELETE /service/mesh, whether the mesh is up or not: wg-quick down, ...
stopServiceHandler(m, fails) ==
    /\ Spend({"stop"} \cup When(fails, "stuck"))
    /\ WgQuickDown(m, fails)
    /\ stops' = stops \cup {[no |-> left["stop"], mesh |-> m]}
    /\ UNCHANGED <<serverVars, saveVars, copyVars, etag, KeyStore, diskVars, workVars>>

\* ... and the file goes, which may be a new one by now.
stopServiceRemoves(s) ==
    /\ RemoveFile(s.mesh)
    /\ stops' = stops \ {s}
    /\ UNCHANGED <<serverVars, left, saveVars, copyVars, crossed, etag, confFile, KeyStore, keysFile, wgUp, workVars>>

----------------------------------------------------------------------------
(* The poller: one round of StartChannel *)

\* Mutant: the file is truncated before its old content is read.
PollFetchTruncFirst ==
    /\ MayStart("poller") /\ etag # server
    /\ etag' = server
    /\ \/ /\ confFile = server
          /\ UNCHANGED <<confFile, pc, msg, old>>
       \/ /\ confFile # server
          /\ msg' = [msg EXCEPT !["poller"] = server]
          /\ old' = NoMesh
          /\ confFile' = Empty
          /\ Goto("poller", "write")
    /\ UNCHANGED <<serverVars, left, asideVars, KeyStore, keysFile, wgFile, wgUp, todo, cur, key>>

\* 200: the body and its ETag are what the server has now.  When meshify.conf
\* is the body already there is nothing to do; otherwise UpdateMeshifyConfig
\* keeps the old content, truncates the file ...
PollFetch ==
    /\ MayStart("poller") /\ etag # server
    /\ etag' = server
    /\ \/ /\ confFile = server
          /\ UNCHANGED <<confFile, pc, msg, old>>
       \/ /\ confFile # server
          /\ msg' = [msg EXCEPT !["poller"] = server]
          /\ old' = Parsed(confFile)
          /\ confFile' = Empty
          /\ Goto("poller", "write")
    /\ UNCHANGED <<serverVars, left, asideVars, KeyStore, keysFile, wgFile, wgUp, todo, cur, key>>

\* 304: the body is meshify.conf itself, so there is nothing to do; when the
\* file is gone an empty one is created.
PollNotModified ==
    /\ MayStart("poller") /\ etag = server
    /\ confFile' = IF confFile = Nil THEN Empty ELSE confFile
    /\ UNCHANGED <<serverVars, left, asideVars, etag, KeyStore, keysFile, wgFile, wgUp, workVars>>

\* No connection, or a status other than 200, 304 and 401: GetMeshifyConfig
\* returns "", which becomes the ETag.
PollError ==
    /\ MayStart("poller") /\ Spend({"error"})
    /\ etag' = Nil
    /\ UNCHANGED <<serverVars, asideVars, KeyStore, wgUp, diskVars, workVars>>

\* 200 with a body cut short: ReadAll's error is only logged and the ETag kept,
\* and UpdateMeshifyConfig returns because the body does not parse.
PollGarbled ==
    /\ MayStart("poller") /\ etag # server /\ Spend({"garbled"})
    /\ etag' = server
    /\ confFile' = IF confFile = Nil THEN Empty ELSE confFile
    /\ UNCHANGED <<serverVars, asideVars, KeyStore, keysFile, wgFile, wgUp, workVars>>

\* Mutant: a 401 does not reset the ETag.
PollDeniedKeepsEtag ==
    /\ MayStart("poller") /\ Spend({"denied"})
    /\ confFile' = IF Cardinality(Members(Parsed(confFile))) = 1 THEN Nil ELSE confFile
    /\ UNCHANGED <<serverVars, asideVars, etag, KeyStore, keysFile, wgFile, wgUp, workVars>>

\* 401 and no other API key of meshify.conf works: a configuration of exactly
\* one mesh is deleted.
PollDenied ==
    /\ MayStart("poller") /\ Spend({"denied"})
    /\ etag' = Nil
    /\ confFile' = IF Cardinality(Members(Parsed(confFile))) = 1 THEN Nil ELSE confFile
    /\ UNCHANGED <<serverVars, asideVars, KeyStore, keysFile, wgFile, wgUp, workVars>>

\* ... and writes the body.
WriteConf ==
    /\ pc["poller"] = "write"
    /\ confFile' = msg["poller"]
    /\ todo' = [todo EXCEPT !["poller"] = Members(old) \ Members(msg["poller"])]
    /\ Goto("poller", "prune")
    /\ UNCHANGED <<serverVars, left, asideVars, etag, KeyStore, keysFile, wgFile, wgUp, msg, old, cur, key>>

\* A mesh that is no longer in the configuration is taken down, ...
Prune(m, fails) ==
    /\ pc["poller"] = "prune" /\ m \in todo["poller"]
    /\ WgQuickDown(m, fails) /\ Spend(When(fails, "stuck"))
    /\ todo' = [todo EXCEPT !["poller"] = @ \ {m}]
    /\ cur' = [cur EXCEPT !["poller"] = m]
    /\ Goto("poller", "unlink")
    /\ UNCHANGED <<serverVars, saveVars, copyVars, stops, etag, KeyStore, diskVars, msg, old, key>>

\* ... its file removed ...
Unlink ==
    /\ pc["poller"] = "unlink"
    /\ RemoveFile(cur["poller"])
    /\ Goto("poller", "forget")
    /\ UNCHANGED <<serverVars, left, asideVars, etag, confFile, KeyStore, keysFile, wgUp, msg, old, todo, cur, key>>

\* ... and its key deleted.
Forget(fails) ==
    /\ pc["poller"] = "forget"
    /\ KeyStore' = [KeyStore EXCEPT ![old[cur["poller"]].pub] = "none"]
    /\ KeySave(KeyStore', fails) /\ Spend(When(fails, "disk"))
    /\ cur' = [cur EXCEPT !["poller"] = Nil]
    /\ Goto("poller", "prune")
    /\ UNCHANGED <<serverVars, torn, copyVars, stopVars, etag, confFile, wgFile, wgUp, msg, old, todo, key>>

PruneDone ==
    /\ pc["poller"] = "prune" /\ todo["poller"] = {}
    /\ old' = NoMesh
    /\ todo' = [todo EXCEPT !["poller"] = Members(msg["poller"])]
    /\ Goto("poller", "pick")
    /\ UNCHANGED <<serverVars, left, asideVars, etag, KeyStore, wgUp, diskVars, msg, cur, key>>

----------------------------------------------------------------------------
(* The refresher: one round of StartBackgroundRefreshService *)

\* The goroutine returns, for good, when there is no meshify.conf.
RefreshOpen ==
    /\ MayStart("refresher")
    /\ \/ /\ confFile = Nil
          /\ Goto("refresher", "dead")
          /\ UNCHANGED <<msg, todo>>
       \/ /\ confFile # Nil
          /\ msg' = [msg EXCEPT !["refresher"] = Parsed(confFile)]
          /\ todo' = [todo EXCEPT !["refresher"] = Members(Parsed(confFile))]
          /\ Goto("refresher", "pick")
    /\ UNCHANGED <<serverVars, left, asideVars, etag, KeyStore, wgUp, diskVars, old, cur, key>>

----------------------------------------------------------------------------
(* What both goroutines do with each mesh of the configuration *)

\* Check to see if we have the private key: it may be there, be blank, or be
\* missing; then the pair the server sent is added.
KeyLookup(a, m) ==
    /\ pc[a] = "pick" /\ m \in todo[a]
    /\ todo' = [todo EXCEPT ![a] = @ \ {m}]
    /\ cur' = [cur EXCEPT ![a] = m]
    /\ LET h == msg[a][m] IN
          \/ /\ KeyStore[h.pub] = "priv"
             /\ key' = [key EXCEPT ![a] = h.pub]
             /\ Goto(a, "dump")
             /\ UNCHANGED KeyStore
          \/ /\ KeyStore[h.pub] = "blank"
             /\ Goto(a, "regen")
             /\ UNCHANGED <<key, KeyStore>>
          \/ /\ KeyStore[h.pub] = "none"
             /\ KeyStore' = [KeyStore EXCEPT ![h.pub] = PrivateKey(h)]
             /\ Goto(a, "store")
             /\ UNCHANGED key
    /\ UNCHANGED <<serverVars, left, saveVars, stopVars, etag, wgUp, diskVars, msg, old>>

\* A mesh is begun: go ConfigureUPnP(host), then the key.  A call that finds the
\* endpoint right, or no gateway, sends nothing and leaves no trace.
Begin(a, m) ==
    /\ KeyLookup(a, m)
    /\ \/ UNCHANGED <<copies, spawned>>
       \/ /\ spawned < MaxCopies
          /\ spawned' = spawned + 1
          /\ copies' = copies \cup {[no |-> spawned, mesh |-> m, host |-> msg[a][m]]}

\* Mutant: the goroutine gets no copy but the loop's own record, in which the
\* loop has put the key it now runs with.
ConfigureUPnPByReference(c) ==
    /\ copies' = copies \ {c}
    /\ Current(c.mesh, c.host)
    /\ LET Users == {a \in Actor : cur[a] = c.mesh /\ key[a] # Nil}
           pubs == IF Users = {} THEN {c.host.pub} ELSE {key[a] : a \in Users}
       IN  \E p \in pubs :
               server' = [server EXCEPT ![c.mesh].pub = p, ![c.mesh].priv = FALSE]
    /\ UNCHANGED <<left, edits, handed, saveVars, stopVars, etag, KeyStore, wgUp, diskVars, workVars, spawned>>

\* The copy is sent.  The server treats it like any other PATCH: it takes the
\* key pair from it and keeps the rest of its record or takes the copy's.
ConfigureUPnP(c) ==
    /\ copies' = copies \ {c}
    /\ \/ /\ Current(c.mesh, c.host)
          /\ \E h \in {server[c.mesh], c.host} :
                server' = [server EXCEPT ![c.mesh] =
                              [h EXCEPT !.pub = c.host.pub, !.priv = c.host.priv]]
          /\ UNCHANGED left
       \/ /\ ~Current(c.mesh, c.host)
          /\ UNCHANGED <<server, left>>
       \/ /\ Spend({"lost"})
          /\ UNCHANGED server
    /\ UNCHANGED <<edits, handed, saveVars, stopVars, etag, KeyStore, wgUp, diskVars, workVars, spawned>>

\* Mutant: the second lookup does not see that the key is blank.
StoreUsesBlank(a, fails) ==
    /\ pc[a] = "store"
    /\ KeySave(KeyStore, fails) /\ Spend(When(fails, "disk"))
    /\ Goto(a, "dump")
    /\ UNCHANGED <<serverVars, torn, copyVars, stopVars, etag, confFile, KeyStore, wgFile, wgUp, msg, old, todo, cur, key>>

\* The added pair is saved and looked up again.
Store(a, fails) ==
    /\ pc[a] = "store"
    /\ KeySave(KeyStore, fails) /\ Spend(When(fails, "disk"))
    /\ LET pub == Rec(a).pub IN
          \/ /\ KeyStore[pub] = "priv"
             /\ key' = [key EXCEPT ![a] = pub]
             /\ Goto(a, "dump")
          \/ /\ KeyStore[pub] # "priv"
             /\ Goto(a, "regen")
             /\ UNCHANGED key
    /\ UNCHANGED <<serverVars, torn, copyVars, stopVars, etag, confFile, KeyStore, wgFile, wgUp, msg, old, todo, cur>>

\* Mutant: the new pair is published before it is saved.
RegenerateUnsaved(a) ==
    /\ pc[a] = "regen"
    /\ \E k \in Key :
          /\ Generated(k)
          /\ key' = [key EXCEPT ![a] = k]
          /\ KeyStore' = [KeyStore EXCEPT ![Rec(a).pub] = "none", ![k] = "priv"]
    /\ Goto(a, "patch")
    /\ UNCHANGED <<serverVars, left, asideVars, etag, wgUp, diskVars, msg, old, todo, cur>>

\* No private key: the old public key is deleted and a new pair generated, ...
Regenerate(a) ==
    /\ pc[a] = "regen"
    /\ \E k \in Key :
          /\ Generated(k)
          /\ key' = [key EXCEPT ![a] = k]
          /\ KeyStore' = [KeyStore EXCEPT ![Rec(a).pub] = "none", ![k] = "priv"]
    /\ Goto(a, "save")
    /\ UNCHANGED <<serverVars, left, asideVars, etag, wgUp, diskVars, msg, old, todo, cur>>

\* ... saved, ...
Save(a, fails) ==
    /\ pc[a] = "save"
    /\ KeySave(KeyStore, fails) /\ Spend(When(fails, "disk"))
    /\ Goto(a, "patch")
    /\ UNCHANGED <<serverVars, torn, copyVars, stopVars, etag, confFile, KeyStore, wgFile, wgUp, msg, old, todo, cur, key>>

\* Mutant: the record is sent before the new public key is put into it.
UpdateMeshifyHostBefore(a) ==
    /\ pc[a] = "patch"
    /\ server' = IF Current(cur[a], Rec(a))
                   THEN [server EXCEPT ![cur[a]].priv = FALSE] ELSE server
    /\ Goto(a, "dump")
    /\ UNCHANGED <<edits, handed, left, asideVars, etag, KeyStore, wgUp, diskVars, msg, old, todo, cur, key>>

\* ... and the public key published.  The PATCH carries the whole record the
\* client has; the server takes the key from it and either keeps the rest of
\* its own record or takes the client's.  A record that is gone takes nothing,
\* and what the server answers is not looked at.
UpdateMeshifyHost(a) ==
    /\ pc[a] = "patch"
    /\ LET m == cur[a] IN
          \/ /\ Current(m, Rec(a))
             /\ \E h \in {server[m], Rec(a)} :
                   server' = [server EXCEPT ![m] = [h EXCEPT !.pub = key[a], !.priv = FALSE]]
             /\ UNCHANGED left
          \/ /\ ~Current(m, Rec(a))
             /\ UNCHANGED <<server, left>>
          \/ /\ Spend({"lost"})
             /\ UNCHANGED server
    /\ Goto(a, "dump")
    /\ UNCHANGED <<edits, handed, asideVars, etag, KeyStore, wgUp, diskVars, msg, old, todo, cur, key>>

\* The mesh in hand is done.
NextMesh(a) ==
    /\ Goto(a, "pick")
    /\ cur' = [cur EXCEPT ![a] = Nil]
    /\ key' = [key EXCEPT ![a] = Nil]

\* Mutant: the poller skips a mesh that has a file, whatever it holds.
CompareNothing ==
    /\ pc["poller"] = "dump"
    /\ \/ /\ wgFile[cur["poller"]] # Nil
          /\ NextMesh("poller")
       \/ /\ wgFile[cur["poller"]] = Nil
          /\ Goto("poller", "stop")
          /\ UNCHANGED <<cur, key>>
    /\ UNCHANGED <<serverVars, left, asideVars, etag, KeyStore, wgUp, diskVars, msg, old, todo>>

\* The text is made, and the poller skips a mesh whose file is that text.
Compare ==
    /\ pc["poller"] = "dump"
    /\ \/ /\ wgFile[cur["poller"]] = Text("poller")
          /\ NextMesh("poller")
       \/ /\ wgFile[cur["poller"]] # Text("poller")
          /\ Goto("poller", "stop")
          /\ UNCHANGED <<cur, key>>
    /\ UNCHANGED <<serverVars, left, asideVars, etag, KeyStore, wgUp, diskVars, msg, old, todo>>

\* Mutant: the file is rewritten without stopping the mesh.
StopNothing(fails) ==
    /\ pc["poller"] = "stop" /\ ~fails
    /\ Goto("poller", "put")
    /\ UNCHANGED <<serverVars, left, asideVars, etag, KeyStore, wgUp, diskVars, msg, old, todo, cur, key>>

\* The poller stops the mesh before it rewrites the file; the refresher does not.
Stop(fails) ==
    /\ pc["poller"] = "stop"
    /\ WgQuickDown(cur["poller"], fails) /\ Spend(When(fails, "stuck"))
    /\ Goto("poller", "clear")
    /\ UNCHANGED <<serverVars, saveVars, copyVars, stops, etag, KeyStore, diskVars, msg, old, todo, cur, key>>

Clear ==
    /\ pc["poller"] = "clear"
    /\ RemoveFile(cur["poller"])
    /\ Goto("poller", "put")
    /\ UNCHANGED <<serverVars, left, asideVars, etag, confFile, KeyStore, keysFile, wgUp, msg, old, todo, cur, key>>

Put(a) ==
    /\ pc[a] = IF a = "poller" THEN "put" ELSE "dump"
    /\ wgFile' = [wgFile EXCEPT ![cur[a]] = Text(a)]
    /\ Goto(a, "up")
    /\ UNCHANGED <<serverVars, left, asideVars, etag, confFile, KeyStore, keysFile, wgUp, msg, old, todo, cur, key>>

\* An enabled mesh is started, a disabled one stopped (again).
Up(a, fails) ==
    /\ pc[a] = "up"
    /\ \/ /\ Rec(a).on
          /\ StartWireguard(cur[a], fails) /\ Spend(When(fails, "noup"))
          /\ NextMesh(a)
       \/ /\ ~Rec(a).on
          /\ WgQuickDown(cur[a], fails) /\ Spend(When(fails, "stuck"))
          /\ Goto(a, "clean")
          /\ UNCHANGED <<cur, key>>
    /\ UNCHANGED <<serverVars, saveVars, copyVars, stops, etag, KeyStore, diskVars, msg, old, todo>>

\* The second half of that stop.
Clean(a) ==
    /\ pc[a] = "clean"
    /\ RemoveFile(cur[a])
    /\ NextMesh(a)
    /\ UNCHANGED <<serverVars, left, asideVars, etag, confFile, KeyStore, keysFile, wgUp, msg, old, todo>>

EndRound(a) ==
    /\ pc[a] = "pick" /\ todo[a] = {}
    /\ Goto(a, "idle")
    /\ msg' = [msg EXCEPT ![a] = NoMesh]
    /\ UNCHANGED <<serverVars, left, asideVars, etag, KeyStore, wgUp, diskVars, old, todo, cur, key>>

----------------------------------------------------------------------------
(* Crash and reboot *)

\* KeySave truncates keys.json before it writes it; a process that dies in
\* between leaves an empty file.  It can be in KeySave when a goroutine is
\* about to save, or for keyHandler at any time.
Saving == (\E a \in Actor : pc[a] \in {"store", "save", "forget"}) \/ left["handed"] > 0

\* The process ends and is started again (main: KeyInitialize, KeyLoad,
\* DoWork).  Interfaces survive a crash, not a reboot.
Restart(f, cut) ==
    /\ f \in {"crash", "reboot"} /\ Spend({f})
    /\ cut => Saving
    /\ keysFile' = IF cut THEN [p \in Pub |-> "none"] ELSE keysFile
    /\ KeyStore' = keysFile'
    /\ torn' = (torn \/ cut \/ unsaved)
    /\ unsaved' = FALSE
    /\ wgUp' = IF f = "reboot" THEN [m \in Mesh |-> Nil] ELSE wgUp
    /\ etag' = Nil
    /\ pc' = [a \in Actor |-> "idle"]
    /\ msg' = [a \in Actor |-> NoMesh]
    /\ old' = NoMesh
    /\ todo' = [a \in Actor |-> {}]
    /\ cur' = [a \in Actor |-> Nil]
    /\ key' = [a \in Actor |-> Nil]
    /\ copies' = {} /\ stops' = {}
    /\ crossed' = IF f = "reboot" THEN {} ELSE crossed
    /\ UNCHANGED <<serverVars, confFile, wgFile, spawned>>

----------------------------------------------------------------------------
(* The specification *)

\* Either nothing is configured yet, or the client has joined the meshes of
\* Joined and is in step with the server.
Init ==
    LET rec(m) == [id |-> 0, rev |-> 0, on |-> TRUE, pub |-> Joined[m], priv |-> FALSE]
        run(m) == [host |-> rec(m), key |-> Joined[m]]
    IN  /\ server = [m \in Mesh |-> IF m \in DOMAIN Joined THEN rec(m) ELSE Nil]
        /\ edits = 0 /\ handed = {} /\ left = Limit /\ torn = FALSE /\ unsaved = FALSE
        /\ etag = Nil
        /\ confFile = IF DOMAIN Joined = {} THEN Nil ELSE server
        /\ KeyStore = [p \in Pub |-> IF \E m \in DOMAIN Joined : p = Joined[m] THEN "priv" ELSE "none"]
        /\ keysFile = KeyStore
        /\ wgFile = [m \in Mesh |-> IF m \in DOMAIN Joined THEN run(m) ELSE Nil]
        /\ wgUp = wgFile
        /\ pc = [a \in Actor |-> "idle"]
        /\ msg = [a \in Actor |-> NoMesh]
        /\ old = NoMesh
        /\ todo = [a \in Actor |-> {}]
        /\ cur = [a \in Actor |-> Nil]
        /\ key = [a \in Actor |-> Nil]
        /\ copies = {} /\ spawned = 0 /\ stops = {} /\ crossed = {}

Admin == \E m \in Mesh : AdminAdd(m) \/ AdminEdit(m) \/ AdminRemove(m)

HTTP ==
    \/ \E fails \in BOOLEAN :
          keyHandler(fails) \/ \E m \in Mesh : stopServiceHandler(m, fails)
    \/ \E s \in stops : stopServiceRemoves(s)

PollFails == PollError \/ PollGarbled \/ PollDenied

UpdateMeshifyConfig ==
    \/ WriteConf \/ Unlink \/ PruneDone \/ Compare \/ Clear
    \/ \E fails \in BOOLEAN :
          Forget(fails) \/ Stop(fails) \/ \E m \in Mesh : Prune(m, fails)

Apply(a) ==
    \/ Regenerate(a) \/ UpdateMeshifyHost(a) \/ Put(a) \/ Clean(a) \/ EndRound(a)
    \/ \E fails \in BOOLEAN : Store(a, fails) \/ Save(a, fails) \/ Up(a, fails)

Configure(a) == Apply(a) \/ \E m \in Mesh : Begin(a, m)

Next ==
    \/ Admin \/ HTTP
    \/ PollFetch \/ PollNotModified \/ PollFails \/ UpdateMeshifyConfig
    \/ RefreshOpen
    \/ \E a \in Actor : Configure(a)
    \/ \E c \in copies : ConfigureUPnP(c)
    \/ \E f \in Fault, cut \in BOOLEAN : Restart(f, cut)

Spec == Init /\ [][Next]_vars

\* A round that has begun is carried through, a call of ConfigureUPnP and a stop
\* by the HTTP service run to their end, a poll succeeds again and again, and the
\* refresher gets its turn between two polls.
Fairness ==
    /\ WF_vars(UpdateMeshifyConfig)
    /\ \A a \in Actor : WF_vars(Configure(a))
    /\ WF_vars(\E c \in copies : ConfigureUPnP(c))
    /\ WF_vars(\E s \in stops : stopServiceRemoves(s))
    /\ SF_vars(PollFetch) /\ SF_vars(RefreshOpen)

FairSpec == Spec /\ Fairness

----------------------------------------------------------------------------
(* Properties *)

Label == {"idle", "dead", "write", "prune", "unlink", "forget", "pick", "store",
          "regen", "save", "patch", "dump", "stop", "clear", "put", "up", "clean"}

WgText == Config \cup {Nil, Empty}

\* Every variable has its type: what the client's files, its key store and its
\* two goroutines can hold.
TypeOK ==
    /\ server \in Message
    /\ edits \in Nat
    /\ handed \subseteq Key
    /\ left \in [Fault -> Nat]
    /\ torn \in BOOLEAN /\ unsaved \in BOOLEAN
    /\ etag \in Message \cup {Nil}
    /\ confFile \in Message \cup {Nil, Empty}
    /\ KeyStore \in [Pub -> {"none", "blank", "priv"}]
    /\ keysFile \in [Pub -> {"none", "blank", "priv"}]
    /\ wgFile \in [Mesh -> WgText]
    /\ wgUp \in [Mesh -> WgText]
    /\ pc \in [Actor -> Label]
    /\ msg \in [Actor -> Message]
    /\ old \in Message
    /\ todo \in [Actor -> SUBSET Mesh]
    /\ cur \in [Actor -> Mesh \cup {Nil}]
    /\ key \in [Actor -> Pub]
    /\ copies \subseteq [no: Nat, mesh: Mesh, host: Host]
    /\ spawned \in Nat
    /\ stops \subseteq [no: Nat, mesh: Mesh]
    /\ crossed \subseteq Mesh

\* Others know key k as this host's: the server publishes it, and has no private
\* key to go with it.
Published(k) == \E m \in Mesh : Has(server[m], k) /\ ~server[m].priv

\* A public key that the server publishes for this host, and whose private half
\* only the client has, has that private half in the client's memory, and in
\* keys.json as well unless the last KeySave failed: whatever the two
\* goroutines, the agent and the faults do, other members never encrypt to a key
\* this host lost - until a crash cut a KeySave short, or came after one that
\* failed and before the next.  (KeySave before UpdateMeshifyHost,
\* client.go:410-414; KeyDelete only of dead keys; kms.go:55-65.)
PublishedKeyKept ==
    \A k \in Key : Published(k) =>
        torn \/ (KeyStore[k] = "priv" /\ (unsaved \/ keysFile[k] = "priv"))

\* Between two polls, an ETag the poller still sends names the configuration in
\* meshify.conf, so a 304 is right to change nothing - as long as no body was
\* cut short.  (StartChannel and GetMeshifyConfig, client.go:35, 170-190.)
EtagNamesConf ==
    left["garbled"] = Limit["garbled"] /\ pc["poller"] = "idle" /\ etag # Nil
        => confFile = etag

\* The interface of mesh m runs what the server says: the record it has now
\* and that record's key, or nothing.
InSync(m) ==
    wgUp[m] = IF server[m] # Nil /\ server[m].on
                THEN [host |-> server[m], key |-> server[m].pub]
                ELSE Nil

Happened(f) == left[f] < Limit[f]

\* After the last edit and the last fault every interface comes to run what the
\* server says, and stays so: lost PATCHes, failed polls, reboots, failed saves,
\* failed starts and meshes the agent stopped are made good by the two loops
\* (client.go:30-41, 507-625).  The exceptions are an interface that came up
\* while the HTTP service was stopping its mesh, and, once the refresher has
\* ended, what only the refresher would make good; that includes a late copy of
\* ConfigureUPnP by which the server's record becomes meshify.conf's again.
Converges ==
    <>[](\A m \in Mesh :
            \/ InSync(m) \/ m \in crossed
            \/ /\ pc["refresher"] = "dead"
               /\ spawned > 0 \/ \E f \in {"lost", "stop", "noup"} : Happened(f))

\* When the poller skips a mesh because its file is already right, the interface
\* runs that file, or is down after a reboot and still to be started by the
\* refresher - as long as rounds do not overlap, the process has not crashed,
\* wg-quick down has not failed and the mesh was not started while the HTTP
\* service was stopping it (client.go:425, "if it's an exact match, do not
\* bounce").
SkipIsSound ==
    [][pc["poller"] = "dump" /\ pc'["poller"] = "pick"
          => LET m == cur["poller"]
             IN  \/ Overlap \/ Happened("crash") \/ Happened("stuck")
                 \/ m \in crossed \/ wgUp[m] \in {Nil, wgFile[m]}]_vars

\* Between rounds an interface that is up, of a mesh outside of S, is named by
\* meshify.conf.
NoZombieBut(S) ==
    pc["poller"] = "idle" /\ pc["refresher"] \in {"idle", "dead"} /\ confFile \notin {Nil, Empty}
        => \A m \in Mesh \ S : wgUp[m] # Nil => confFile[m] # Nil

\* Between rounds no interface is up that meshify.conf does not name
\* (client.go:330, "delete any meshes that are no longer in the conf").
NoZombieMesh == NoZombieBut({})

\* It is so when rounds do not overlap, until the process has crashed, a 401 has
\* deleted meshify.conf or wg-quick down has failed on an interface it could
\* have taken down, except for meshes started while the HTTP service was
\* stopping them.
NoZombieInTurn ==
    Overlap \/ (\E f \in {"crash", "denied", "stuck"} : Happened(f)) \/ NoZombieBut(crossed)

\* When the poller is done, every interface that is up runs the record that
\* meshify.conf has for its mesh, which is enabled, and with that record's key
\* when the store has it; an old record never lives on, under the same
\* conditions as in SkipIsSound (client.go:330-465).
RunsWhatConfSays ==
    Overlap \/ Happened("crash") \/ Happened("stuck") \/ pc["poller"] # "idle"
    \/ \A m \in Members(Parsed(confFile)) \ crossed :
          LET h == Parsed(confFile)[m]
          IN  wgUp[m] # Nil =>
                  /\ h.on /\ wgUp[m].host = h
                  /\ KeyStore[h.pub] = "priv" => wgUp[m].key = h.pub

----------------------------------------------------------------------------
(* The inductive invariant behind PublishedKeyKept *)

\* Goroutine a is about to save and publish the new key k.
InFlight(a, k) == pc[a] \in {"save", "patch"} /\ key[a] = k

\* A copy h of mesh m's present record would publish k.
Vouches(m, h, k) == h # Nil /\ Current(m, h) /\ h.pub = k /\ ~h.priv

\* The server publishes k, or will when a copy of its record comes back to it.
Publishable(k) ==
    \E m \in Mesh :
        \/ Vouches(m, server[m], k) \/ Vouches(m, Parsed(confFile)[m], k)
        \/ \E a \in Actor : Vouches(m, msg[a][m], k)
        \/ \E c \in copies : c.mesh = m /\ Vouches(m, c.host, k)

\* Losing the private half of k would matter.
Precious(k) == Publishable(k) \/ k \in handed \/ \E a \in Actor : InFlight(a, k)

\* The public half of k is known to others, or about to be.
Shared(k) == Publishable(k) \/ k \in handed \/ \E a \in Actor : pc[a] = "patch" /\ key[a] = k

\* What each program counter says of the goroutine's variables.
Shape ==
    /\ KeyStore[Nil] # "priv" /\ keysFile[Nil] # "priv"
    /\ \A a \in Actor :
          /\ pc[a] \notin {"idle", "dead", "write", "prune", "unlink", "forget"}
                => todo[a] \subseteq Members(msg[a])
          /\ pc[a] \in {"store", "regen", "save", "patch", "dump", "stop", "clear", "put", "up", "clean"}
                => cur[a] \in Members(msg[a])
          /\ pc[a] \in {"save", "patch", "dump", "stop", "clear", "put", "up", "clean"}
                => key[a] \in Key
    /\ pc["poller"] = "prune" => todo["poller"] \subseteq Members(old) \ Members(msg["poller"])
    /\ pc["poller"] \in {"unlink", "forget"} =>
          /\ todo["poller"] \subseteq Members(old) \ Members(msg["poller"])
          /\ cur["poller"] \in Members(old) \ Members(msg["poller"])

\* No record is newer than the last edit: a new record is no copy's.
Aged ==
    \A m \in Mesh :
        LET Past(h) == h # Nil => h.id <= edits
        IN  /\ Past(server[m]) /\ Past(Parsed(confFile)[m])
            /\ \A a \in Actor : Past(msg[a][m])
            /\ \A c \in copies : c.mesh = m => Past(c.host)

\* A key belongs to one mesh, or to the agent, or to one goroutine.
Apart ==
    \A k \in Key :
        /\ \A m, n \in Mesh : Carries(m, k) /\ Carries(n, k) => m = n
        /\ \A m \in Mesh : Carries(m, k) => k \notin handed
        /\ \A m \in Mesh, a \in Actor : Carries(m, k) => ~InFlight(a, k)
        /\ \A a \in Actor : InFlight(a, k) => k \notin handed
        /\ \A a, b \in Actor : InFlight(a, k) /\ InFlight(b, k) => a = b

\* Precious keys are kept, and those that have left the goroutine are on disk or the
\* last save failed.
Kept ==
    \A k \in Key :
        /\ Precious(k) => KeyStore[k] = "priv"
        /\ Shared(k) => unsaved \/ keysFile[k] = "priv"

\* The keys that are about to be deleted are not precious.
Deletable ==
    /\ \A a \in Actor : pc[a] \in {"store", "regen"} => ~(Rec(a).pub \in Key /\ Precious(Rec(a).pub))
    /\ pc["poller"] \in {"write", "prune", "unlink", "forget"} =>
          \A m \in Members(old) \ Members(msg["poller"]) :
              ~(old[m].pub \in Key /\ Precious(old[m].pub))

IInv == TypeOK /\ Shape /\ Aged /\ Apart /\ (torn \/ (Kept /\ Deletable))

\* The invariant behind EtagNamesConf: between truncating and writing
\* meshify.conf the ETag names what is about to be written.
EtagKept ==
    /\ left["garbled"] <= Limit["garbled"]
    /\ left["garbled"] = Limit["garbled"] /\ etag # Nil =>
          IF pc["poller"] = "write" THEN msg["poller"] = etag ELSE confFile = etag

=============================================================================
