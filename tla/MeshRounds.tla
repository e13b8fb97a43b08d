------------------------------ MODULE MeshRounds ------------------------------
(***************************************************************************)
(* The inductive invariants behind MeshSync's properties of rounds that    *)
(* take turns: NoZombieInTurn and SkipIsSound.                             *)
(***************************************************************************)
EXTENDS MeshSync

Active(a) == pc[a] \notin {"idle", "dead"}

\* Goroutine a has chosen the key of the mesh in hand.
Keyed(a) == pc[a] \in {"save", "patch", "dump", "stop", "clear", "put", "up", "clean"}

\* No fault is made up for, and what the two goroutines work on is meshify.conf:
\* the poller's file has just been written by it, the refresher's is the
\* poller's, as the two do not run at the same time.
Turns ==
    /\ \A f \in Fault : left[f] <= Limit[f]
    /\ pc["poller"] # "dead"
    /\ pc["poller"] = "write" => confFile = Empty
    /\ pc["poller"] \notin {"idle", "write"} => confFile = msg["poller"]
    /\ ~Overlap =>
          /\ ~(Active("poller") /\ Active("refresher"))
          /\ Active("refresher") => msg["refresher"] = Parsed(confFile)

\* An interface can be taken down: it has a file, unless it was started during
\* a stop.  And between the two steps of a stop it is down, with the same
\* exception.
Backed ==
    /\ \A m \in Mesh \ crossed : wgUp[m] # Nil => wgFile[m] # Nil
    /\ \A s \in stops : wgUp[s.mesh] # Nil => s.mesh \in crossed
    /\ \A a \in Actor : pc[a] \in {"unlink", "clear", "clean"} /\ cur[a] \in Mesh \ crossed
                            => wgUp[cur[a]] = Nil

----------------------------------------------------------------------------
(* No interface is up that the configuration does not name *)

\* The meshes that the configuration names, or the poller is going to prune.
Expected ==
    CASE pc["poller"] = "write" -> Members(old)
      [] pc["poller"] \in {"prune", "unlink", "forget"} -> Members(msg["poller"]) \cup todo["poller"]
      [] OTHER -> Members(Parsed(confFile))

NoStray == \A m \in Mesh \ crossed : wgUp[m] # Nil => m \in Expected

ZombieInv ==
    /\ Turns
    /\ Overlap \/ Happened("stuck") \/ Backed
    /\ Overlap \/ (\E f \in {"crash", "denied", "stuck"} : Happened(f)) \/ NoStray

----------------------------------------------------------------------------
(* A file that is right is what its interface runs *)

\* Some copy of some record that the goroutines may come to work on has public
\* key k, with a private key or without.
Sent(k, priv) ==
    LET Is(h) == h # Nil /\ h.pub = k /\ h.priv = priv
    IN  \E m \in Mesh :
            \/ Is(server[m]) \/ Is(Parsed(confFile)[m])
            \/ \E a \in Actor : Is(msg[a][m])
            \/ \E c \in copies : c.mesh = m /\ Is(c.host)

\* The server sends a private key always or never, and the store is not without
\* one that it sends.
Kinds ==
    \A k \in Key :
        Sent(k, TRUE) => ~Sent(k, FALSE) /\ KeyStore[k] # "blank" /\ keysFile[k] # "blank"

\* A goroutine works with the record's own key exactly when the store has its
\* private half; the key that it otherwise generates is in no file.
Chosen ==
    \A a \in Actor :
        /\ pc[a] = "store" => (Rec(a).priv => KeyStore[Rec(a).pub] = "priv")
        /\ pc[a] = "regen" => KeyStore[Rec(a).pub] # "priv" /\ ~Rec(a).priv
        /\ Keyed(a) =>
              IF key[a] = Rec(a).pub THEN KeyStore[Rec(a).pub] = "priv"
              ELSE KeyStore[Rec(a).pub] # "priv" /\ ~Rec(a).priv
        /\ a = "poller" /\ pc[a] \in {"save", "patch", "dump"} /\ key[a] # Rec(a).pub =>
              LET t == wgFile[cur[a]] IN t \notin {Nil, Empty} => t.key # key[a]

\* A goroutine about to start an interface has put its text into the file; the
\* poller has taken the interface down before.
Placed ==
    /\ \A a \in Actor : pc[a] = "up" => wgFile[cur[a]] \in {Nil, Text(a)}
    /\ pc["poller"] \in {"put", "up"} =>
          wgUp[cur["poller"]] = Nil \/ cur["poller"] \in crossed

\* The meshes that the poller has not yet brought in line with meshify.conf.
Pending ==
    CASE pc["poller"] = "idle" -> {}
      [] pc["poller"] \in {"write", "prune", "unlink", "forget"} -> Mesh
      [] pc["poller"] = "pick" -> todo["poller"]
      [] OTHER -> todo["poller"] \cup {cur["poller"]}

\* The interface of any other mesh runs the record in meshify.conf, with that
\* record's key or with a new one when the store does not have the private half.
Applied ==
    \A m \in Members(Parsed(confFile)) \ (Pending \cup crossed) :
        LET h == Parsed(confFile)[m]
            t == wgUp[m]
        IN  t # Nil => /\ h.on /\ t # Empty /\ t.host = h
                       /\ t.key # h.pub => KeyStore[h.pub] # "priv" /\ ~h.priv

\* No interface runs an empty file, and a file differs from what its interface
\* runs only where the refresher has written a new key into it: then the key is
\* not that of its record.
Matched ==
    \A m \in Mesh \ crossed :
        /\ wgUp[m] # Empty
        /\ wgUp[m] \notin {Nil, wgFile[m]} =>
              wgFile[m] \notin {Nil, Empty} /\ wgFile[m].host.pub # wgFile[m].key

InStep == Chosen /\ Placed /\ Applied /\ Matched

SkipInv ==
    /\ Turns /\ Kinds
    /\ Overlap \/ Happened("stuck") \/ Backed
    /\ Overlap \/ Happened("crash") \/ Happened("stuck") \/ InStep

=============================================================================
