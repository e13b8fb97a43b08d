# A TLA+ model of meshify-client

meshify-client runs on a host, asks the Meshify server every ten seconds which
WireGuard meshes the host belongs to, and keeps the host's WireGuard interfaces,
key pairs, DNS names, port mappings and relay containers accordingly. This
directory holds TLA+ modules of it, the TLC configurations that check them, and
proofs for TLAPS.

Run `tlc -config MeshSync_overlap.cfg MCMeshSync` (and so on, section 3) to
check a run, and `tlapm MeshSyncProofs.tla`, `MeshRoundsProofs.tla`,
`ServiceHostProofs.tla`, `KmsProofs.tla`, `DnsProofs.tla`, `PollerProofs.tla`,
`WinServiceProofs.tla` to check the proofs.

## 1. Inventory

| Component | Source | State | Operations | Module |
|---|---|---|---|---|
| Poller | `client.go` 24-189, 259-478 | ETag, `meshify.conf`, API key | poll (200, 304, 401, error), apply a configuration, try other API keys | `MeshSync`, `Poller` |
| Refresher | `client.go` 505-626 | none of its own | apply `meshify.conf` at the start and every hour | `MeshSync` |
| Key store | `kms.go` | `KeyStore` under `KeyLock`, `keys.json` | lookup, add, delete, save, load | `Kms`, `AtomicStore`, `MeshSync` |
| Local HTTP service | `http.go` | none of its own | stats, new key pair, stop a mesh | `MeshSync` |
| Service host | `servicehost.go` | ETag, `meshify-service-host.conf`, containers | poll, start, check and kill containers, start all at boot | `ServiceHost` |
| Commands | `platform_linux.go` | interfaces, WireGuard files, containers | `wg-quick up/down`, `docker run/ls/kill` | `MeshSync`, `ServiceHost` |
| WireGuard text | `template.go` | none | record and key to text | `MeshSync` |
| DNS | `dns.go` | `DnsTable`, `ServerTable` with a lock each | build at start, update, answer queries | `Dns` |
| UPnP | `upnp.go` | port mappings on a gateway | map a port, PATCH the endpoint | `MeshSync` |
| Program configuration | `config.go` | the global `config`, its file | load, reload, save | `Poller` |
| Process | `main.go`, `client.go` 628-674, `servicehost.go` 370-413 | two tickers | start everything, tick | `Poller`, fairness elsewhere |
| Windows service | `service.go`, `platform_windows.go` 114-159, `wgconfig.go` | service registry, event log sources | install, remove, start, stop, pause, continue | `WinService` |
| macOS | `platform_darwin.go` | - | does not compile | - |

How they interact. The tickers send on an unbuffered channel and so drive the
poller and the service host one round at a time. Poller and refresher do not
know of each other: they share `meshify.conf`, the key store, `keys.json`, the
WireGuard files and the interfaces, and only the key store has a lock (around
each single operation). HTTP handlers run on goroutines of their own against the
same key store and interfaces. Both loops start `ConfigureUPnP` on a goroutine
for each mesh. All of them write to the server by PATCH, through
`UpdateMeshifyHost` and `UpdateMeshifyServiceHost`, which return nil whatever
happens. `UpdateDNS` is called by the poller, `StartDNS` at the start and by the
refresher for each mesh; the DNS servers read the tables meanwhile. On Windows
the whole client is a service that other processes, one per command, install,
remove and control.

What is hard. Two goroutines that may both regenerate a key; a key that must be
on disk before it is published and deleted only when nobody needs it; a PATCH
that sends an old copy; configurations compared with what is on disk, so that
anything that did not reach the disk is forgotten; PATCHes whose loss nobody
notices; files truncated before they are written; bodies cut short; crashes
between saving a configuration and applying it; tables rebuilt while others fill
them; registries changed one after the other. `PROJECT.json` lists the hazards
line by line.

What makes it correct. Published keys are kept; the interfaces come to be what
the server says and stay so; a mesh that is left is down; a 304 hides nothing;
the key store is as good as atomic; names are served, and old ones go; an API
key that works is found; services that are assigned run, and containers no
longer assigned do not; containers still assigned are never killed; what is
installed can be removed and installed again.

## 2. Modules

### MeshSync: poller, refresher, key store, HTTP service, UPnP PATCHes

One step is what a goroutine does between two points where another goroutine, a
crash or the server can get in: one file write, one key-store operation, one
command, one request. `pc` says where each goroutine is.

| Variable | Code |
|---|---|
| `server` | the server's answer: this host's record in each mesh (`model.Message`) |
| `etag`, `confFile` | `etag` of `StartChannel`, `meshify.conf` |
| `KeyStore`, `keysFile` | `KeyStore`, `keys.json` |
| `wgFile`, `wgUp` | `<mesh>.conf` in the WireGuard directory, what the interface runs |
| `msg`, `old`, `todo`, `cur`, `key` | the local variables of the two loops |
| `handed` | public keys that `GET /keys/` has given out |
| `copies`, `spawned` | the calls of `ConfigureUPnP` under way, each with its copy of the record; how many there have been |
| `stops` | HTTP requests between the two steps of their `StopWireguard` |
| `unsaved`, `torn` | whether the last `KeySave` failed; whether a crash cut one short or followed one that failed |
| `crossed` | meshes that were started during a stop by the HTTP service: history, read by no action |
| `left`, `edits` | bounds |

A host record is reduced to its identity, the edit it dates from, the Enable
flag, the public key, and whether the server sends a private key along. All the
rest of a record is text that changes with the edit. An ETag is the
configuration it names. A private key is named by its public key, so the store
says "priv", "blank" or "none" for each.

Actions follow the code's order: `PollFetch` (fetch, compare, keep the old
content, truncate), `WriteConf`, `Prune`, `Unlink`, `Forget` per mesh that left,
`PruneDone`, then per mesh `Begin` (with `KeyLookup`), `Store`, `Regenerate`,
`Save`, `UpdateMeshifyHost`, `Compare`, `Stop`, `Clear`, `Put`, `Up` (and
`Clean` for a disabled host), and `EndRound`. The refresher enters at
`RefreshOpen` and shares the steps from `Begin` on, except that it neither
compares nor stops.

`StopWireguard` is two steps wherever it is called: `WgQuickDown`, which needs
the mesh's file, and `RemoveFile`, which comes whatever `wg-quick down` has
done. Nothing keeps another goroutine out in between: `stopServiceHandler` and
`stopServiceRemoves` are one HTTP request, whether the mesh is up or not, and
any step of a round may come between them. A stop of the poller or the refresher
is `Prune` and `Unlink`, `Stop` and `Clear`, `Up` and `Clean`.

`KeySave` may fail: the file cannot be opened and stays as it was, or it is
truncated and written in part, so that nothing in it parses. No caller looks at
the error, so the caller's next step is the same either way: a new public key is
published, a new pair handed out. `wg-quick down` and `wg-quick up` may fail by
themselves too (`stuck`, `noup`), besides failing where a file is missing or an
interface exists.

A few steps are merged, which no other party can see apart. Fetching a
configuration and truncating `meshify.conf`: in between, the poller holds a body
that nobody else can see. Successive operations on one key - `KeyLookup` and
`KeyAdd`, `KeyDelete` and `KeyAdd`, `KeyDelete` or `KeyAdd` and the `KeySave`
after it: in between, only the entry of a key differs that the other goroutine
treats alike or does not touch, and that nobody else has yet or any more.
Reading a WireGuard file and comparing it with the text: the file is looked at
once.

Where a loop begins a mesh, `Begin` may leave a copy of the host's record with a
call of `ConfigureUPnP`, which sends it to the server some time later, with the
public key it had then. A call that finds the endpoint right or no gateway sends
nothing and leaves no trace. A host behind two gateways of different addresses
sends a second PATCH of the same copy; that is left out, and so are the port
mappings.

A new key pair (`Generated`) is one that no record, copy, hand, file or
interface has, with its public half alone in no store. Which one is drawn makes
no difference, so the model draws one: one that the store does not know, as long
as there is any, otherwise one that lost PATCHes have left behind in it.

`MeshRounds` extends MeshSync with the invariants (section 4) behind its
properties of rounds that take turns.

### Kms and AtomicStore: the key store

`Kms` has one step per statement of `kms.go` that another thread or a crash can
notice: a call (`Ask`), `Lock`, the body, `Unlock`; `KeySave` is `Open`
(truncates), `Marshal`, `Write`. Opening and writing may fail at any time, and a
crash may come at any time. Private keys are "priv" or "blank" elsewhere; here
they are members of `Value`. `AtomicStore` is what the callers rely on: each call
takes effect at one moment, and a save replaces the disk or, when it fails or is
caught by a crash, may leave it blank. MeshSync uses the store in that form: its
`KeySave` fails in the same two ways (fault `disk`).
`Kms!Abstract` is the refinement mapping: while a save has the file truncated,
the abstract disk is still what the file held before (`before`).

### Dns: names, tables and locks

The poller (`PollFetch`, `WriteConf`, `UpdateTable`, `UpdateServers`) against two
goroutines that run `StartDNS` (`Reset`, `Read`, `LockServers`, `LockTable`,
`Fill` per mesh, `Filled`): the one started by `DoWork` and the refresher. A
table entry is a name and an address. A configuration says of each mesh which
entries it serves, that this host is not in it (`NoHost`), or that there is no
such mesh. A query that meets a write may end the process, which is one of the
crashes.

### Poller: API keys, the configuration file and the ticker

`ApiKey` is `config.ApiKey`, `file` the key in `meshify-client.config.json`,
`confFile` the keys that `meshify.conf` lists. A round is `loadConfig` when
needed, then a request: `Accepted`, `Unauthorized`, `Lost` (no answer) or `Hang`
(over https only, where `http.Client` has no timeout). After a 401 the keys of
`meshify.conf` are tried: `SkipKey`, `UseKey`, `saveConfig`, `WriteFile` and the
request again; when none works `NoneWorks` and `reloadConfig`. `Tick` and
`Receive` are the ticker's unbuffered channel. A configuration file without
content has neither HostID nor key, so one value stands for both.

### ServiceHost: containers of relay services

A service's record is its `ContainerId`: none, "" or an id. Docker publishes a
service's port, so a second `docker run` for it fails while a container holds
the port; `running` therefore holds at most one container per service, and the
ports of two services differ. The text of the configuration is not modelled:
`same` and `etag` say whether the client's file and its ETag are the version
the server has, because the server stamps every change (the `Updated` field that
the WireGuard text prints, too).

Actions: `Poll` or `PollCut`, `Write`, then per service `CheckService`,
`StartService`, `UpdateMeshifyServiceHost`, then `ServicesDone`, `StopService`
per container that is gone from the configuration, `EndRound`. `Restart` goes
to `StartContainers`, which is the same loop on the file, with `booting` set: a
failed start is then not reported. `hasty` remembers that a service was removed
while the client was still announcing a container.

### WinService: the client as a Windows service

`services`, `marked` and `sources` are Windows' registries: a service that is
deleted is only marked as long as somebody has it open or it runs. A command is
`Begin`, `Open`, its own steps and `Close`: `Create`, `AddSource`, `Undo` for
`install` and `makemesh`, `Delete`, `RemoveSource` for `remove` and
`removemesh`, `startService`, `controlService` and `Wait`. `state`, `request`
and `exec` are the service itself (`Execute`). An event log source has the name
of the mesh, not of its service, so a mesh called "meshify" shares one with the
client. Two history variables, read by no action, say what the properties
exempt. `failed`: a fault killed a command half-way, or made Windows refuse the
removal of a source that is there or the undo of an install; nothing in the code
makes that good. `overtaken`: the sources that a removal found missing. Without
any fault this happens when `remove` comes between `Create` and `AddSource` of
another console's `install`: the service is deleted, `eventlog.Remove` fails, and
the install then adds a source whose service goes with the last handle.

### MC modules and proofs

`MCMeshSync`, `MCDns`, `MCPoller`, `MCServiceHost` give the
constants their values for TLC; `Kms` and `WinService` need no such module.
`*Proofs` hold the proofs.

## 3. Runs

| Run | Question | Bounds | Result |
|---|---|---|---|
| `MeshSync_overlap` | can the two goroutines lose a published key? | 1 mesh, 5 keys, 2 edits, 1 lost PATCH, 1 failing `KeySave`, rounds overlap freely | types hold, no key lost (1.5 million states) |
| `MeshSync_faults` | do failed polls hide a change, or skipped meshes, or does an old record live on? | 2 meshes, 5 keys, 1 edit, one each of lost PATCH, error, cut body, 401, stuck `wg-quick down`, failed `wg-quick up`, stop by the agent, rounds in turn | `EtagNamesConf`, `RunsWhatConfSays`, `SkipIsSound` hold (1.45 million) |
| `MeshSync_converges` | do the interfaces come to be right? | 1 mesh, 8 keys, 2 edits, one each of lost PATCH, reboot, stop by the agent, failed `wg-quick up`, rounds in turn | `Converges`, `NoZombieInTurn` hold (415 000) |
| `MeshSync_join` | also on a fresh install, with a handed-out key and an old copy of the record under way? | 1 mesh, none joined, 8 keys, 2 edits, 1 handed key, 1 lost PATCH, 1 UPnP PATCH, rounds in turn | `Converges`, `PublishedKeyKept` hold, with the exceptions they name (466 000) |
| `MeshSync_zombie` | is a removed mesh down when rounds overlap? | 1 mesh, no faults, 1 edit | `NoZombieMesh` is violated |
| `ServiceHost_faults` | do services run, are containers killed or left over? | 2 services, 6 ids, 3 edits, one each of failed start, failed check, lost PATCH, cut body, crash, reboot | `NoOrphanIfPatient`, `ServicesRun`, `KillsOnlyRemoved` hold (1.5 million) |
| `ServiceHost_orphan` | are containers left over without any fault? | 2 services, 3 edits, no faults | `NoOrphan` is violated |
| `Kms_locks` | is the key store as good as atomic? | 3 threads, 2 keys, 1 private key, any number of calls, failures and crashes | `StoreIsAtomic`, `CallsReturn` hold |
| `Dns_names` | are all names served, and only those? | 2 meshes that share a name, 3 configurations, 2 edits, 1 crash, 1 denial | `NamesServed`, `StaleNamesGo`, `CallsReturn` hold |
| `Poller_keys` | is a working key found, and kept, and none passed over? | 3 keys, 4 lists, 2 edits, 2 lost answers, 1 crash | `KeySaved`, `TriesAllKeys`, `FindsKey`, `PollsGoOn` hold (134 000) |
| `Poller_edit` | is an edited configuration file picked up? | the same with 1 edit and no faults | `EditsArePickedUp` is violated |
| `WinService_commands` | do services and sources match, do commands end? | 2 consoles, the client and 2 meshes (one of its name), 3 commands, 1 fault | `NoStraySource`, `NoHalfInstall`, `StopsWhenTold`, `CommandsEnd` hold (122 000) |

Why the bounds are enough. Two edits give every order of join, change and
leave of a mesh; with two meshes one can be pruned while another is applied. A
key pair costs one key, and a key that no record, goroutine or file remembers is
drawn again, so the keys never run out (TLC reports no deadlock; a `Regenerate`
without a key to draw would be one). One fault of a kind is the case in which
the code has to recover; two lost PATCHes in a row only repeat the refresher's
retry. In Poller a list has at most three entries and two answers can be lost in
one round. In WinService two consoles meet in every pair of steps and a third
command sees what they left; its invariant was checked once as well with three
consoles, one mesh, four commands and one fault (3.0 million states).
`MaxEdits`, `MaxCopies`, `MaxCommands`, `MaxFaults`, `Limit`, `Key` and `Cid` are
the only bounds.

What the bounds leave out: in `ServiceHost_faults` no start fails at boot, no
report of a failed start is lost and no kill fails (with two services and these
three the instance is too large; they are exceptions of the properties anyway).
Each run of MeshSync has the faults of its question only. Other combinations, too
many for runs of their own, were checked once with the same definitions, all on
one mesh with two edits and rounds in turn: `PublishedKeyKept` with a handed
key, a failing `KeySave` and a crash (488 000 states); `PublishedKeyKept` and
`Converges` with a UPnP PATCH, a failing `KeySave` and a reboot (237 000), and on
a fresh install with a handed key, a failing `KeySave` and a UPnP PATCH
(684 000); `Converges` on a fresh install with a lost PATCH, a stop by the agent
and a failed start (211 000). No run has crashes or UPnP PATCHes together with
overlapping rounds, nor UPnP PATCHes with two meshes: that no combination loses a
published key is proved (`KeyKept`), as are the safety properties of rounds in
turn. `Converges` is checked for one mesh.

"Rounds in turn" (`Overlap = FALSE`) is the usual timing: the refresher runs at
the start and once an hour, a round takes seconds. It is used where the property
is about a single goroutine's logic; safety of keys is checked for every overlap.

Runs of Dns, Poller and WinService have `CHECK_DEADLOCK FALSE`: when the edits
are used up, the poller hangs or no more commands are given, these systems have
nothing left to do.

Fairness. A round that has begun goes on, and so do a call of `ConfigureUPnP`
and a stop by the HTTP service (weak fairness: goroutines are scheduled,
commands return). A poll succeeds again and again, and the refresher
gets its turn between polls (strong fairness: a poll comes every ten seconds,
the refresher every hour, and either can be kept from starting only while the
other runs). A mutex lets nobody wait forever (strong fairness of taking a lock
in Kms and Dns: `sync.Mutex` is starvation-free), and a goroutine that waits for
`meshify.conf`, looking once a second, sees it when it keeps coming back. In
Poller an answer comes unless the request hangs. Nothing is assumed of the
administrator, the agent, consoles or faults; `Begin` of a command needs no
fairness, and `AutoStart` none.

### What the runs show about the code

* `MeshSync_zombie`. The refresher works on the `meshify.conf` it read. When the
  administrator removes the mesh and a poll prunes it in the meantime, the
  refresher writes the WireGuard file again and starts the interface, and no
  later round takes it down.
* `ServiceHost_orphan`. A container is found for removal only by an id in the
  configuration on disk. A service removed before its id has come back keeps
  its container. `NoOrphanIfPatient` says exactly when this cannot happen.
* `Poller_edit`. The comment at `client.go` 174 promises that an edited
  configuration file is picked up after a 401. By then `saveConfig` has written
  each key of `meshify.conf` over it.

Two more show in what the properties of the passing runs have to exempt:

* The agent's stop is `wg-quick down` and, later, the removal of the file
  (`platform_linux.go` 65, 73), without a lock. When a round writes the file and
  starts the mesh in between, the interface is up without its file, and
  `wg-quick down` fails for good: the administrator removes the mesh, the poller
  prunes it, and the interface stays. It needs no fault and no overlap of rounds:
  `NoZombieMesh` in place of `NoZombieInTurn` is violated with one mesh, one stop
  and one edit.
* `StartBackgroundRefreshService` returns when there is no `meshify.conf`
  (`client.go` 512), as at the start of a fresh install, although the comment at
  `client.go` 623 says that it runs every hour. Until the next restart nobody
  makes good a lost PATCH, a start that failed or a stop by the agent.

Exempt by name, because the code does not recover from them:

* an interface that came up while the HTTP service was stopping its mesh
  (`crossed`: `NoZombieInTurn`, `RunsWhatConfSays`, `SkipIsSound`, `Converges`);
* a crash that cuts a `KeySave` short, or that follows one that failed and comes
  before the next (`torn`: `PublishedKeyKept`). In between, the keys are in
  memory only (`unsaved`), and the property says that they are there;
* a `wg-quick down` that fails by itself (`stuck`), and a crash between writing
  and applying `meshify.conf`, after which the old interface stays
  (`NoZombieInTurn`, `RunsWhatConfSays`, `SkipIsSound`; `Converges` uses a reboot
  instead, and no stuck command);
* a 401 with one mesh: the file goes, the interface stays (`NoZombieInTurn`);
* a refresher that has ended: a lost PATCH, a start that failed and a stop by
  the agent are made good by nobody else, and after a late UPnP PATCH the
  server's record may be meshify.conf's again while the poller has nothing to
  apply (`Converges`, checked on a fresh install by `MeshSync_join`;
  `StaleNamesGo`);
* a body cut short: the ETag is kept, the update lost until the next change
  (`EtagNamesConf`), and for services all containers are killed
  (`KillsOnlyRemoved`);
* a container start that fails at boot, a lost report of a failed start
  (`ServicesRun`);
* a mesh without this host (`NamesServed`);
* a request that hangs over https (`PollsGoOn`), and a configuration file that a
  crash left empty (`FindsKey`);
* a Windows command that a fault killed or refused half-way (`failed`), and a
  source that a removal found missing (`overtaken`): `NoStraySource` says nothing
  of what a `remove` that overtakes an `install` leaves behind, which is a stray
  source.

## 4. Proofs

All theorems hold for any values of the constants that satisfy the modules'
named assumptions: the absent values are none of the data, `Joined` gives
different meshes different keys, bounds are numbers.

`MeshSyncProofs`, for any set of meshes and keys, any bounds and any overlap of
the goroutines and the calls of `ConfigureUPnP`:

* `TypeCorrect`: `Spec => [](TypeOK /\ Shape)`. `Shape` says which variables
  each program counter keeps in use: the mesh in hand is one of the message, a
  goroutine past `Regenerate` has a key, the meshes to be pruned are those of
  `old` that `msg` lacks, and the store never holds a private key for the empty
  public key.
* `Inductive`: `Spec => []IInv`.
* `KeyKept`: `Spec => []PublishedKeyKept`.
* `EtagHonest`: `Spec => []EtagNamesConf`.

`PublishedKeyKept` is not inductive. A published key is safe in `keys.json`
only because (`Kept`) it is in `KeyStore` too, as the next `KeySave` replaces
the whole file; after a `KeySave` that failed it is safe in `KeyStore` alone,
and every key that has left its goroutine is, which is why the next one that
succeeds repairs the file. It is safe in `KeyStore` because (`Deletable`) no goroutine holds it as a key to delete;
and because a key that is generated, handed out or on its way to the server is
already kept. `Deletable` in turn holds because (`Apart`) a key belongs to one
mesh, or the agent, or one goroutine: a new key is drawn unused, and records
only move between copies of one mesh. A PATCH by `ConfigureUPnP` may publish a
key again that the server has given up, so what is kept is every key that some
copy of a present record (`Vouches`) could publish, not only those that are
published (`Publishable`). A record that was removed vouches for nothing, as a
mesh joined again gets a new record: no copy is newer than the last edit
(`Aged`). A crash that cuts `KeySave` short or follows one that failed ends all
this, hence `torn`.
`EtagNamesConf` speaks of the time between rounds; its invariant `EtagKept` says
what holds between truncating and writing `meshify.conf`: the ETag names what is
about to be written.

`MeshRoundsProofs`, for the same constants, about rounds in turn (each formula
has `Overlap`, and the faults the code does not recover from, as its
exceptions):

* `ZombieInductive`, `NoZombie`: `Spec => []ZombieInv`, `Spec => []NoZombieInTurn`.
* `SkipInductive`, `UpToDate`, `SkipsAreSound`: `Spec => []SkipInv`,
  `Spec => []RunsWhatConfSays`, `Spec => SkipIsSound`.

`NoZombieInTurn` looks at the time between rounds. Within a round, `NoStray`
says that every interface that is up is named by the configuration or still to
be pruned. Pruning it works because (`Backed`) an interface has its WireGuard
file, without which `wg-quick down` fails. A stop removes that file in a step of
its own, so `Backed` also says that between the two steps of a stop, the HTTP
service's or a round's, the interface is down. A start in the middle of the HTTP
service's stop breaks this; such a mesh is `crossed` until it has been taken
down, and all these formulas are about the others. Two rounds cannot do it to
each other, as they take turns. Starting an interface is right because (`Turns`)
the goroutine in a round works on what meshify.conf holds.

`SkipIsSound` compares a file with its interface at the moment of a skip, but
file and interface are not always equal: when a PATCH was lost, the refresher
generates another key and writes it into the file of an interface that runs.
`InStep` says what is true instead. A file that differs from its interface
holds a key that is not its record's own (`Matched`), and a goroutine works with
the record's own key exactly when the store has its private half (`Chosen`).
So the text the poller compares is not that file: either it has the record's own
key, or a key just generated, which is in no file. `Applied` says that each
mesh the poller has dealt with runs its record in meshify.conf, which is
`RunsWhatConfSays` between rounds, and `Placed` ties the file, the interface and
the program counter together in the steps before. `Kinds` is needed because a
record whose private key the server sends must never be found blank, which would
make the client replace that key.

`ServiceHostProofs` proves `TypeCorrect`, and `NoNamedKill`:
`Spec => KillsOnlyRemoved`. Its invariant `OldIsGone` says that a container of
the old configuration is either in the new one, so that it is not up for
removal, or named by no record any more. It can be so at the moment of the poll
only because the configuration is then the server's, and it stays so because the
only ids the client writes to the server are those of containers just started,
which no configuration holds.

It also proves `PatientNoOrphan`: `Spec => []NoOrphanIfPatient`. The invariant
`OrphanInv` follows a container from `docker run` to `docker kill`: as long as it
runs it can be found (`Traced`), because the server names it, or it is about to
be announced, or the configuration on disk, which the next round takes for the
old one, has it, or the present round will kill it. A container must not be found
under two services, or removing one would kill the other's (`OneService`), and
`Copied` says how the file, the ETag and the round belong together. Patience
enters in `Fresh`: a service that the round has not yet dealt with has the
record at the server that the round began with, so the PATCH with its new
container id finds it.

`KmsProofs` proves `Atomic`: `Spec => StoreIsAtomic`, the refinement. Its
invariant `Locked` says that a thread inside a function holds the lock, so that
at most one has truncated the file, and that what it marshalled is what the map
still is. Each step of `Kms` is then a step of `AtomicStore` or none: the body
of a lookup, add or delete, the `Write` or `OpenFails` of a save, and a crash.

`DnsProofs` proves `AllNamesServed`: `Spec => []NamesServed`. Its invariant
`Covered` says that, unless the poller is about to replace the table, each name
of `meshify.conf` that the table lacks will be added by a call of `StartDNS`:
one that has yet to read the file, or that read this very file. A `Reset` keeps
it because the goroutine that empties the table reads the file afterwards.

`PollerProofs` proves `AlwaysSaved`: `Spec => []KeySaved`, strengthened to all
points but the two inside `saveConfig`, where there is a key to write; and
`NoKeyPassedOver`: `Spec => TriesAllKeys`, by the invariant `Denied`: until
somebody interferes, the only keys of `meshify.conf` that the server may accept
are the one in use, which at the head of the loop has been denied, and those
still to be looked at.

`WinServiceProofs` proves `SourcesHaveServices` and `ServicesHaveSources`, under
the assumption that no mesh is called like the client's service. Its invariant
matches services and sources one to one, except for those that a console is in
the middle of and for sources in `overtaken` (`Fresh`, `Matched`): a console
that is about to add its source may find its service marked already, but then
the console that marked it has yet to look for the source, or has missed it. With a mesh of that name two services share
one source and the invariant fails, while TLC finds that the two properties
still hold of the instance above.

`KmsProofs`, `DnsProofs`, `PollerProofs` and `WinServiceProofs` also prove
`TypeCorrect`: `Spec => []TypeOK`.

Every invariant and action property of a passing run is thus a theorem. Before
they were proved, the inductive invariants were checked by TLC on instances like
those of the runs. `IInv`, `EtagKept`, `ZombieInv` and `SkipInv` of the mesh
modules were checked together on one mesh with two edits, with a stuck
`wg-quick down`, two stops, a failed start and a lost PATCH (388 000 states) and
with a stop, a crash, a 401 and a cut body (983 000), and on two meshes with two
edits, a stop and a failed start (565 000).

Only model-checked: liveness (`Converges`, `ServicesRun`, `StaleNamesGo`,
`FindsKey`, `PollsGoOn`, `CallsReturn`, `StopsWhenTold`, `CommandsEnd`), which is
out of the provers' reach. `NoStraySource` and `NoHalfInstall` are proved for
meshes that are not called like the client's service; with such a mesh they are
only checked.

## 5. Assumptions

* The server sends only meshes this host is in, and its configuration is a
  function of the host's records. A PATCH replaces the public key; for the rest
  the server keeps its own fields or takes the client's, and stamps the record
  (`Updated`), so that the configuration changes. Unknown ids are ignored. The
  server is modelled from how the client uses it.
* `wg-quick up` fails when the interface exists; `wg-quick down` fails without
  its file. Interfaces and containers survive the client, not the machine.
* Windows refuses a source that exists, the removal of one that does not, a
  second deletion, and a control request to a service that does not run.

## 6. Not modelled

* `AllowedIPs` (`client.go` 371-386): a loop over one record's data without any
  shared state; records are single values here.
* Reverse lookups and the listeners of `StartDNS`; `ServerTable` (nobody reads
  it); the multicast message about each query.
* The port mappings of `upnp.go`, which nothing in the program depends on.
* Configuration parameters other than HostID and API key, the environment, the
  command line.
* `Interrogate` and `debug` on Windows, and the tunnels that the poller has
  wireguard.exe install there; the characters a tunnel name may have.
* Failing disks outside the key store (the writes of `meshify.conf` and of the
  WireGuard files), WireGuard files torn by a crash.
* Containers that exit by themselves: `servicehost.go` looks at a container only
  when the configuration changes, so nothing restarts one sooner.
* Wording of files, logs and statistics; `GetStats`.
* macOS: `platform_darwin.go` does not compile (`Startireguard`, undeclared
  `out`, `model` not imported).
* Packaging.

## 7. Plan

Done: all modules above and their proofs. Left:

1. `NoStraySource` and `NoHalfInstall` for a mesh that is called like the
   client's service: the invariant has to let two services share one source.
2. A safety half of `Converges`: an interface that runs an old record or an old
   key always has a PATCH, a poll or a refresh ahead of it that replaces it.
3. A safety half of `ServicesRun`: a service without a container is always one
   that the next round looks at.
