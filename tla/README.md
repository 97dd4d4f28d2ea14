# A TLA+ model of fabrica-net

fabrica-net is a Go library for long-lived client/server connections over TCP,
WebSocket and KCP. This directory holds TLA+ modules for its parts, TLC
configurations that check them on small instances, and TLAPS proofs of the results
that hold for every instance. `PROJECT.json` lists the components, the runs, the
source lines behind every definition, and the hazards of the code.

    tlc -workers 2 -config Worker.cfg Worker
    tlapm RingBufferPool_proofs.tla

## The system

A **server** (`internal/server.go`) owns a **listener** of one transport and a number
of accept loops. Each accepted connection gets a goroutine that runs
`BaseServer.work`: it makes a **worker** (`internal/worker.go`), starts it (handshake,
`OnConnected`), registers it in the **worker registry** (`internal/workermanager.go`),
runs its four loops (watch, send, read, tick) and finally deletes and stops it. Pushes
find a worker by user through `uidWidMap`, which all servers of the process share.
A worker has **tunnels** (`internal/tunnel.go`, `tunnelmanager.go`) to back-end
applications, each with two loops, that push back to the client through the worker's
`sendChan`.

A **client** (`internal/client.go`) dials through a **dialer** of its transport, which
returns one or (KCP with smux) several carriers. Each carrier gets a **dialog**
(`internal/dialog.go`): a handshake, then a receiving loop and the application's sends.

Both sides frame packs with a **codec**, whose buffers come from the lock-free
**ring buffer pool** (`internal/ringpool`). The **KCP listener** multiplexes: a goroutine
accepts sessions, a loop per smux session accepts streams, and one channel hands them
to the server's accept loops; the **WebSocket listener** does so from HTTP handlers.
`kcp/util` validates and tunes the KCP parameters. The **examples** (`example/`) are an
echo client and service that use all of it.

Stopping runs through all of this: every part embeds `xsync.Stoppable` of
fabrica-util, which is not part of the repository and is modelled from its use (marked
external): `TurnOff(f)` runs `f` for its first caller only, and whether a later caller
waits for it is left open; `GoAndStop(run, stop)` runs `stop` after `run`; the embedded
`Stop(ctx)` triggers and waits with a timeout; goroutines started by `xsync.Go` and
functions under `xsync.Run` recover panics.

## Modules

| Module | Code | State and actions |
|---|---|---|
| `RingBufferPool` | `ringpool/pool.go` | `head`, `tail`, `slotStates`, the contents of the buffers, `sync.Pool`; one action per atomic operation of `Alloc` and `Free` and per client |
| `BufferLender` | (abstract) | what the pool promises: exclusive, zeroed buffers; `RingBufferPool` implements it |
| `RingBufferPoolStats` | `pool.go`, `Stats`, `available` | a reader that loads one counter at a time beside running clients; words of width `Word` |
| `WorkerManager` | `workermanager.go`, `listener.go` | several servers, the shared `uidWidMap`, per-server buckets and id counters; each map operation of `Put`, `Del`, `GetByUID`, `GetByUIDs` is a step; `Disconnect` runs beside the worker's own `Del` |
| `Registry` | (abstract) | what one server's registry promises: a worker is stored, found by its user until a newer one is, and removed once; `WorkerManager` implements it |
| `ServerPush` | `server.go` `Push`, `Multicast`, `Broadcast` | extends `Registry` with the `sendChan` and the end of every worker; the lookups and the pushes of a call are steps of their own |
| `Worker` | `worker.go`, `server.go` `work` | one worker with its goroutine, its four loops, pushers, its own `Handle` as a pusher, and concurrent stoppers; `sendChan` with its capacity and its closing |
| `WorkerLifecycle` | (abstract) | what the service sees of a connection: handshake, connected, leaving, closed; `Worker` implements it |
| `BaseServer` | `server.go`, `tcp/server/listener.go` | accept loops, connections, the registry, the `Walk` of `Stop`, `Disconnect`; a connection's phases are those of `WorkerLifecycle` |
| `TunnelManager` | `tunnelmanager.go`, `tunnel.go` | the lock and the groups, callers of `Worker.Tunnel` and `Forward`, the loops of each tunnel, the stop of the worker, its `sendChan` and `sendLoop` |
| `PushErrorWindow` | `tunnel.go` `recordPushErr` | a clock, the window and the count, and the errors that really happened |
| `Dialog` | `dialog.go`, `client.go`, `xnet/crypto.go` | the dialog's goroutines, the buffers with a deferred `free`, `receivedPackChan`, the application's reader and sender, callers of `BaseClient.Stop` |
| `ClientDial` | the dialers, `client.go`, `client/option.go` | attempts to start, each with its connection, session and streams; late connections; `d.smux`; dialogs that end by themselves; `Stop` |
| `FrameCodec` | the frame codecs, `multipool.go` | the bytes on the wire as units of a frame, a cut at any unit (TCP, KCP) or a last message (WebSocket), the buffer `Decode` holds, what each ring has lent, and the package's pool, which is nil after a failed initialisation |
| `WebSocketListener` | `websocket/server/listener.go` | handlers, `connChan` and its closing, the two callers of `Stop`, the accept loops |
| `HandOver` | (abstract) | what a listener with a channel promises to the accept loops; both listeners implement it |
| `KcpListener` | `kcp/server/listener.go`, `smux.go` | the accepting goroutine, the session loops, `streamChan`, `smuxSessions`, `Stop`, the accept loops |
| `KcpTuner` | `kcp/util/config.go` | the base and the current configuration, the samples, the time since the last tuning |
| `Echo` | `example/*/client/main.go`, `example/service` | the client's main with its errgroup, `sendEcho` and `recvEcho`, a dialog, a worker and the `EchoTunnel`, with every buffer on the way |

`MC*` modules define values of constants and name symmetries. Modules with
`_proofs` hold theorems; `Tunnel_proofs` is about `TunnelManager` and `PushErrorWindow`,
`Kcp_proofs` about `KcpListener` and `KcpTuner`. As these are extended together, the
specifications of `PushErrorWindow` and `KcpTuner` are named `WindowSpec` and
`TunerSpec`. A definition whose comment begins with "Mutant of" is a
plausible bug in the definition it names: putting it in that definition's place
makes the named property fail (`PROJECT.json`, `mutants`).

The modules compose through abstract specifications. `BaseServer` uses a worker by the
phases of `WorkerLifecycle`, which `Worker` is proved to implement. `ServerPush` extends
`Registry`, which `WorkerManager` is proved to implement when the servers have different
net types. `Dialog` and `FrameCodec` use the pool by what `BufferLender` promises, which
`RingBufferPool` is proved to implement. The listeners repeat the accept loop of
`BaseServer` over their own `Accept`, and both are proved to implement `HandOver`, one
with waiting senders and one with senders that drop. `TunnelManager` holds the parts of
the worker a tunnel can block on. `Echo` joins client, dialog, worker and tunnel; how
each of them stops in detail is left to the module of its own.

## What the runs show

There is one run per part, over every interleaving of its steps; most check safety and
liveness on the same instance, under the fairness below. Every module defines its type
invariant, `TypeOK` (`StatsTypeOK`, `WindowTypeOK`, `TunerTypeOK`), which holds in these instances; those of the pool,
the registry, the server, the pushes, the worker, the tunnels, the listeners and the push
error window are also proved, as part of their inductive invariants. `PushErrorWindow` and `KcpTuner`
have no run: they are sequential, and what matters about them is proved.

- `pool`: no buffer is with two clients, free buffers are zero, clients see the abstract
  lender, and `Available` never wraps below zero. Three clients, two ring buffers: both
  full rings and skipped positions happen.
- `lookup`: a lookup answers only workers of the users and the server asked, and although
  the shared map and the buckets are updated one after the other without a lock, it finds
  every worker that has been its user's current one since the call began. An older
  connection of a user cannot be found by uid, also when the newer one has left. Two
  servers of different net types.
- `push`: a `Push`, `Multicast` or `Broadcast` reaches only whom it is for, and each at
  most once, although workers come, leave and are stopped between its lookups and its
  sends; a call that returns has reached every worker that stayed; every call ends, by a
  panic if a `sendChan` is closed under it, or waits for ever for room in one full
  `sendChan` whose worker nobody stops.
- `worker`: what `Push` accepted is on the wire, with `sendLoop` or in the channel, in
  order, so the peer gets a prefix of it; what is in the channel when `sendLoop` ends is
  never written. Nothing of `Run` outlives `work`; the worker implements `WorkerLifecycle`, in which `OnDisconnect`
  answers `OnConnected` exactly. A stopped worker closes its connection, and ends unless
  its `Handle` does not return. A worker one of whose loops failed ends too, unless its
  `Handle` does not return or is in `Push` on the full `sendChan`.
- `server`: a served connection always has its goroutine, `Stop` leaves no registered
  worker untouched; `Stop` returns, the accept loops end, and whoever was registered is
  closed.
- `tunnel`: one live tunnel per key; `OnStop` once, after both loops; `Worker.Stop`
  returns although tunnels may be blocked on `sendChan`, and every tunnel of a stopped
  worker ends unless its `CSHandle` or `SCHandle` does not return.
- `dialog`: received packs are intact and in order although their buffers are freed; a
  reader that drains the channel has missed at most the pack that `receiveLoop` was
  delivering at the stop; sends after `WaitAuthed` use the session; a stopped dialog ends
  with its goroutines and its reader.
- `dial`: over every dialer, a started client is whole however many attempts failed or
  connected late, and `Stop` closes everything that carried a dialog. (What a failed
  attempt leaves open carried none: `FailedDialCleansUp` below.)
- `codec`: what is decoded is a prefix of what was encoded, wherever the stream is cut or
  the messages end; legal frames arrive if the pool was made; a ring has lent exactly what
  is held.
- `websocket`, `kcp`: both listeners implement `HandOver`: a connection or stream is
  queued once, those that `Accept` takes go to one worker each in the order of queueing,
  and a connection is dropped only for want of room or at the stop (WebSocket). The accept loops end with the server. A KCP stream is served
  while the server runs, and the goroutines of a stopped KCP listener end, but for those
  at their send on the full `streamChan`.
- `echo`: the answers come back in order and, while the worker runs, all of them, through
  buffers smaller than what is sent; after a signal `main` returns if the handshake
  succeeded.

### What the code does not promise

Some comments and documents say more than the code does. The modules state these claims
too, as definitions that no run checks: added to the run's configuration, TLC finds each of
them violated (`CountIsOfLastWindow` with a configuration of its own, as `PushErrorWindow`
has no run).

| Definition | Claim | What happens |
|---|---|---|
| `RingBufferPool!AvailableIsExact` | `pool.go:187` | positions skipped by `Alloc` make `Available` too small for good |
| `RingBufferPoolStats!AvailableWithinRing` | `ringpool/README.md:128` | `Available` may exceed `RingSize` |
| `WorkerManager!UidPutBeforeBucket` | `workermanager.go:11` | the uid is stored after the bucket, not before |
| `WorkerManager!UidDeletedWithWorkers` | `workermanager.go:11` | `Del` deletes a key that `uidWidMap` never has, and the entry stays |
| `Worker!PushNeverPanics`, `TunnelManager!ForwardNeverPanics` | `worker.go:215`, `tunnel.go:139` | a send on a channel that the stop closes after the check |
| `Worker!DrainedAtStop` | `README.md:568` | accepted packs are dropped at the stop |
| `BaseServer!StopEndsService` | `README.md:40` | a connection in its handshake during `Stop` is served on |
| `PushErrorWindow!CountIsOfLastWindow` | `tunnel.go:29` | the count is of a window that restarts, not of the last 10 seconds |
| `FrameCodec!FailedDecodeKeepsNothing` | `tcp/frame/codec.go:94` | a failed `Decode` calls a nil `free` and loses its buffer |
| `FrameCodec!BodyFitsPeer` | `xnet/service.go:10` | `Encode` sends what the peer refuses |
| `FrameCodec!PoolIsMade` | `example/kcp/server/main.go:25` | `InitKcpRingPool` returns nil also when it made no pool, and `Decode` panics |
| `ServerPush!BroadcastNeverPanics` | `server.go:262` | errors are collected and the next worker is tried, but a `sendChan` closed after the check makes the whole call panic |
| `Echo!SignalEndsMain` | `example/tcp/client/main.go:64` | a signal is not enough when the handshake failed: `sendEcho` stays in `WaitAuthed` |
| `Echo!TunnelEnds` | `example/service/tunnel.go:45` | `SCHandle` tests for a closed `scChan`, which nobody closes: `scLoop` outlives its worker |
| `WebSocketListener!StopNeverPanics`, `AcceptReturnsConn` | `internal/listener.go:19,22` | `Stop` closes `connChan` twice; `Accept` takes zero carriers from it |
| `ClientDial!FailedDialCleansUp` | `kcp/client/dialer.go:77` | the deferred cleanup of `Dial` never runs |

`lookup` takes servers of different net types; with two servers of one net type
(`NetType <- SameNets`) ids repeat, and `LookupAnswersOwner` fails.

### Bounds

Every bound is a constant. Channels have capacity 1 (full and empty both occur after one
send); a second sender is enough for a blocked one beside a running one. Those of the
listeners have capacity 2, with a third connection or stream (`TwoAndOne`: sessions of two
and of one stream), so that the order in the queue counts while a sender waits or drops.
The client of `Echo` sends twelve echoes through buffers of one, more than all buffers and
loops on the way hold together. Two stoppers, two senders (a pusher and the worker's own
`Handle`), two or three connections and two calls of `Worker.Tunnel` give every pair of
roles that can race; a third client of the pool makes an Alloc meet a slot whose Free is
not finished while the ring is full. There is one accept loop where a second only repeats
the first, two in the listeners, whose order they could disturb, and no symmetry where
liveness is checked. `MaxAllocs`, `MaxPushes`, `MaxPacks`, `MaxFrames`, `MaxStarts` and
`MaxOthers` cap what would count
without end; the mutants of each run are caught within them. `FrameCodec` has lengths 0,
at, between and above the ring sizes and `MaxPackSize`, in three packs: a buffer is
returned and lent again. Its rings may be emptied by other connections at any time, so that
`Alloc` answers a fallback buffer. `UserMaps` of `ServerPush` has two workers of one user and of
two. Deadlock checking is off where the bounded environment may stop acting, so a stop in
the middle is looked for with the liveness properties instead.

### Fairness

Weak fairness of each goroutine's own steps, and no more: Go's scheduler runs every
runnable goroutine. That a blocked sender, a `select` or a `sync.RWMutex` is fair among
unendingly many competitors is not needed, as the bounds leave finitely many of them.
Timeouts that the code sets (deadlines, `StopTimeout`, the stopper of a tunnel) pass in
the end. In `Echo` the worker's request-idle timeout passes for a client that sends
nothing more, and the write timeout for one that does not read; both may also pass earlier.
In `ServerPush` a call goes on and a stop that has begun closes the `sendChan`; nothing is
assumed of `sendLoop`, which may never make room, nor that a worker whose loop ended is
stopped. Applications owe nothing: `Handle`, `CSHandle` and `SCHandle` may never return,
and the properties say what follows. No fairness is assumed of what the environment may or may not do: peers,
applications calling `Push`, `Stop` or `Disconnect`, and failures.

## What is proved

For every value of the constants that meets the modules' assumptions:

- `RingBufferPool_proofs`. `OwnershipInv` is inductive: besides exclusive ownership it
  says which clients have a ring slot at each program counter (`SlotsMatchOwners`), that
  free buffers are zero and that a pooled fallback buffer is with nobody, without which
  the swap of the slot says nothing about the buffer. From it follow `TypeOK`,
  `ExclusiveOwnership`, `SlotsMatchOwners` and `FreeBuffersZeroed`. `PositionInv` adds
  that the clients inside the ring are at most `head - tail` and that a local copy of
  `head` is not past the ring; it gives `PositionsBounded`. `Refinement` shows step by
  step that the pool implements `BufferLender`. Assumed: a power-of-two capacity (checked
  by `NewRingBufferPool`) and finitely many clients, each of which frees only what it
  holds. `Stats` only reads, so the pool's invariants hold beside it; as `tail` only
  grows, the head it loaded first is never more than a ring above the tail it loads second
  (`NeverWraps`).
- `WorkerManager_proofs`. `LookupInv` says that ids in use are unique in the process,
  buckets map ids to the workers that bear them, the entry of a user in `uidWidMap` was
  given to a worker of that user, and the ids collected by a running lookup belong to
  users it asks for. It is inductive when the servers have different net types, and
  implies `LookupAnswersOwner`. The instance `SameNets` shows that the assumption is
  needed. `CurrentInv` adds that the maps hold the entries of every worker that is its
  user's current one, and that one a running lookup owes is still to be loaded, among its
  ids or among its answers; it gives `LookupFinds` (`LookupComplete`). `RegistryRefinement`: under `LookupInv`, each step of a `Put` or a `Del` on one
  of the maps is a step of `Registry` or none. The `Del` of a worker that `Disconnect` has
  deleted finds an id that no other worker bears, so it is none.
- `BaseServer_proofs`. `ServerInv` says that nobody but its own goroutine knows a
  connection before it is registered (`AcceptInv`, `KickInv`), that Stop waits for a
  worker it was the first to stop until that one is closed (`ClosingInv`), and that
  whoever was registered at the beginning of the Walk is still to be found, waited for, or
  out (`WalkInv`); the lemma `OutStays` is the heart of it. It gives `ServedHasGoroutine`
  and `StopReachesRegistered`.
- `ServerPush_proofs`. `PushInv` says of each call where a worker is on its way from
  `uidWidMap` through the bucket to the push, that it is in one place only (`LookupInv`,
  `RangeInv`; at most one worker for `Push`, `SingleInv`), and that one which is owed the
  pack is on that way or has it (`OwedInv`). It gives `OnlyAddressees` and
  `ReturnedHasReached` over a `Registry`, which the maps are by `RegistryRefinement`.
- `Worker_proofs`. `WorkerInv` ties the program counter of `work` to the goroutines of
  `Run` that exist (`RunInv`), the progress of the one `stop` to what the service was told
  and whether the connection is open (`StopInv`), and the accepted packs to the wire,
  `sendLoop` and `sendChan` (`FlowInv`); `PushInv` bounds what each pusher has sent. It is
  inductive for any pushers, stoppers and channel size, and gives `AcceptedInOrder` and
  `NothingLeftRunning`. `LifecycleRefinement` shows that every step is one of
  `WorkerLifecycle` or leaves its state alone.
- `Tunnel_proofs`, the manager. `TunnelInv` says who is inside the lock (`LockInv`), that the
  tunnel of a group was made for its key and is the only live one of it (`GroupInv`,
  `OneTunnelPerKey`), that a caller about to make a tunnel holds the lock while its key
  has no live one (`MakeInv`), and that `TurnOff` follows both loops (`LoopInv`). It gives
  `OneTunnelPerKey` and `OnStopAfterLoops` for any number of calls, keys and tunnels.
- `Tunnel_proofs`, the push error window. The count is that of the errors since the window began or the
  last success (`WindowInv`); so a tunnel is given up only for more errors than the limit
  in one window without a success between (`OverloadIsEarned`), and surely once there are
  more than twice as many within a window's length (`PersistentErrorsEnd`).
- `WebSocketListener_proofs`. `ListenerInv` says that a connection in `connChan` has been
  queued by its handler, is there once and has not been handed out, and that only queued
  ones are ever handed out: without it the head of the channel might be served already.
  `ListenerHandsOver` shows from it that every step is one of `HandOver` or leaves its
  state alone.
- `Kcp_proofs`, the listener. The same for streams between the session loops, `streamChan`
  and the accept loops, with and without smux, for any sessions, streams and capacity; there
  the sender waits and nothing is dropped.
- `Kcp_proofs`, the tuner. The current configuration is always valid and near the base one, for
  any valid base configurations and any measurements, because every tuning starts from the
  base.

Only model-checked: all liveness (the prover has no fairness) and the safety of `Dialog`, `ClientDial`, `FrameCodec` and `Echo`.

## Not modelled

- Sessions and cryptography, beyond what a dialog tells apart (a session that is set or
  not, a copy or the buffer itself): a record with accessors, and calls of libraries.
- `Read` and `Write` of the WebSocket adapter, which nothing in the repository calls; its
  `NextReader`, `NextWriter` and `Close` are in `FrameCodec`.
- The helpers that set a deadline when a context ends (`internal/util`): the `Accept` or
  read that then fails is a step of the module that waits in it.
- Statistics of the KCP codec, options, inspectors, configuration defaults, constructors,
  the health endpoint, address helpers, messages, and the `main` of the example servers,
  which calls `Start` and `Stop` of `BaseServer`: no behaviour, or no state.

Time is modelled only where a decision depends on it (`PushErrorWindow`, `KcpTuner`,
timeouts as steps that may happen).

## Plan

What remains are proofs of results that are so far only model-checked: `ReceivedIntact`
for `Dialog`, `DecodedIsPrefix` for `FrameCodec` and `StopClosesServing` for `ClientDial`.
