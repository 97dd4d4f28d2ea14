-------------------------------- MODULE Echo --------------------------------
(***************************************************************************)
(* The example applications end to end: a client (example/tcp/client/main.go, *)
(* example/kcp/client/main.go) sends numbered echoes on one dialog, the       *)
(* worker's read loop forwards them to the EchoTunnel of                      *)
(* example/service/tunnel.go, whose two loops answer them, and the answers    *)
(* come back through the worker's send loop, the connection and the dialog's  *)
(* receive loop to recvEcho.                                                  *)
(*                                                                          *)
(* A pack is its index; 0 is the handshake pack and its answer.  Every buffer *)
(* on the way (socket buffers and channels) holds Cap packs.  How a worker,   *)
(* its tunnels and a dialog stop is modelled step by step in Worker,          *)
(* TunnelManager and Dialog; here a worker is ending from TurnOff on and      *)
(* closed once it closed its connection.                                      *)
(***************************************************************************)
EXTENDS Naturals, Sequences

CONSTANTS
  N,     \* echoes sendEcho sends (10 over TCP and WebSocket, 20 over KCP)
  Cap    \* capacity of every buffer

VARIABLES
  kind,    \* whose main runs: "tcp" (WebSocket's is the same) or "kcp"
  q,       \* the buffers on the way, in the order of Buffers
  hand,    \* per loop: the packs it took and did not pass on yet, at most one
  got,     \* the echoes recvEcho has logged
  sent,    \* the echoes sendEcho has sent while the worker ran
  dialog,  \* "start", "handshake", "run" or "ended"
  authed,  \* the dialog's authed channel is closed
  worker,  \* "handshake", "run", "ending" or "closed"
  failed,  \* the worker ended with echoes on the way, or not for an idle client
  tunnel,  \* the tunnel's scLoop: "none", "runs", "refused" (Push errs) or "ended"
  go,      \* per goroutine of main's errgroup: where it is
  egDone,  \* the errgroup's context is done
  signal,  \* a signal has been sent to the client
  main     \* "waits" in eg.Wait, "stops" in cli.Stop, or "returned"

client == <<kind, sent, go, egDone, signal, main>>
ends   == <<dialog, authed, worker, failed>>
vars   == <<client, ends, q, hand, got, tunnel>>

-----------------------------------------------------------------------------
(* The way of an echo: each loop takes from one buffer and puts into the next. *)

Loops == {"readLoop", "csLoop", "scLoop", "sendLoop", "receiveLoop"}

Buffers == {"toServer", "csChan", "scChan", "sendChan", "toClient", "received"}

From == [readLoop |-> "toServer", csLoop |-> "csChan", scLoop |-> "scChan",
         sendLoop |-> "sendChan", receiveLoop |-> "toClient"]

To == [readLoop |-> "csChan", csLoop |-> "scChan", scLoop |-> "sendChan",
       sendLoop |-> "toClient", receiveLoop |-> "received"]

\* Everything on the way, the oldest echo first.
OnTheWay ==
  q.received \o hand.receiveLoop \o q.toClient \o hand.sendLoop \o q.sendChan
    \o hand.scLoop \o q.scChan \o hand.csLoop \o q.csChan \o hand.readLoop
    \o q.toServer

\* The echoes with the tunnel, or with a Handle that forwards to it.
InTunnel == hand.scLoop \o q.scChan \o hand.csLoop \o q.csChan \o hand.readLoop

Room(b) == Len(q[b]) < Cap

Take(l) ==
  /\ hand[l] = <<>>
  /\ q[From[l]] # <<>>
  /\ hand' = [hand EXCEPT ![l] = <<Head(q[From[l]])>>]
  /\ q' = [q EXCEPT ![From[l]] = Tail(@)]

Put(l) ==
  /\ hand[l] # <<>>
  /\ Room(To[l])
  /\ q' = [q EXCEPT ![To[l]] = @ \o hand[l]]
  /\ hand' = [hand EXCEPT ![l] = <<>>]

Init ==
  /\ kind \in {"tcp", "kcp"}
  /\ q = [b \in Buffers |-> <<>>] /\ hand = [l \in Loops |-> <<>>]
  /\ got = <<>> /\ sent = 0
  /\ dialog = "start" /\ authed = FALSE
  /\ worker = "handshake" /\ failed = FALSE /\ tunnel = "none"
  /\ go = [send |-> "start", recv |-> "start", sig |-> "start",
           monitor |-> IF kind = "kcp" THEN "runs" ELSE "done"]
  /\ egDone = FALSE /\ signal = FALSE /\ main = "waits"

-----------------------------------------------------------------------------
(* The server.                                                                *)

Serving == worker \in {"run", "ending"}

\* Worker.handshake with Service.Auth, which answers the client's auth pack.
Auth ==
  /\ worker = "handshake"
  /\ q.toServer = <<0>>
  /\ worker' = "run"
  /\ q' = [q EXCEPT !.toServer = <<>>, !.toClient = <<0>>]
  /\ UNCHANGED <<client, dialog, authed, failed, hand, got, tunnel>>

\* readLoop: Decode.
ReadTakes ==
  /\ worker = "run"
  /\ Take("readLoop")
  /\ UNCHANGED <<client, ends, got, tunnel>>

\* Service.Handle: the tunnel is looked up, created by the first echo, and the
\* echo forwarded; Forward blocks while csChan is full.
Handle ==
  /\ worker = "run"
  /\ Put("readLoop")
  /\ tunnel' = IF tunnel = "none" THEN "runs" ELSE tunnel
  /\ UNCHANGED <<client, ends, got>>

\* Mutant of CSHandle: it handles each message in a goroutine of its own, so that a
\* later one can be answered before one that waits for room in scChan.
CSHandleGoes ==
  /\ q.csChan # <<>>
  /\ hand' = [hand EXCEPT !.csLoop = <<Head(q.csChan)>> \o @]
  /\ q' = [q EXCEPT !.csChan = Tail(@)]
  /\ UNCHANGED <<client, ends, got, tunnel>>

\* csLoop hands the next message to CSHandle.
CSHandle ==
  /\ Take("csLoop")
  /\ UNCHANGED <<client, ends, got, tunnel>>

\* EchoTunnel.handle: the answer has the message's index.
handle ==
  /\ Put("csLoop")
  /\ UNCHANGED <<client, ends, got, tunnel>>

\* scLoop: SCHandle waits for the next answer; nobody closes scChan.
SCHandle ==
  /\ tunnel = "runs"
  /\ Take("scLoop")
  /\ UNCHANGED <<client, ends, got, tunnel>>

\* scLoop: Worker.Push, which blocks while sendChan is full.
Push ==
  /\ worker = "run"
  /\ Put("scLoop")
  /\ UNCHANGED <<client, ends, got, tunnel>>

\* scLoop: the worker is stopping, Push answers errors.  At the top of the loop the
\* tunnel's context is done, or scLoop goes on to wait in SCHandle.
PushErrs ==
  /\ tunnel = "refused"
  /\ tunnel' \in {"runs", "ended"}
  /\ UNCHANGED <<client, ends, q, hand, got>>

\* sendLoop takes a pack and writes it.
SendTakes ==
  /\ Serving
  /\ Take("sendLoop")
  /\ UNCHANGED <<client, ends, got, tunnel>>

Encode ==
  /\ Serving
  /\ Put("sendLoop")
  /\ UNCHANGED <<client, ends, got, tunnel>>

\* Run returns and the worker stops.  What has not got to sendChan is lost: readLoop
\* ends, and Push answers an error to scLoop if that has, or gets, an answer.
Leaves(fails) ==
  /\ worker' = "ending" /\ failed' = fails
  /\ q' = [q EXCEPT !.toServer = <<>>, !.csChan = <<>>, !.scChan = <<>>]
  /\ hand' = [hand EXCEPT !.readLoop = <<>>, !.csLoop = <<>>, !.scLoop = <<>>]
  /\ tunnel' = IF tunnel = "runs" /\ InTunnel # <<>> THEN "refused" ELSE tunnel
  /\ UNCHANGED <<client, dialog, authed, got>>

\* No echo is on the way.
Quiet == Len(got) = sent

\* read: the deadline set before Decode passes without a pack from the client,
\* whatever is on the way behind readLoop.
IdleTimeout ==
  /\ worker = "run"
  /\ hand.readLoop = <<>> /\ q.toServer = <<>>
  /\ Leaves(~Quiet)

\* write blocks until the deadline that read set, for writes too, has passed.
WriteTimeout ==
  /\ worker = "run"
  /\ hand.sendLoop # <<>> /\ ~Room("toClient")
  /\ Leaves(TRUE)

\* read fails because the client closed the connection.
ReadsEnd ==
  /\ worker \in {"handshake", "run"}
  /\ dialog = "ended"
  /\ hand.readLoop = <<>>
  /\ Leaves(TRUE)

\* The handshake times out, the connection breaks, or the server stops.
WorkerFails ==
  /\ worker \in {"handshake", "run"}
  /\ Leaves(TRUE)

\* Worker.Stop, which waits for a tunnel no longer than the stop timeout, closes
\* sendChan and the connection; what its loops had not passed on is lost.
WorkerCloses ==
  /\ worker = "ending"
  /\ worker' = "closed"
  /\ q' = [q EXCEPT !.sendChan = <<>>]
  /\ hand' = [hand EXCEPT !.sendLoop = <<>>]
  /\ UNCHANGED <<client, dialog, authed, failed, got, tunnel>>

-----------------------------------------------------------------------------
(* The client's dialog.                                                       *)

\* Dialog.start: the handshake pack.
Start ==
  /\ dialog = "start"
  /\ dialog' = "handshake"
  /\ q' = [q EXCEPT !.toServer = <<0>>]
  /\ UNCHANGED <<client, authed, worker, failed, hand, got, tunnel>>

\* handshake reads the answer; start closes authed.
Authed ==
  /\ dialog = "handshake"
  /\ q.toClient # <<>>
  /\ dialog' = "run" /\ authed' = TRUE
  /\ q' = [q EXCEPT !.toClient = Tail(@)]
  /\ UNCHANGED <<client, worker, failed, hand, got, tunnel>>

\* receiveLoop: Decode, then receivedPackChan.
Decode ==
  /\ dialog = "run"
  /\ Take("receiveLoop")
  /\ UNCHANGED <<client, ends, got, tunnel>>

Deliver ==
  /\ dialog = "run"
  /\ Put("receiveLoop")
  /\ UNCHANGED <<client, ends, got, tunnel>>

\* Decode fails once the server closed the connection: the dialog leaves the map
\* and stop closes receivedPackChan.
DialogEnds ==
  /\ dialog \in {"handshake", "run"}
  /\ worker = "closed"
  /\ hand.receiveLoop = <<>>
  /\ dialog' = "ended"
  /\ q' = [q EXCEPT !.toClient = <<>>]
  /\ UNCHANGED <<client, authed, worker, failed, hand, got, tunnel>>

-----------------------------------------------------------------------------
(* The client's main and the goroutines of its errgroup.                      *)

\* Each goroutine first looks whether the context is done.
Begins(g, at) ==
  /\ go[g] = "start"
  /\ go' = [go EXCEPT ![g] = IF egDone THEN "never" ELSE at]

\* A goroutine returns; an error ends the errgroup's context, which is not the
\* one the dialogs run under.
Returns(g, err) ==
  /\ go' = [go EXCEPT ![g] = "done"]
  /\ egDone' = (egDone \/ err)

\* sendEcho walks the dialogs: with none left it has finished.
SendBegins ==
  /\ main = "waits"
  /\ Begins("send", IF dialog = "ended" THEN "finish" ELSE "waitAuthed")
  /\ UNCHANGED <<kind, sent, egDone, signal, main, ends, q, hand, got, tunnel>>

WaitAuthed ==
  /\ go.send = "waitAuthed"
  /\ authed
  /\ go' = [go EXCEPT !.send = "send"]
  /\ UNCHANGED <<kind, sent, egDone, signal, main, ends, q, hand, got, tunnel>>

\* Dialog.Send of the next echo, which blocks while the connection is full.
Send ==
  /\ go.send = "send"
  /\ dialog # "ended" /\ worker = "run"
  /\ sent < N
  /\ Room("toServer")
  /\ sent' = sent + 1
  /\ q' = [q EXCEPT !.toServer = Append(@, sent')]
  /\ UNCHANGED <<kind, go, egDone, signal, main, ends, hand, got, tunnel>>

\* All are sent, or the worker does not run any more and those that are left are
\* lost, or Send answers an error for them.
SendStops ==
  /\ go.send = "send"
  /\ sent = N \/ dialog = "ended" \/ worker # "run"
  /\ go' = [go EXCEPT !.send = "finish"]
  /\ UNCHANGED <<kind, sent, egDone, signal, main, ends, q, hand, got, tunnel>>

\* sendEcho returns ErrSendFinished, over KCP nil.
SendReturns ==
  /\ go.send = "finish"
  /\ Returns("send", kind = "tcp")
  /\ UNCHANGED <<kind, sent, signal, main, ends, q, hand, got, tunnel>>

\* Mutant of RecvBegins: the echoes are read when all have been sent.
RecvAfterSend ==
  /\ go.send = "done"
  /\ Begins("recv", IF dialog = "ended" THEN "never" ELSE "range")
  /\ UNCHANGED <<kind, sent, egDone, signal, main, ends, q, hand, got, tunnel>>

\* WalkDialogs starts recvEcho for the dialog if it is still in the map.
RecvBegins ==
  /\ Begins("recv", IF dialog = "ended" THEN "never" ELSE "range")
  /\ UNCHANGED <<kind, sent, egDone, signal, main, ends, q, hand, got, tunnel>>

recvEcho ==
  /\ go.recv = "range"
  /\ q.received # <<>>
  /\ got' = Append(got, Head(q.received))
  /\ q' = [q EXCEPT !.received = Tail(@)]
  /\ UNCHANGED <<client, ends, hand, tunnel>>

\* Mutant of RangeEnds: only cli.Stop stops a dialog, not the end of its start.
OnlyCliStopCloses == main = "stops" /\ q.received = <<>>

\* The range over receivedPackChan ends when it is closed and empty.
RangeEnds == dialog = "ended" /\ q.received = <<>>

RecvReturns ==
  /\ go.recv = "range"
  /\ RangeEnds
  /\ Returns("recv", FALSE)
  /\ UNCHANGED <<kind, sent, signal, main, ends, q, hand, got, tunnel>>

\* monitor (KCP) returns when the context is done.
MonitorReturns ==
  /\ go.monitor = "runs"
  /\ egDone
  /\ Returns("monitor", TRUE)
  /\ UNCHANGED <<kind, sent, signal, main, ends, q, hand, got, tunnel>>

SigBegins ==
  /\ Begins("sig", "notify")
  /\ UNCHANGED <<kind, sent, egDone, signal, main, ends, q, hand, got, tunnel>>

Signal ==
  /\ go.sig = "notify"
  /\ ~signal
  /\ signal' = TRUE
  /\ UNCHANGED <<kind, sent, go, egDone, main, ends, q, hand, got, tunnel>>

SigReturns ==
  /\ go.sig = "notify"
  /\ signal
  /\ Returns("sig", TRUE)
  /\ UNCHANGED <<kind, sent, signal, main, ends, q, hand, got, tunnel>>

\* eg.Wait returns once all goroutines have; the deferred cli.Stop runs.
EgWait ==
  /\ main = "waits"
  /\ \A g \in DOMAIN go : go[g] \in {"done", "never"}
  /\ main' = "stops"
  /\ UNCHANGED <<kind, sent, go, egDone, signal, ends, q, hand, got, tunnel>>

\* cli.Stop stops the dialogs that are left.
CliStop ==
  /\ main = "stops"
  /\ main' = "returned"
  /\ dialog' = "ended"
  /\ UNCHANGED <<kind, sent, go, egDone, signal, authed, worker, failed, q,
                 hand, got, tunnel>>

-----------------------------------------------------------------------------
ServerLoops ==
  \/ ReadTakes \/ Handle \/ CSHandle \/ handle \/ SCHandle \/ Push \/ PushErrs
  \/ SendTakes \/ Encode

WorkerEnds == IdleTimeout \/ WriteTimeout \/ ReadsEnd \/ WorkerCloses

DialogSteps == Start \/ Authed \/ Decode \/ Deliver \/ DialogEnds

Sender == SendBegins \/ WaitAuthed \/ Send \/ SendStops \/ SendReturns

Receiver == RecvBegins \/ recvEcho \/ RecvReturns

Others == MonitorReturns \/ SigBegins \/ SigReturns \/ EgWait \/ CliStop

Next ==
  \/ Auth \/ ServerLoops \/ WorkerEnds \/ WorkerFails
  \/ DialogSteps \/ Sender \/ Receiver \/ Others \/ Signal

Spec == Init /\ [][Next]_vars

\* Goroutines that can run do.  Both deadlines may pass at any time, and then the
\* worker failed; that one does pass is assumed only of a read when nothing is on
\* the way any more, and of a write when nobody reads what is written.
Fairness ==
  /\ WF_vars(Auth)
  /\ WF_vars(ReadTakes \/ Handle) /\ WF_vars(CSHandle \/ handle)
  /\ WF_vars(SCHandle \/ Push \/ PushErrs) /\ WF_vars(SendTakes \/ Encode)
  /\ WF_vars(Quiet /\ IdleTimeout) /\ WF_vars(go.recv = "never" /\ WriteTimeout)
  /\ WF_vars(ReadsEnd \/ WorkerCloses)
  /\ WF_vars(DialogSteps) /\ WF_vars(Sender) /\ WF_vars(Receiver) /\ WF_vars(Others)

FairSpec == Spec /\ Fairness

-----------------------------------------------------------------------------
TypeOK ==
  /\ kind \in {"tcp", "kcp"}
  /\ \A b \in Buffers : Len(q[b]) <= Cap /\ q[b] \in Seq(0..N)
  /\ \A l \in Loops : Len(hand[l]) <= 1
  /\ got \in Seq(1..N) /\ sent \in 0..N
  /\ dialog \in {"start", "handshake", "run", "ended"} /\ authed \in BOOLEAN
  /\ worker \in {"handshake", "run", "ending", "closed"} /\ failed \in BOOLEAN
  /\ tunnel \in {"none", "runs", "refused", "ended"}
  /\ egDone \in BOOLEAN /\ signal \in BOOLEAN
  /\ main \in {"waits", "stops", "returned"}

\* The echoes recvEcho logs are those sent, in the order sent, none twice; while
\* the worker runs, every echo sent is logged or still on its way, in order,
\* through the two ends' loops and the tunnel's (worker.go readLoop, sendLoop;
\* tunnel.go csLoop, scLoop; dialog.go receiveLoop; tcp/client/main.go recvEcho),
\* and nothing else is, once the client has the answer to its handshake.
EchoesInOrder ==
  LET all == [i \in 1..sent |-> i]
  IN  /\ Len(got) <= sent /\ got = SubSeq(all, 1, Len(got))
      /\ worker = "run" => got \o OnTheWay = IF authed THEN all ELSE <<0>>

\* With every buffer on the way full, nobody waits for anybody in a circle: an
\* echo sent is logged, unless the worker fails or main never started recvEcho.
EchoesArrive == []<>(Len(got) = sent \/ failed \/ go.recv = "never")

\* After a signal main returns if the handshake succeeded: the signal alone ends
\* neither sendEcho nor recvEcho, but the server closes the connection of a
\* client that has nothing more to send, which ends the dialog and the range
\* over its channel (main.go eg.Wait, worker.go:255, dialog.go:84).  None of the
\* three is ever undone, so that "again and again" says that the return follows.
MainReturns == []<>(signal /\ authed => main = "returned")

\* As MainReturns, whether or not the handshake succeeded.
SignalEndsMain == signal ~> main = "returned"

\* A tunnel ends with its worker.
TunnelEnds == (worker = "closed" /\ tunnel = "runs") ~> tunnel = "ended"

=============================================================================
