------------------------------- MODULE Dialog -------------------------------
(***************************************************************************)
(* A client's connection: Dialog of internal/dialog.go, and what BaseClient  *)
(* of internal/client.go does with it.                                       *)
(*                                                                          *)
(* The goroutines are the one that GoAndStop starts (start, then the stop    *)
(* function), the two of start (watch and receiveLoop), the application's    *)
(* (WaitAuthed, then Send; the reader of Receive) and those that call        *)
(* BaseClient.Stop.  A pack is a number; the buffer that Decode gave it has  *)
(* the same number.                                                          *)
(*                                                                          *)
(* External: xsync.Stoppable, as in Worker.tla; the server, which may send   *)
(* MaxPacks packs and close; the application reads Receive or stops reading. *)
(***************************************************************************)
EXTENDS Naturals, Sequences, FiniteSets

CONSTANTS
  Stoppers,  \* goroutines that call BaseClient.Stop
  ChanSize,  \* capacity of receivedPackChan
  MaxPacks   \* bound: packs the server sends after the handshake

ASSUME SizeAssumption == ChanSize \in Nat \ {0} /\ MaxPacks \in Nat

VARIABLES
  dpc,         \* the goroutine of GoAndStop
  inMap,       \* the dialog is in the client's dialogMap
  session,     \* d.session: "default", "authed" after the handshake, "none" after a failed one
  authed,      \* d.authed is closed
  watch, recv, \* the goroutines of start
  egDone,      \* the context of the errgroup is done
  stopping, stopPc, \* TurnOff, and its function
  connOpen,
  arrived,     \* number of packs decoded
  deferred,    \* buffers with a deferred free in receiveLoop
  freed,       \* buffers given back to the pool
  delivering,  \* the pack receiveLoop is sending to the channel
  rchan, chanClosed, \* receivedPackChan
  got,         \* what the application received: packs, and whether intact
  reader,      \* the application's range over Receive()
  sender,      \* the application: WaitAuthed, then Send
  sentUnder,   \* sessions under which the application's packs were sent
  stopper,     \* per caller of BaseClient.Stop: where it is
  clientClosed \* the channel of BaseClient itself is closed

startVars == <<dpc, inMap, session, authed>>
egVars    == <<watch, recv, egDone>>
offVars   == <<stopping, stopPc, connOpen>>
packVars  == <<arrived, deferred, freed, delivering, rchan, chanClosed>>
appVars   == <<got, reader, sender, sentUnder>>
stopVars  == <<stopper, clientClosed>>
vars == <<startVars, egVars, offVars, packVars, appVars, stopVars>>

\* BaseClient.Start: Dial has returned the connection, the dialog is stored.
Init ==
  /\ dpc = "send" /\ inMap = TRUE /\ session = "default" /\ authed = FALSE
  /\ watch = "off" /\ recv = "off" /\ egDone = FALSE
  /\ stopping = FALSE /\ stopPc = "none" /\ connOpen = TRUE
  /\ arrived = 0 /\ deferred = {} /\ freed = {} /\ delivering = 0
  /\ rchan = <<>> /\ chanClosed = FALSE
  /\ got = <<>> /\ reader = "range" /\ sender = "wait" /\ sentUnder = {}
  /\ stopper = [s \in Stoppers |-> "idle"] /\ clientClosed = FALSE

-----------------------------------------------------------------------------
(* The goroutine of the dialog: start, then the stop function of GoAndStop.   *)

\* Mutant of HandshakeSends: authed is closed before the answer.
HandshakeClosesAuthed(ok) ==
  /\ dpc = "send"
  /\ ok => ~ stopping
  /\ dpc' = IF ok THEN "answer" ELSE "delete"
  /\ authed' = TRUE
  /\ UNCHANGED <<inMap, session, egVars, offVars, packVars, appVars, stopVars>>

\* handshakePack and Send(pack), which looks at OnStopping.
HandshakeSends(ok) ==
  /\ dpc = "send"
  /\ ok => ~ stopping
  /\ dpc' = IF ok THEN "answer" ELSE "delete"
  /\ UNCHANGED <<inMap, session, authed, egVars, offVars, packVars, appVars, stopVars>>

\* Decode and authFunc; there is no deadline of the dialog's own on the answer.
HandshakeAnswered(ok) ==
  /\ dpc = "answer"
  /\ ok => connOpen
  /\ session' \in IF ok THEN {"authed"} ELSE {session, "none"}
  /\ dpc' = IF ok THEN "group" ELSE "delete"
  /\ UNCHANGED <<inMap, authed, egVars, offVars, packVars, appVars, stopVars>>

\* The goroutines of the errgroup start.
GroupStarts ==
  /\ dpc = "group"
  /\ watch' = "select" /\ recv' = "check"
  /\ dpc' = "authed"
  /\ UNCHANGED <<inMap, session, authed, egDone, offVars, packVars, appVars, stopVars>>

\* close(d.authed)
CloseAuthed ==
  /\ dpc = "authed"
  /\ authed' = TRUE
  /\ dpc' = "run"
  /\ UNCHANGED <<inMap, session, egVars, offVars, packVars, appVars, stopVars>>

\* eg.Wait returns.
RunReturns ==
  /\ dpc = "run"
  /\ watch = "done" /\ recv = "done"
  /\ dpc' = "delete"
  /\ UNCHANGED <<inMap, session, authed, egVars, offVars, packVars, appVars, stopVars>>

\* c.dialogMap.Delete(wrapper.ID)
DeleteDialog ==
  /\ dpc = "delete"
  /\ inMap' = FALSE
  /\ dpc' = "stop"
  /\ UNCHANGED <<session, authed, egVars, offVars, packVars, appVars, stopVars>>

TurnOff ==
  IF stopping THEN UNCHANGED offVars
              ELSE stopping' = TRUE /\ stopPc' = "closeChan" /\ UNCHANGED connOpen

\* d.stop()
DialogStops ==
  /\ dpc = "stop"
  /\ TurnOff
  /\ dpc' = "done"
  /\ UNCHANGED <<inMap, session, authed, egVars, packVars, appVars, stopVars>>

\* Mutant of StopClosesChan: receivedPackChan is not closed.
StopKeepsChan ==
  /\ stopPc = "closeChan"
  /\ stopPc' = "closeConn"
  /\ UNCHANGED <<startVars, egVars, stopping, connOpen, packVars, appVars, stopVars>>

\* stop: close(d.receivedPackChan)
StopClosesChan ==
  /\ stopPc = "closeChan"
  /\ chanClosed' = TRUE
  /\ stopPc' = "closeConn"
  /\ UNCHANGED <<startVars, egVars, stopping, connOpen, arrived, deferred, freed,
                 delivering, rchan, appVars, stopVars>>

\* stop: d.conn.Close()
StopClosesConn ==
  /\ stopPc = "closeConn"
  /\ connOpen' = FALSE
  /\ stopPc' = "done"
  /\ UNCHANGED <<startVars, egVars, stopping, packVars, appVars, stopVars>>

-----------------------------------------------------------------------------
(* The goroutines of start.                                                   *)

\* The application cancels the context given to Start.
CancelContext ==
  /\ ~ egDone
  /\ egDone' = TRUE
  /\ UNCHANGED <<startVars, watch, recv, offVars, packVars, appVars, stopVars>>

WatchReturns ==
  /\ watch = "select"
  /\ stopping \/ egDone
  /\ watch' = "done"
  /\ egDone' = TRUE
  /\ UNCHANGED <<startVars, recv, offVars, packVars, appVars, stopVars>>

\* receiveLoop returns err, or panics: its deferred calls free the buffers.
LoopEnds ==
  /\ recv' = "done"
  /\ egDone' = TRUE
  /\ freed' = freed \cup deferred
  /\ deferred' = {}
  /\ UNCHANGED watch

RecvChecks ==
  /\ recv = "check"
  /\ IF stopping \/ egDone
       THEN LoopEnds
       ELSE recv' = "decode" /\ UNCHANGED <<watch, egDone, deferred, freed>>
  /\ UNCHANGED <<startVars, offVars, arrived, delivering, rchan, chanClosed, appVars, stopVars>>

\* Decode returns a pack in a buffer, whose free is deferred to the end of the
\* loop; Decrypt makes the pack a slice of its own.
RecvDecodes ==
  /\ recv = "decode"
  /\ connOpen /\ arrived < MaxPacks
  /\ arrived' = arrived + 1
  /\ deferred' = deferred \cup {arrived'}
  /\ delivering' = arrived'
  /\ recv' = "deliver"
  /\ UNCHANGED <<startVars, watch, egDone, offVars, freed, rchan, chanClosed, appVars, stopVars>>

\* Decode or Decrypt fails: the peer is gone, or the connection was closed.
RecvFails ==
  /\ recv = "decode"
  /\ LoopEnds
  /\ UNCHANGED <<startVars, offVars, arrived, delivering, rchan, chanClosed, appVars, stopVars>>

\* Mutant of RecvDelivers: a pack that finds the channel full is dropped.
RecvDropsWhenFull ==
  /\ recv = "deliver"
  /\ ~ chanClosed
  /\ rchan' = IF Len(rchan) < ChanSize THEN Append(rchan, delivering) ELSE rchan
  /\ delivering' = 0
  /\ recv' = "check"
  /\ UNCHANGED <<startVars, watch, egDone, offVars, arrived, deferred, freed, chanClosed,
                 appVars, stopVars>>

\* d.receivedPackChan <- pack
RecvDelivers ==
  /\ recv = "deliver"
  /\ ~ chanClosed
  /\ Len(rchan) < ChanSize
  /\ rchan' = Append(rchan, delivering)
  /\ delivering' = 0
  /\ recv' = "check"
  /\ UNCHANGED <<startVars, watch, egDone, offVars, arrived, deferred, freed, chanClosed,
                 appVars, stopVars>>

\* The send panics on the closed channel; xsync.Run makes it an error.
RecvPanics ==
  /\ recv = "deliver"
  /\ chanClosed
  /\ LoopEnds
  /\ UNCHANGED <<startVars, offVars, arrived, delivering, rchan, chanClosed, appVars, stopVars>>

-----------------------------------------------------------------------------
(* The application.                                                           *)

\* Mutant of Cloned: Decrypt returns the slice it was given.
NotCloned(n) == FALSE

\* Whether the bytes of pack n are its own once its buffer is back in the pool.
\* Decrypt clones (or decrypts into a new slice), so they are.
Cloned(n) == TRUE

\* for pack := range dialog.Receive()
ReaderTakes ==
  /\ reader = "range"
  /\ rchan # <<>>
  /\ got' = Append(got, [pack |-> Head(rchan),
                         intact |-> Head(rchan) \notin freed \/ Cloned(Head(rchan))])
  /\ rchan' = Tail(rchan)
  /\ UNCHANGED <<startVars, egVars, offVars, arrived, deferred, freed, delivering,
                 chanClosed, reader, sender, sentUnder, stopVars>>

ReaderEnds ==
  /\ reader = "range"
  /\ rchan = <<>> /\ chanClosed
  /\ reader' = "done"
  /\ UNCHANGED <<startVars, egVars, offVars, packVars, got, sender, sentUnder, stopVars>>

\* The application leaves its loop over Receive().
ReaderLeaves ==
  /\ reader = "range"
  /\ reader' = "left"
  /\ UNCHANGED <<startVars, egVars, offVars, packVars, got, sender, sentUnder, stopVars>>

\* WaitAuthed returns.
SenderWaits ==
  /\ sender = "wait"
  /\ authed
  /\ sender' = "send"
  /\ UNCHANGED <<startVars, egVars, offVars, packVars, got, reader, sentUnder, stopVars>>

\* Send: OnStopping, then Encrypt under d.session and Encode.
SenderSends ==
  /\ sender = "send"
  /\ sender' = "done"
  /\ sentUnder' = IF stopping \/ ~ connOpen THEN sentUnder ELSE sentUnder \cup {session}
  /\ UNCHANGED <<startVars, egVars, offVars, packVars, got, reader, stopVars>>

-----------------------------------------------------------------------------
(* BaseClient.Stop.                                                           *)

\* Range finds the dialog and stops it, or does not find it: it is deleted.
ClientStops(s) ==
  /\ stopper[s] = "idle"
  /\ IF inMap THEN TurnOff ELSE UNCHANGED offVars
  /\ stopper' = [stopper EXCEPT ![s] = IF inMap /\ ~ stopping THEN "first" ELSE "wait"]
  /\ UNCHANGED <<startVars, egVars, packVars, appVars, clientClosed>>

\* wg.Wait has returned: the stop that ran the function of TurnOff has ended (a
\* later caller may return before).  Then dialer.Stop, and the close of the
\* client's own channel, which panics the second time.
ClientStopReturns(s) ==
  /\ \/ stopper[s] = "first" /\ stopPc = "done"
     \/ stopper[s] = "wait"
  /\ clientClosed' = TRUE
  /\ stopper' = [stopper EXCEPT ![s] = IF clientClosed THEN "panicked" ELSE "done"]
  /\ UNCHANGED <<startVars, egVars, offVars, packVars, appVars>>

-----------------------------------------------------------------------------
StartSteps ==
  \/ \E ok \in BOOLEAN : HandshakeSends(ok) \/ HandshakeAnswered(ok)
  \/ GroupStarts \/ CloseAuthed \/ RunReturns \/ DeleteDialog \/ DialogStops

StopSteps == StopClosesChan \/ StopClosesConn

RecvSteps == RecvChecks \/ RecvDecodes \/ RecvFails \/ RecvDelivers \/ RecvPanics

Next ==
  \/ StartSteps \/ StopSteps \/ CancelContext \/ WatchReturns \/ RecvSteps
  \/ ReaderTakes \/ ReaderEnds \/ ReaderLeaves \/ SenderWaits \/ SenderSends
  \/ \E s \in Stoppers : ClientStops(s) \/ ClientStopReturns(s)

Spec == Init /\ [][Next]_vars

\* Goroutines run on.  The server owes no answer and no pack: a Decode need only
\* return once the connection is closed.  The application owes no call of Stop,
\* and may leave its loop over Receive().
Fairness ==
  /\ WF_vars((dpc = "answer" => ~ connOpen) /\ StartSteps)
  /\ WF_vars(StopSteps) /\ WF_vars(WatchReturns)
  /\ WF_vars((recv = "decode" => ~ connOpen) /\ RecvSteps)
  /\ WF_vars(ReaderTakes \/ ReaderEnds)
  /\ WF_vars(SenderWaits \/ SenderSends)

FairSpec == Spec /\ Fairness

-----------------------------------------------------------------------------
(***************************************************************************)
(* Properties.                                                              *)
(***************************************************************************)
Packs == 1..MaxPacks

\* Type invariant.
TypeOK ==
  /\ dpc \in {"send", "answer", "group", "authed", "run", "delete", "stop", "done"}
  /\ inMap \in BOOLEAN /\ session \in {"default", "authed", "none"} /\ authed \in BOOLEAN
  /\ watch \in {"off", "select", "done"}
  /\ recv \in {"off", "check", "decode", "deliver", "done"}
  /\ egDone \in BOOLEAN /\ stopping \in BOOLEAN /\ connOpen \in BOOLEAN
  /\ stopPc \in {"none", "closeChan", "closeConn", "done"}
  /\ arrived \in 0..MaxPacks /\ delivering \in 0..MaxPacks
  /\ deferred \subseteq Packs /\ freed \subseteq Packs
  /\ rchan \in Seq(Packs) /\ Len(rchan) <= ChanSize /\ chanClosed \in BOOLEAN
  /\ got \in Seq([pack : Packs, intact : BOOLEAN])
  /\ reader \in {"range", "left", "done"} /\ sender \in {"wait", "send", "done"}
  /\ sentUnder \subseteq {"default", "authed"}
  /\ stopper \in [Stoppers -> {"idle", "first", "wait", "done", "panicked"}]
  /\ clientClosed \in BOOLEAN

\* Every pack the application receives is intact, and they come in the order of
\* arrival without a gap, although receiveLoop gives the buffers of all packs
\* back when it ends, with packs still in the channel.
ReceivedIntact ==
  \A i \in 1..Len(got) : got[i] = [pack |-> i, intact |-> TRUE]

\* When the application's loop over Receive() has come to its end, it has had every
\* pack that Decode returned but the one, if any, whose send meets the closed
\* channel: at whatever moment stop closes receivedPackChan, with receiveLoop
\* blocked on the full channel or about to send, what was queued is still read.
OnlyLastIsLost ==
  reader = "done" => Len(got) = IF delivering = 0 THEN arrived ELSE arrived - 1

\* Whoever waits for WaitAuthed sends under the session of the handshake, never
\* in the clear: d.session is set before d.authed is closed.
SentUnderSession == sentUnder \subseteq {"authed"}

\* Once BaseClient.Stop is called, at any moment (in the middle of the handshake,
\* with receiveLoop blocked on a full channel, between the dialog's own removal from
\* dialogMap and its stop, when Range does not find it), the dialog's goroutines
\* end, its connection is closed, the application's loop over Receive() ends or was
\* left, and whoever waits in WaitAuthed goes on if the handshake succeeded.  After
\* a failed one authed is never closed and WaitAuthed never returns.
StopEndsDialog ==
  (stopping \/ \E s \in Stoppers : stopper[s] # "idle") ~>
     /\ dpc = "done" /\ ~ connOpen /\ reader \in {"left", "done"}
     /\ sender = "wait" => session # "authed"

=============================================================================
