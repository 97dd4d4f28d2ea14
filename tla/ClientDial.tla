----------------------------- MODULE ClientDial -----------------------------
(***************************************************************************)
(* BaseClient.Start and Stop (internal/client.go) with the dialers of         *)
(* tcp/client, websocket/client and kcp/client: what an attempt to connect    *)
(* opens, who holds it and who closes it.  Only KCP with smux has several     *)
(* carriers for an attempt.  What a dialog does with its carrier is in        *)
(* Dialog.tla.                                                                *)
(*                                                                          *)
(* External: xsync.Timeout returns when its function has, or at the timeout,  *)
(* and then the function runs on.  Closing a smux session closes its streams  *)
(* and the connection below it.                                              *)
(***************************************************************************)
EXTENDS Naturals, FiniteSets

CONSTANTS
  Dialers,     \* the dialers a client may have
  StreamSize,  \* conf.SmuxStreamSize
  MaxStarts    \* bound: calls of Start

ASSUME SizeAssumption ==
  /\ Dialers \subseteq {"tcp", "websocket", "kcp", "smux"}
  /\ StreamSize \in Nat \ {0} /\ MaxStarts \in Nat \ {0}

Attempts == 1..MaxStarts

VARIABLES
  dialer,     \* c.dialer; "smux" is the one of kcp/client with conf.Smux
  start,      \* where Start is, how it ended, or "stopped"
  attempt,    \* number of the latest Start
  late,       \* attempts whose dialing runs on after the timeout
  conn,       \* per attempt: its connection
  session,    \* per attempt: its smux session
  streams,    \* open streams, as <<attempt, index>>
  carriers,   \* indices of the carriers of this Dial
  smux,       \* d.smux: the attempt whose session it is, or 0
  dialogMap,  \* the dialogs, by their carriers <<attempt, index>>
  ending,     \* dialogs out of the map whose stop has not run
  served      \* history: every carrier that got a dialog

dialogVars == <<dialogMap, ending, served>>
vars == <<dialer, start, attempt, late, conn, session, streams, carriers, smux, dialogVars>>

Smux == dialer = "smux"

\* The indices DialogID is given.
Indices == IF Smux THEN 1..StreamSize ELSE {0}

IsOpen(x) == IF Smux THEN x \in streams ELSE conn[x[1]] = "open"

\* wrapper.Close: the stream, or the connection.
CloseCarrier(x) ==
  IF Smux THEN streams' = streams \ {x} /\ UNCHANGED conn
          ELSE conn' = [conn EXCEPT ![x[1]] = "closed"] /\ UNCHANGED streams

Init ==
  /\ dialer \in Dialers
  /\ start = "idle" /\ attempt = 0 /\ late = {}
  /\ conn = [a \in Attempts |-> "none"]
  /\ session = [a \in Attempts |-> "none"]
  /\ streams = {} /\ carriers = {} /\ smux = 0
  /\ dialogMap = {} /\ ending = {} /\ served = {}

\* The application starts the client, and again when that has failed.
StartCall ==
  /\ start \in {"idle", "failed"}
  /\ attempt < MaxStarts
  /\ attempt' = attempt + 1
  /\ start' = "dial" /\ carriers' = {}
  /\ UNCHANGED <<late, conn, session, streams, smux, dialogVars>>

\* A dialer with one carrier: the connection, or an error.
SingleDial(ok) ==
  /\ start = "dial"
  /\ conn' = [conn EXCEPT ![attempt] = IF ok THEN "open" ELSE "none"]
  /\ start' = IF ok THEN "store" ELSE "failed"
  /\ carriers' = IF ok THEN {0} ELSE {}
  /\ UNCHANGED <<attempt, late, session, streams, smux, dialogVars>>

\* ResolveTCPAddr and DialTCP.
TcpDials(ok) == dialer = "tcp" /\ SingleDial(ok)

\* url.Parse and DialContext; an error in closing the response's body is lost.
WsDials(ok) == dialer = "websocket" /\ SingleDial(ok)

\* dial of kcp/client returns, and ConfigureConnection sets the connection up.
KcpDials(ok) == dialer = "kcp" /\ SingleDial(ok)

KcpDialsSmux ==
  /\ Smux /\ start = "dial"
  /\ conn' = [conn EXCEPT ![attempt] = "open"]
  /\ start' = "session"
  /\ UNCHANGED <<attempt, late, session, streams, carriers, smux, dialogVars>>

DialFails ==
  /\ Smux /\ start = "dial"
  /\ start' = "failed"
  /\ UNCHANGED <<attempt, late, conn, session, streams, carriers, smux, dialogVars>>

\* The timeout passes, or ctx is done, while DialWithOptions runs on.
DialTimesOut ==
  /\ dialer \in {"kcp", "smux"} /\ start = "dial"
  /\ late' = late \cup {attempt}
  /\ start' = "failed"
  /\ UNCHANGED <<attempt, conn, session, streams, carriers, smux, dialogVars>>

\* The late DialWithOptions returns: nobody has its connection.
DialsLate(a) ==
  /\ a \in late
  /\ late' = late \ {a}
  /\ conn' = [conn EXCEPT ![a] = "open"]
  /\ UNCHANGED <<start, attempt, session, streams, carriers, smux, dialogVars>>

\* The late function writes conn and err while dial returns them (a data race):
\* the nil connection may go with the nil error, and ConfigureConnection panics.
DialRaces ==
  /\ dialer \in {"kcp", "smux"} /\ start = "dial"
  /\ conn' = [conn EXCEPT ![attempt] = "open"]
  /\ start' = "panicked"
  /\ UNCHANGED <<attempt, late, session, streams, carriers, smux, dialogVars>>

\* smux.Client fails: the connection is closed.
SmuxFails ==
  /\ start = "session"
  /\ conn' = [conn EXCEPT ![attempt] = "closed"]
  /\ start' = "failed"
  /\ UNCHANGED <<attempt, late, session, streams, carriers, smux, dialogVars>>

\* Mutant of SmuxMakes: d.smux is set only when it is nil.
SmuxMakesOnce ==
  /\ start = "session"
  /\ session' = [session EXCEPT ![attempt] = "open"]
  /\ smux' = IF smux = 0 THEN attempt ELSE smux
  /\ start' = "streams"
  /\ UNCHANGED <<attempt, late, conn, streams, carriers, dialogVars>>

SmuxMakes ==
  /\ start = "session"
  /\ session' = [session EXCEPT ![attempt] = "open"]
  /\ smux' = attempt
  /\ start' = "streams"
  /\ UNCHANGED <<attempt, late, conn, streams, carriers, dialogVars>>

\* session.OpenStream: the indices start at 1.
OpensStream ==
  /\ start = "streams"
  /\ Cardinality(carriers) < StreamSize
  /\ LET i == Cardinality(carriers) + 1
     IN  carriers' = carriers \cup {i} /\ streams' = streams \cup {<<attempt, i>>}
  /\ UNCHANGED <<start, attempt, late, conn, session, smux, dialogVars>>

\* Mutant of OpenStreamFails: Dial returns the streams it has.
OpenStreamFailsSoft ==
  /\ start = "streams"
  /\ Cardinality(carriers) \in 1..(StreamSize - 1)
  /\ start' = "store"
  /\ UNCHANGED <<attempt, late, conn, session, streams, carriers, smux, dialogVars>>

\* OpenStream fails.  The error is streamErr, and the deferred function looks at
\* err, which is nil: it closes nothing.
OpenStreamFails ==
  /\ start = "streams"
  /\ Cardinality(carriers) < StreamSize
  /\ start' = "failed"
  /\ UNCHANGED <<attempt, late, conn, session, streams, carriers, smux, dialogVars>>

DialReturns ==
  /\ start = "streams"
  /\ Cardinality(carriers) = StreamSize
  /\ start' = "store"
  /\ UNCHANGED <<attempt, late, conn, session, streams, carriers, smux, dialogVars>>

\* Start: newDialog, dialogMap.Store and GoAndStop, carrier by carrier.
StoresDialog ==
  /\ start = "store"
  /\ \E i \in carriers :
       /\ dialogMap' = {x \in dialogMap : x[2] # i} \cup {<<attempt, i>>}
       /\ served' = served \cup {<<attempt, i>>}
       /\ carriers' = carriers \ {i}
  /\ start' = IF carriers' = {} THEN "ok" ELSE "store"
  /\ UNCHANGED <<attempt, late, conn, session, streams, smux, ending>>

\* The goroutine of a dialog ends: dialogMap.Delete, and then d.stop.
DialogEnds(x) ==
  /\ x \in dialogMap
  /\ dialogMap' = dialogMap \ {x}
  /\ ending' = ending \cup {x}
  /\ UNCHANGED <<start, attempt, late, conn, session, streams, carriers, smux, served>>

DialogStops(x) ==
  /\ x \in ending
  /\ CloseCarrier(x)
  /\ ending' = ending \ {x}
  /\ UNCHANGED <<start, attempt, late, session, carriers, smux, dialogMap, served>>

-----------------------------------------------------------------------------
(* BaseClient.Stop.                                                           *)

StopCall ==
  /\ start \in {"ok", "failed"}
  /\ start' = "stopping"
  /\ UNCHANGED <<attempt, late, conn, session, streams, carriers, smux, dialogVars>>

\* dialogMap.Range: the dialogs in the map are stopped.
StopsDialog(x) ==
  /\ start = "stopping"
  /\ x \in dialogMap /\ IsOpen(x)
  /\ CloseCarrier(x)
  /\ UNCHANGED <<start, attempt, late, session, carriers, smux, dialogVars>>

\* wg.Wait has seen every one of them, and dialer.Stop closes d.smux.
StopsDialer ==
  /\ start = "stopping"
  /\ \A x \in dialogMap : ~ IsOpen(x)
  /\ IF smux = 0 THEN UNCHANGED <<conn, session, streams>>
     ELSE /\ session' = [session EXCEPT ![smux] = "closed"]
          /\ conn' = [conn EXCEPT ![smux] = "closed"]
          /\ streams' = {x \in streams : x[1] # smux}
  /\ start' = "stopped"
  /\ UNCHANGED <<attempt, late, carriers, smux, dialogVars>>

-----------------------------------------------------------------------------
Next ==
  /\ \/ StartCall
     \/ \E ok \in BOOLEAN : TcpDials(ok) \/ WsDials(ok) \/ KcpDials(ok)
     \/ KcpDialsSmux \/ DialFails \/ DialTimesOut \/ DialRaces
     \/ \E a \in Attempts : DialsLate(a)
     \/ SmuxFails \/ SmuxMakes \/ OpensStream \/ OpenStreamFails \/ DialReturns
     \/ StoresDialog \/ StopCall \/ StopsDialer
     \/ \E x \in served : DialogEnds(x) \/ DialogStops(x) \/ StopsDialog(x)
  /\ UNCHANGED dialer

Spec == Init /\ [][Next]_vars

-----------------------------------------------------------------------------
(***************************************************************************)
(* Properties.                                                              *)
(***************************************************************************)
\* Type invariant.
TypeOK ==
  /\ dialer \in Dialers
  /\ start \in {"idle", "dial", "session", "streams", "store", "ok", "failed", "panicked",
                "stopping", "stopped"}
  /\ attempt \in 0..MaxStarts /\ late \subseteq Attempts /\ smux \in 0..MaxStarts
  /\ conn \in [Attempts -> {"none", "open", "closed"}]
  /\ session \in [Attempts -> {"none", "open", "closed"}]
  /\ streams \subseteq Attempts \X (1..StreamSize)
  /\ carriers \subseteq Indices
  /\ dialogMap \cup ending \subseteq served /\ served \subseteq Attempts \X Indices

\* A client that has started, after however many failures, has given every carrier
\* of the last Dial a dialog, and the dialogs it still has are over open carriers.
\* What an earlier, failed attempt left open is not the subject (FailedDialCleansUp).
StartedIsWhole ==
  start = "ok" => served = {attempt} \X Indices /\ \A x \in dialogMap : IsOpen(x)

\* Once Stop has returned, whatever carried a dialog is closed, the stream, the
\* session under it and the connection, or the dialog is at its own stop.  The
\* session of an attempt that failed carried no dialog, and d.smux no longer names
\* it: nobody closes that one.
StopClosesServing ==
  start = "stopped" =>
    \A x \in served \ ending : /\ ~ IsOpen(x)
                               /\ session[x[1]] # "open"
                               /\ conn[x[1]] = "closed"

\* kcp/client/dialer.go:70-86 closes the carriers and the session "during cleanup"
\* when Dial fails: a failed attempt leaves no stream and no session open.
FailedDialCleansUp ==
  start = "failed" => session[attempt] # "open" /\ \A x \in streams : x[1] # attempt

=============================================================================
