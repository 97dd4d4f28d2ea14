--------------------------- MODULE Tunnel_proofs ----------------------------
(***************************************************************************)
(* For any callers, keys and tunnels: createTunnel makes one tunnel per key,*)
(* and OnStop comes once and after both loops.  For every length of the     *)
(* window, every limit and every history of pushes: a tunnel is given up only*)
(* for more errors than the limit within one window, and it does not survive*)
(* more than twice the limit.                                               *)
(***************************************************************************)
EXTENDS TunnelManager, PushErrorWindow, FiniteSetTheorems, TLAPS

(***************************************************************************)
(* TunnelManager.                                                           *)
(***************************************************************************)

\* tunnelManager.stop has not taken the lock.
Early == stopPc \in {"none", "lock"}

\* Who is in createTunnel holds the lock, and tunnelManager.stop holds it too; a call
\* has its key from the lookup and its tunnel from there or from createTunnel.
LockInv ==
  /\ stopPc = "groups" <=> mu = "stop"
  /\ batch # {} => stopPc = "groups"
  /\ Early => trig = {}
  /\ \A c \in Callers :
       /\ call[c].pc = "make" => mu = c
       /\ call[c].pc \in {"create", "make"} => call[c].key \in Keys
       /\ call[c].pc \in {"forward", "send"} => call[c].t \in Created

\* A group has tunnels of its keys only.
GroupInv == \A k \in Keys :
  tunnelGroups[k] # None => tunnelGroups[k] \in Created /\ key[tunnelGroups[k]] = k

\* What the second look under the lock has found stays so until the tunnel is made.
MakeInv ==
  Early => \A c \in Callers : call[c].pc = "make" =>
             \A t \in Created \ off : key[t] # call[c].key

\* Only a tunnel that was made has loops; TurnOff comes after them, OnStop in TurnOff.
LoopInv == \A t \in Tunnels :
  /\ cs[t] # "none" \/ sc[t] # "none" => t \in Created
  /\ t \in off => cs[t] = "done" /\ sc[t] = "done"
  /\ onStop[t] <= 1
  /\ onStop[t] # 0 => t \in off

TunnelInv == TypeOK /\ LockInv /\ GroupInv /\ MakeInv /\ LoopInv /\ OneTunnelPerKey

-----------------------------------------------------------------------------
(* What a lookup answers.                                                     *)

LEMMA AnswersTunnel ==
  ASSUME NEW k, NEW t \in Answers(k), t # None
  PROVE  t = tunnelGroups[k]
BY DEF Answers

LEMMA NoAnswer ==
  ASSUME NEW k, None \in Answers(k), trig = {}, tunnelGroups[k] # None
  PROVE  tunnelGroups[k] \in off
BY DEF Answers, OnStopping

-----------------------------------------------------------------------------
(* The calls of Worker.Tunnel.                                                *)

\* A caller that moves on, with the lock and the groups as they were.
LEMMA CallMoves ==
  ASSUME TunnelInv, NEW c \in Callers,
         NEW r \in [pc : {"create", "forward", "send", "returned", "panicked"},
                    key : Keys \cup {None}, t : Tunnels \cup {None}],
         r.pc = "create" => r.key \in Keys,
         r.pc \in {"forward", "send"} => r.t \in Created,
         call' = [call EXCEPT ![c] = r],
         UNCHANGED <<tunnelGroups, mu, key, trig, off, loops, onStop, stopPc, batch, worker>>,
         csLen' \in [Tunnels -> 0..CsSize]
  PROVE  TunnelInv'
<1> USE DEF TunnelInv, loops, worker, Created, Early
<1>1. TypeOK'
  BY DEF TypeOK
<1>2. LockInv'
  BY DEF LockInv, TypeOK
<1>3. GroupInv' /\ LoopInv' /\ OneTunnelPerKey'
  BY DEF GroupInv, LoopInv, OneTunnelPerKey
<1>4. MakeInv'
  BY DEF MakeInv, TypeOK
<1>5. QED
  BY <1>1, <1>2, <1>3, <1>4

LEMMA LookupKeeps ==
  ASSUME TunnelInv, NEW c \in Callers, NEW k \in Keys, Lookup(c, k)
  PROVE  TunnelInv'
<1>1. PICK t \in Answers(k) :
        call' = [call EXCEPT ![c] = [pc |-> IF t = None THEN "create" ELSE "forward",
                                     key |-> k, t |-> t]]
  BY DEF Lookup
<1>2. t = None \/ t \in Created
  BY AnswersTunnel DEF TunnelInv, GroupInv
<1>3. QED
  BY <1>1, <1>2, CallMoves DEF Lookup, tunnel, Created, TunnelInv, TypeOK

LEMMA ReturnedIs == Returned = [pc |-> "returned", key |-> None, t |-> None]
BY DEF Returned, NoCall

LEMMA ForwardKeeps ==
  ASSUME TunnelInv, NEW c \in Callers,
         ForwardChecks(c) \/ ForwardSends(c) \/ ForwardPanics(c)
  PROVE  TunnelInv'
<1>1. call[c] \in [pc : {"idle", "create", "make", "forward", "send", "returned", "panicked"},
                   key : Keys \cup {None}, t : Tunnels \cup {None}]
  BY DEF TunnelInv, TypeOK
<1>2. Returned = [pc |-> "returned", key |-> None, t |-> None]
  BY ReturnedIs
<1>3. CASE ForwardChecks(c)
  <2>1. PICK s \in OnStopping(call[c].t) :
          call' = [call EXCEPT ![c] = IF s THEN Returned ELSE [call[c] EXCEPT !.pc = "send"]]
    BY <1>3 DEF ForwardChecks, TunnelInv, TypeOK
  <2>2. [call[c] EXCEPT !.pc = "send"] = [pc |-> "send", key |-> call[c].key, t |-> call[c].t]
    BY <1>1
  <2>3. call[c].t \in Created
    BY <1>3 DEF ForwardChecks, TunnelInv, LockInv
  <2>4. csLen' \in [Tunnels -> 0..CsSize]
    BY <1>3 DEF ForwardChecks, TunnelInv, TypeOK, tunnel
  <2>5. CASE s
    <3>1. call' = [call EXCEPT ![c] = [pc |-> "returned", key |-> None, t |-> None]]
      BY <1>2, <2>1, <2>5
    <3>2. QED
      BY <1>3, <2>4, <3>1, CallMoves DEF ForwardChecks, tunnel
  <2>6. CASE ~ s
    <3>1. call' = [call EXCEPT ![c] = [pc |-> "send", key |-> call[c].key, t |-> call[c].t]]
      BY <2>1, <2>2, <2>6
    <3>2. QED
      BY <1>1, <1>3, <2>3, <2>4, <3>1, CallMoves DEF ForwardChecks, tunnel
  <2>7. QED
    BY <2>5, <2>6
<1>4. CASE ForwardSends(c)
  <2>1. csLen' \in [Tunnels -> 0..CsSize]
    BY <1>4, SizeAssumption DEF ForwardSends, TunnelInv, TypeOK, LockInv, Created
  <2>2. QED
    BY <1>2, <1>4, <2>1, CallMoves DEF ForwardSends
<1>5. CASE ForwardPanics(c)
  <2>1. call' = [call EXCEPT ![c] = [pc |-> "panicked", key |-> call[c].key, t |-> call[c].t]]
    <3>1. call' = [call EXCEPT ![c].pc = "panicked"]
      BY <1>5 DEF ForwardPanics
    <3>2. [call[c] EXCEPT !.pc = "panicked"]
            = [pc |-> "panicked", key |-> call[c].key, t |-> call[c].t]
      BY <1>1
    <3>3. QED
      BY <3>1, <3>2
  <2>2. UNCHANGED <<tunnelGroups, mu, tunnel, stopPc, batch, worker>>
    BY <1>5 DEF ForwardPanics
  <2>3. csLen' \in [Tunnels -> 0..CsSize]
    BY <2>2 DEF TunnelInv, TypeOK, tunnel
  <2>4. QED
    BY <1>1, <2>1, <2>2, <2>3, CallMoves DEF tunnel
<1>6. QED
  BY <1>3, <1>4, <1>5

\* createTunnel that finds no tunnel under the lock: as long as nothing is stopped, a
\* tunnel of the key that is not off would be the one in the group.
LEMMA CreateLocksKeeps ==
  ASSUME TunnelInv, NEW c \in Callers, CreateLocks(c)
  PROVE  TunnelInv'
<1>1. call[c] \in [pc : {"idle", "create", "make", "forward", "send", "returned", "panicked"},
                   key : Keys \cup {None}, t : Tunnels \cup {None}] /\ call[c].key \in Keys
  BY DEF TunnelInv, TypeOK, LockInv, CreateLocks
<1>2. PICK t \in Answers(call[c].key) :
        IF t = None
          THEN mu' = c /\ call' = [call EXCEPT ![c].pc = "make"]
          ELSE /\ call' = [call EXCEPT ![c] = [pc |-> "forward", key |-> call[c].key, t |-> t]]
               /\ UNCHANGED mu
  BY DEF CreateLocks, TunnelInv, TypeOK
<1>3. CASE t # None
  <2>1. t \in Created
    BY <1>1, <1>3, AnswersTunnel DEF TunnelInv, GroupInv
  <2>2. QED
    BY <1>1, <1>2, <1>3, <2>1, CallMoves DEF CreateLocks, tunnel, Created, TunnelInv, TypeOK
<1>4. CASE t = None
  <2> DEFINE k == call[c].key
  <2>1. call' = [call EXCEPT ![c] = [pc |-> "make", key |-> k, t |-> call[c].t]] /\ mu' = c
    BY <1>1, <1>2, <1>4 DEF TunnelInv, TypeOK
  <2>2. UNCHANGED <<tunnelGroups, tunnel, stopPc, batch, worker>> /\ mu = None
    BY DEF CreateLocks
  <2> HIDE DEF k
  <2>3. k \in Keys /\ call[c].t \in Tunnels \cup {None}
    BY <1>1 DEF k
  <2> USE DEF tunnel, loops, worker, Created, Early
  <2>4. TypeOK'
    BY <2>1, <2>2, <2>3 DEF TunnelInv, TypeOK
  <2>5. \A d \in Callers : call[d].pc # "make"
    BY <2>2, NoneAssumption DEF TunnelInv, LockInv
  <2>6. LockInv'
    BY <2>1, <2>2, <2>3, <2>5, NoneAssumption DEF TunnelInv, LockInv, TypeOK
  <2>7. Early => \A u \in Created \ off : key[u] # k
    BY <1>4, <2>3, NoAnswer, NoneAssumption DEF k, TunnelInv, LockInv, OneTunnelPerKey
  <2>8. MakeInv'
    BY <2>1, <2>2, <2>5, <2>7 DEF MakeInv, TunnelInv, TypeOK
  <2>9. GroupInv' /\ LoopInv' /\ OneTunnelPerKey'
    BY <2>2 DEF TunnelInv, GroupInv, LoopInv, OneTunnelPerKey
  <2>10. QED
    BY <2>4, <2>6, <2>8, <2>9 DEF TunnelInv
<1>5. QED
  BY <1>3, <1>4

LEMMA CreateFailsKeeps ==
  ASSUME TunnelInv, NEW c \in Callers, CreateFails(c)
  PROVE  TunnelInv'
<1>1. call' = [call EXCEPT ![c] = [pc |-> "returned", key |-> None, t |-> None]]
  BY ReturnedIs DEF CreateFails
<1>2. mu = c /\ mu' = None /\ UNCHANGED <<tunnelGroups, tunnel, stopPc, batch, worker>>
  BY DEF CreateFails, TunnelInv, LockInv
<1> USE DEF TunnelInv, tunnel, loops, worker, Created, Early
<1>3. TypeOK'
  BY <1>1, <1>2 DEF TypeOK
<1>4. LockInv'
  BY <1>1, <1>2, NoneAssumption DEF LockInv, TypeOK
<1>5. MakeInv'
  BY <1>1, <1>2 DEF MakeInv, TypeOK
<1>6. GroupInv' /\ LoopInv' /\ OneTunnelPerKey'
  BY <1>2 DEF GroupInv, LoopInv, OneTunnelPerKey
<1>7. QED
  BY <1>3, <1>4, <1>5, <1>6

\* createTunnel makes the tunnel: it is the only one of its key that is not off, and
\* nobody else is in createTunnel.
LEMMA CreateMakesKeeps ==
  ASSUME TunnelInv, NEW c \in Callers, NEW t \in Tunnels, CreateMakes(c, t)
  PROVE  TunnelInv'
<1> DEFINE k == call[c].key
<1>1. k \in Keys /\ mu = c
  BY DEF TunnelInv, LockInv, CreateMakes
<1>2. /\ call' = [call EXCEPT ![c] = [pc |-> "forward", key |-> k, t |-> t]]
      /\ key' = [key EXCEPT ![t] = k]
      /\ tunnelGroups' = [tunnelGroups EXCEPT ![k] = t]
  BY DEF CreateMakes, TunnelInv, TypeOK
<1>3. /\ cs' = [cs EXCEPT ![t] = "select"] /\ sc' = [sc EXCEPT ![t] = "check"]
      /\ mu' = None /\ UNCHANGED <<trig, off, egDone, csLen, onStop, stopPc, batch, worker>>
  BY DEF CreateMakes
<1>4. t \notin Created
  BY DEF CreateMakes
<1>5. Early => \A u \in Created \ off : key[u] # k
  BY DEF CreateMakes, TunnelInv, MakeInv
<1> HIDE DEF k
<1>6. Created' = Created \cup {t}
  BY <1>1, <1>2, NoneAssumption DEF Created, TunnelInv, TypeOK
<1>7. TypeOK'
  BY <1>1, <1>2, <1>3, <1>6 DEF TypeOK, TunnelInv, worker
<1>8. \A d \in Callers : call'[d].pc # "make"
  BY <1>1, <1>2 DEF TunnelInv, TypeOK, LockInv
<1>9. LockInv'
  BY <1>1, <1>2, <1>3, <1>6, <1>8, NoneAssumption DEF LockInv, TunnelInv, TypeOK, Early
<1>10. MakeInv'
  BY <1>8 DEF MakeInv
<1>11. GroupInv'
  BY <1>1, <1>2, <1>4, <1>6, NoneAssumption DEF GroupInv, TunnelInv, TypeOK
<1>12. LoopInv'
  BY <1>3, <1>4, <1>6 DEF LoopInv, TunnelInv, TypeOK
<1>13. OneTunnelPerKey'
  <2> SUFFICES ASSUME Early, NEW u \in (Created \cup {t}) \ off
               PROVE  tunnelGroups'[key'[u]] = u
    BY <1>3, <1>6 DEF OneTunnelPerKey, Early
  <2>1. CASE u = t
    BY <1>1, <1>2, <2>1 DEF TunnelInv, TypeOK
  <2>2. CASE u # t
    <3>1. u \in Created \ off /\ key'[u] = key[u] /\ key[u] # k
      BY <1>2, <1>5, <2>2 DEF TunnelInv, TypeOK, Created
    <3>2. QED
      BY <1>2, <3>1 DEF OneTunnelPerKey, TunnelInv, Early, TypeOK, Created
  <2>3. QED
    BY <2>1, <2>2
<1>14. QED
  BY <1>7, <1>9, <1>10, <1>11, <1>12, <1>13 DEF TunnelInv

LEMMA CallKeeps == ASSUME TunnelInv, NEW c \in Callers, CallSteps(c) PROVE TunnelInv'
BY CreateLocksKeeps, CreateFailsKeeps, CreateMakesKeeps, ForwardKeeps DEF CallSteps

-----------------------------------------------------------------------------
(* The goroutines of a tunnel.                                                *)

\* A loop that moves on, in a tunnel that is not off: groups and calls do not see it.
LEMMA LoopMoves ==
  ASSUME TunnelInv, NEW t \in Created \ off,
         cs' \in [Tunnels -> {"none", "select", "handle", "done"}],
         sc' \in [Tunnels -> {"none", "check", "handle", "push", "send", "done"}],
         \A u \in Tunnels : u # t => cs'[u] = cs[u] /\ sc'[u] = sc[u],
         egDone' \subseteq Created, csLen' \in [Tunnels -> 0..CsSize], chanLen' \in 0..ChanSize,
         UNCHANGED <<tunnelGroups, mu, call, key, trig, off, onStop, stopPc, batch, ctxDone,
                     sending, chanClosed>>
  PROVE  TunnelInv'
<1> USE DEF TunnelInv, Created, Early
<1>1. TypeOK'
  BY DEF TypeOK
<1>2. LockInv' /\ GroupInv' /\ MakeInv' /\ OneTunnelPerKey'
  BY DEF LockInv, GroupInv, MakeInv, OneTunnelPerKey
<1>3. LoopInv'
  BY DEF LoopInv
<1>4. QED
  BY <1>1, <1>2, <1>3

\* A loop that runs belongs to a tunnel that exists and is not off.
LEMMA RunsCreated ==
  ASSUME TunnelInv, NEW t \in Tunnels,
         cs[t] \in {"select", "handle"} \/ sc[t] \in {"check", "handle", "push", "send"}
  PROVE  t \in Created \ off
BY DEF TunnelInv, LoopInv

LEMMA CsKeeps == ASSUME TunnelInv, NEW t \in Tunnels, CsSteps(t) PROVE TunnelInv'
<1>1. t \in Created \ off
  BY RunsCreated DEF CsSteps, CsReturns, CsTakes
<1>2. TypeOK
  BY DEF TunnelInv
<1>3. CASE CsReturns(t)
  BY <1>1, <1>2, <1>3, LoopMoves DEF CsReturns, TypeOK, worker
<1>4. CASE CsTakes(t)
  <2>1. csLen' \in [Tunnels -> 0..CsSize]
    BY <1>2, <1>4, SizeAssumption DEF CsTakes, TypeOK
  <2>2. QED
    BY <1>1, <1>2, <1>4, <2>1, LoopMoves DEF CsTakes, TypeOK, worker
<1>5. QED
  BY <1>3, <1>4 DEF CsSteps

LEMMA HandleKeeps == ASSUME TunnelInv, NEW t \in Tunnels, HandleSteps(t) PROVE TunnelInv'
<1>1. t \in Created \ off
  BY RunsCreated DEF HandleSteps, CsHandles, ScHandles
<1>2. TypeOK
  BY DEF TunnelInv
<1>3. ASSUME NEW ok \in BOOLEAN, CsHandles(t, ok) PROVE TunnelInv'
  <2>1. egDone' \subseteq Created
    BY <1>1, <1>2, <1>3 DEF CsHandles, TypeOK
  <2>2. QED
    BY <1>1, <1>2, <1>3, <2>1, LoopMoves DEF CsHandles, TypeOK, worker
<1>4. ASSUME NEW ok \in BOOLEAN, ScHandles(t, ok) PROVE TunnelInv'
  <2>1. egDone' \subseteq Created
    BY <1>1, <1>2, <1>4 DEF ScHandles, TypeOK
  <2>2. QED
    BY <1>1, <1>2, <1>4, <2>1, LoopMoves DEF ScHandles, TypeOK, worker
<1>5. QED
  BY <1>3, <1>4 DEF HandleSteps

LEMMA ScKeeps == ASSUME TunnelInv, NEW t \in Tunnels, ScSteps(t) PROVE TunnelInv'
<1>1. t \in Created \ off
  BY RunsCreated DEF ScSteps, ScChecks, ScPushChecks, ScPushSends, ScPushPanics
<1>2. TypeOK
  BY DEF TunnelInv
<1>3. CASE ScChecks(t)
  BY <1>1, <1>2, <1>3, LoopMoves DEF ScChecks, TypeOK, worker
<1>4. CASE ScPushChecks(t)
  <2>1. /\ egDone' \subseteq Created
        /\ sc' \in [Tunnels -> {"none", "check", "handle", "push", "send", "done"}]
        /\ \A u \in Tunnels : u # t => sc'[u] = sc[u]
    BY <1>1, <1>2, <1>4 DEF ScPushChecks, TypeOK
  <2>2. QED
    BY <1>1, <1>2, <1>4, <2>1, LoopMoves DEF ScPushChecks, TypeOK, worker
<1>5. CASE ScPushSends(t)
  <2>1. chanLen' \in 0..ChanSize
    BY <1>2, <1>5, SizeAssumption DEF ScPushSends, TypeOK
  <2>2. QED
    BY <1>1, <1>2, <1>5, <2>1, LoopMoves DEF ScPushSends, TypeOK
<1>6. CASE ScPushPanics(t)
  BY <1>1, <1>2, <1>6, LoopMoves DEF ScPushPanics, TypeOK, worker
<1>7. QED
  BY <1>3, <1>4, <1>5, <1>6 DEF ScSteps

LEMMA RunKeeps == ASSUME TunnelInv, NEW t \in Tunnels, RunSteps(t) PROVE TunnelInv'
<1> USE DEF TunnelInv, Created, Early, loops, worker
<1>1. CASE Watch(t)
  <2>1. TypeOK'
    BY <1>1 DEF Watch, TypeOK
  <2>2. QED
    BY <1>1, <2>1 DEF Watch, LockInv, GroupInv, MakeInv, OneTunnelPerKey, LoopInv
<1>2. CASE TurnOff(t)
  <2>1. TypeOK'
    BY <1>2 DEF TurnOff, TypeOK
  <2>2. QED
    BY <1>2, <2>1 DEF TurnOff, LockInv, GroupInv, MakeInv, OneTunnelPerKey, LoopInv
<1>3. CASE TunnelStops(t)
  <2>1. TypeOK'
    BY <1>3 DEF TunnelStops, TypeOK
  <2>2. LoopInv'
    BY <1>3 DEF TunnelStops, LoopInv, TypeOK
  <2>3. QED
    BY <1>3, <2>1, <2>2 DEF TunnelStops, LockInv, GroupInv, MakeInv, OneTunnelPerKey
<1>4. QED
  BY <1>1, <1>2, <1>3 DEF RunSteps

-----------------------------------------------------------------------------
(* The worker.                                                                *)

\* Steps of the worker that tunnels, calls and groups do not see.
LEMMA WorkerMoves ==
  ASSUME TunnelInv, ctxDone' \in BOOLEAN, sending' \in BOOLEAN, chanClosed' \in BOOLEAN,
         chanLen' \in 0..ChanSize,
         UNCHANGED <<tunnelGroups, mu, call, tunnel, batch>>,
         stopPc' = stopPc \/ (stopPc = "none" /\ stopPc' = "lock")
           \/ (stopPc = "close" /\ stopPc' = "done")
  PROVE  TunnelInv'
<1> USE DEF TunnelInv, Created, Early, tunnel, loops
<1>1. TypeOK'
  BY DEF TypeOK
<1>2. LockInv' /\ GroupInv' /\ MakeInv' /\ OneTunnelPerKey' /\ LoopInv'
  BY DEF LockInv, GroupInv, MakeInv, OneTunnelPerKey, LoopInv
<1>3. QED
  BY <1>1, <1>2

LEMMA WorkerKeeps ==
  ASSUME TunnelInv, WorkerFails \/ SendLoop \/ StopBegins \/ StopCloses
  PROVE  TunnelInv'
<1>1. /\ ctxDone \in BOOLEAN /\ sending \in BOOLEAN /\ chanClosed \in BOOLEAN
      /\ chanLen \in 0..ChanSize
  BY DEF TunnelInv, TypeOK
<1>2. CASE WorkerFails
  <2>1. ctxDone' \in BOOLEAN
    BY <1>2 DEF WorkerFails
  <2>2. UNCHANGED <<tunnelGroups, mu, call, tunnel, stopPc, batch, sending, chanLen, chanClosed>>
    BY <1>2 DEF WorkerFails
  <2>3. QED
    BY <1>1, <2>1, <2>2, WorkerMoves
<1>3. CASE SendLoopTakes
  BY <1>1, <1>3, WorkerMoves, SizeAssumption DEF SendLoopTakes
<1>4. CASE SendLoopReturns
  <2>1. sending' \in BOOLEAN
    BY <1>4 DEF SendLoopReturns
  <2>2. UNCHANGED <<tunnelGroups, mu, call, tunnel, stopPc, batch, ctxDone, chanLen, chanClosed>>
    BY <1>4 DEF SendLoopReturns
  <2>3. QED
    BY <1>1, <2>1, <2>2, WorkerMoves
<1>5. CASE StopBegins
  BY <1>1, <1>5, WorkerMoves DEF StopBegins, worker
<1>6. CASE StopCloses
  <2>1. chanClosed' \in BOOLEAN /\ stopPc = "close" /\ stopPc' = "done"
    BY <1>6 DEF StopCloses
  <2>2. UNCHANGED <<tunnelGroups, mu, call, tunnel, batch, ctxDone, sending, chanLen>>
    BY <1>6 DEF StopCloses
  <2>3. QED
    BY <1>1, <2>1, <2>2, WorkerMoves
<1>7. QED
  BY <1>2, <1>3, <1>4, <1>5, <1>6 DEF SendLoop

\* tunnelManager.stop: with the lock nobody is in createTunnel.
LEMMA StopKeeps ==
  ASSUME TunnelInv, StopLocks \/ StopUnlocks \/ \E k \in Keys : StopGroup(TypeOf[k])
  PROVE  TunnelInv'
<1> USE DEF TunnelInv, Created, Early, tunnel, loops, worker
<1>1. CASE StopLocks
  <2>1. TypeOK'
    BY <1>1 DEF StopLocks, TypeOK
  <2>2. LockInv'
    BY <1>1, NoneAssumption DEF StopLocks, LockInv
  <2>3. QED
    BY <1>1, <2>1, <2>2 DEF StopLocks, GroupInv, MakeInv, OneTunnelPerKey, LoopInv
<1>2. CASE StopUnlocks
  <2>1. TypeOK'
    BY <1>2 DEF StopUnlocks, TypeOK
  <2>2. LockInv'
    BY <1>2, NoneAssumption DEF StopUnlocks, LockInv
  <2>3. QED
    BY <1>2, <2>1, <2>2 DEF StopUnlocks, GroupInv, MakeInv, OneTunnelPerKey, LoopInv
<1>3. ASSUME NEW k \in Keys, StopGroup(TypeOf[k]) PROVE TunnelInv'
  <2> DEFINE group == {i \in Keys : TypeOf[i] = TypeOf[k] /\ tunnelGroups[i] # None}
  <2>1. /\ batch' = {tunnelGroups[i] : i \in group}
        /\ tunnelGroups' = [i \in Keys |-> IF i \in group THEN None ELSE tunnelGroups[i]]
        /\ stopPc = "groups" /\ UNCHANGED <<mu, call, tunnel, stopPc, worker>>
    BY <1>3 DEF StopGroup
  <2>2. batch' \subseteq Created
    BY <2>1 DEF GroupInv
  <2>3. TypeOK'
    BY <2>1, <2>2 DEF TypeOK
  <2>4. GroupInv'
    BY <2>1 DEF GroupInv, TypeOK
  <2>5. LockInv'
    BY <2>1 DEF LockInv
  <2>6. QED
    BY <2>1, <2>3, <2>4, <2>5 DEF MakeInv, OneTunnelPerKey, LoopInv
<1>4. QED
  BY <1>1, <1>2, <1>3

LEMMA StopTunnelKeeps ==
  ASSUME TunnelInv, NEW t \in Tunnels, StopTunnelSteps(t)
  PROVE  TunnelInv'
<1> USE DEF TunnelInv, Created, Early, tunnel, loops, worker
<1>1. CASE StopTriggers(t)
  <2>1. TypeOK'
    BY <1>1 DEF StopTriggers, TypeOK
  <2>2. LockInv'
    BY <1>1 DEF StopTriggers, LockInv
  <2>3. QED
    BY <1>1, <2>1, <2>2 DEF StopTriggers, GroupInv, MakeInv, OneTunnelPerKey, LoopInv
<1>2. CASE StopTunnelReturns(t) \/ StopTunnelTimesOut(t)
  <2>1. batch' = batch \ {t} /\ UNCHANGED <<tunnelGroups, mu, call, tunnel, stopPc, worker>>
    BY <1>2 DEF StopTunnelReturns, StopTunnelTimesOut
  <2>2. TypeOK'
    BY <2>1 DEF TypeOK
  <2>3. QED
    BY <2>1, <2>2 DEF LockInv, GroupInv, MakeInv, OneTunnelPerKey, LoopInv
<1>3. QED
  BY <1>1, <1>2 DEF StopTunnelSteps

-----------------------------------------------------------------------------
LEMMA TunnelInit == Init => TunnelInv
<1> SUFFICES ASSUME Init PROVE TunnelInv
  OBVIOUS
<1>1. Created = {}
  BY DEF Init, Created
<1>2. TypeOK
  <2>1. ctxDone \in BOOLEAN /\ sending \in BOOLEAN /\ chanClosed \in BOOLEAN
    BY DEF Init
  <2>2. call \in [Callers -> [pc : {"idle", "create", "make", "forward", "send", "returned",
                                    "panicked"},
                              key : Keys \cup {None}, t : Tunnels \cup {None}]]
    BY DEF Init, NoCall
  <2>3. /\ tunnelGroups = [k \in Keys |-> None] /\ mu = None
        /\ key = [t \in Tunnels |-> None]
        /\ trig = {} /\ off = {} /\ egDone = {}
        /\ cs = [t \in Tunnels |-> "none"] /\ sc = [t \in Tunnels |-> "none"]
        /\ csLen = [t \in Tunnels |-> 0] /\ onStop = [t \in Tunnels |-> 0]
        /\ stopPc = "none" /\ batch = {} /\ chanLen = 0
    BY DEF Init
  <2>4. QED
    BY <2>1, <2>2, <2>3, SizeAssumption DEF TypeOK
<1>3. LockInv
  BY NoneAssumption DEF Init, LockInv, NoCall, Early
<1>4. GroupInv /\ MakeInv /\ OneTunnelPerKey /\ LoopInv
  BY <1>1 DEF Init, GroupInv, MakeInv, OneTunnelPerKey, LoopInv, NoCall
<1>5. QED
  BY <1>2, <1>3, <1>4 DEF TunnelInv

LEMMA TunnelStep == TunnelInv /\ [Next]_vars => TunnelInv'
<1> SUFFICES ASSUME TunnelInv, [Next]_vars PROVE TunnelInv'
  OBVIOUS
<1>1. CASE Next
  BY <1>1, CallKeeps, LookupKeeps, CsKeeps, ScKeeps, HandleKeeps, RunKeeps, WorkerKeeps, StopKeeps,
     StopTunnelKeeps DEF Next, StopSteps
<1>2. CASE UNCHANGED vars
  BY <1>2 DEF vars, TunnelInv, TypeOK, LockInv, GroupInv, MakeInv, LoopInv,
     OneTunnelPerKey, Created, Early, tunnel, loops, worker
<1>3. QED
  BY <1>1, <1>2

\* TunnelInv is inductive.
THEOREM TunnelInvariant == Spec => []TunnelInv
BY TunnelInit, TunnelStep, PTL DEF Spec

\* Until tunnelManager.stop takes over, two calls of Worker.Tunnel that both miss the
\* tunnel of a key in the lookup do not make it twice.
THEOREM OnePerKey == Spec => []OneTunnelPerKey
<1>1. TunnelInv => OneTunnelPerKey
  BY DEF TunnelInv
<1>2. QED
  BY <1>1, TunnelInvariant, PTL

\* The application's OnStop is called at most once per tunnel, and with both loops
\* over.
THEOREM StopAfterLoops == Spec => []OnStopAfterLoops
<1>1. TunnelInv => OnStopAfterLoops
  BY DEF TunnelInv, LoopInv, OnStopAfterLoops
<1>2. QED
  BY <1>1, TunnelInvariant, PTL

(***************************************************************************)
(* PushErrorWindow.                                                         *)
(***************************************************************************)

\* The continuous errors of the current window, and those before it that may still
\* be recent.
Current == {e \in errs : e[1] >= recordPushErrStartAt}
Previous == {e \in errs : /\ e[1] < recordPushErrStartAt
                          /\ recordPushErrStartAt - e[1] <= Window}

\* The errors are numbered, and none is later than the current window reaches.
ErrsInv ==
  /\ IsFiniteSet(errs)
  /\ \A e \in errs : e[2] < Cardinality(errs) /\ e[1] <= recordPushErrStartAt + Window

\* The count is that of the current window; the window before did not exceed the
\* limit, since it did not end the tunnel.
CountInv ==
  /\ Cardinality(Current) = recordPushErrCount
  /\ Cardinality(Previous) <= Limit
  /\ loop = "runs" => recordPushErrCount <= Limit

WindowInv == WindowTypeOK /\ ErrsInv /\ CountInv

-----------------------------------------------------------------------------
\* A subset of the errors is finite.
LEMMA ErrsSubset ==
  ASSUME NEW S, IsFiniteSet(S), NEW R \in SUBSET S
  PROVE  IsFiniteSet(R) /\ Cardinality(R) \in Nat /\ Cardinality(R) <= Cardinality(S)
BY FS_Subset, FS_CardinalityType

\* Initially nothing was counted.
LEMMA WindowInvInit ==
  ASSUME WindowAssumption, WindowInit
  PROVE  WindowInv
<1>1. Current = {} /\ Previous = {}
  BY DEF WindowInit, Current, Previous
<1>2. IsFiniteSet({}) /\ Cardinality({}) = 0
  BY FS_EmptySet
<1>3. WindowTypeOK
  BY DEF WindowAssumption, WindowInit, WindowTypeOK
<1>4. ErrsInv
  BY <1>2 DEF WindowInit, ErrsInv
<1>5. CountInv
  <2>1. Cardinality(Current) = 0 /\ Cardinality(Previous) = 0
    BY <1>1, <1>2
  <2>2. recordPushErrCount = 0 /\ 0 <= Limit
    BY DEF WindowAssumption, WindowInit
  <2>3. QED
    BY <2>1, <2>2 DEF CountInv
<1>6. QED
  BY <1>3, <1>4, <1>5 DEF WindowInv

\* What recordPushErr adds to the errors is a new one.
LEMMA NewError ==
  ASSUME WindowAssumption, WindowInv, recordPushErr
  PROVE  LET e == <<now, Cardinality(errs)>> IN
         /\ e \notin errs /\ errs' = errs \cup {e} /\ e[1] = now
         /\ IsFiniteSet(errs') /\ Cardinality(errs') = Cardinality(errs) + 1
         /\ Cardinality(errs) \in Nat
<1>1. IsFiniteSet(errs) /\ Cardinality(errs) \in Nat
  BY FS_CardinalityType DEF WindowInv, ErrsInv
<1>2. <<now, Cardinality(errs)>> \notin errs
  BY <1>1 DEF WindowInv, ErrsInv
<1>3. errs' = errs \cup {<<now, Cardinality(errs)>>}
  BY DEF recordPushErr
<1>4. IsFiniteSet(errs') /\ Cardinality(errs') = Cardinality(errs) + 1
  BY <1>1, <1>2, <1>3, FS_AddElement
<1>5. QED
  BY <1>1, <1>2, <1>3, <1>4

\* An error within the window is counted in it.
LEMMA ErrorInWindow ==
  ASSUME WindowAssumption, WindowInv, recordPushErr,
         now - recordPushErrStartAt <= Window
  PROVE  WindowInv'
<1> DEFINE e == <<now, Cardinality(errs)>>
<1>1. /\ e \notin errs /\ errs' = errs \cup {e} /\ e[1] = now /\ e[2] = Cardinality(errs)
      /\ IsFiniteSet(errs') /\ Cardinality(errs') = Cardinality(errs) + 1
      /\ Cardinality(errs) \in Nat
  BY NewError
<1>2. /\ recordPushErrStartAt' = recordPushErrStartAt /\ now' = now
      /\ recordPushErrCount' = recordPushErrCount + 1
      /\ loop' = IF recordPushErrCount + 1 > Limit THEN "overload" ELSE "runs"
      /\ loop = "runs"
  BY DEF recordPushErr, WindowInv, WindowTypeOK, WindowAssumption, LongAgo
<1>3. /\ now \in Nat /\ recordPushErrStartAt \in Int /\ recordPushErrStartAt <= now
      /\ recordPushErrCount \in Nat /\ recordPushErrCount <= Limit /\ Limit \in Nat /\ Window \in Nat
  BY <1>2 DEF WindowInv, WindowTypeOK, CountInv, WindowAssumption, LongAgo
<1>4. Current' = Current \cup {e} /\ e \notin Current /\ Previous' = Previous
  <2>1. Current' = {x \in errs' : x[1] >= recordPushErrStartAt}
    BY <1>2 DEF Current
  <2>2. Previous' = {x \in errs' : x[1] < recordPushErrStartAt /\ recordPushErrStartAt - x[1] <= Window}
    BY <1>2 DEF Previous
  <2>3. now >= recordPushErrStartAt /\ ~ (now < recordPushErrStartAt)
    BY <1>3
  <2>4. QED
    BY <2>1, <2>2, <2>3, <1>1 DEF Current, Previous
<1>5. IsFiniteSet(Current) /\ Cardinality(Current') = Cardinality(Current) + 1
  BY <1>4, ErrsSubset, FS_AddElement DEF WindowInv, ErrsInv, Current
<1>6. ErrsInv'
  <2>1. \A x \in errs' : x[2] < Cardinality(errs) + 1 /\ x[1] <= recordPushErrStartAt + Window
    <3> SUFFICES ASSUME NEW x \in errs'
                 PROVE  x[2] < Cardinality(errs) + 1 /\ x[1] <= recordPushErrStartAt + Window
      OBVIOUS
    <3>1. CASE x = e
      BY <3>1, <1>1, <1>3
    <3>2. CASE x \in errs
      <4>1. x[2] \in Nat /\ x[2] < Cardinality(errs) /\ x[1] <= recordPushErrStartAt + Window
        BY <3>2 DEF WindowInv, ErrsInv, WindowTypeOK
      <4>2. QED
        BY <4>1, <1>1
    <3>3. QED
      BY <3>1, <3>2, <1>1
  <2>2. QED
    BY <2>1, <1>1, <1>2 DEF ErrsInv
<1>7. CountInv'
  <2>1. Cardinality(Current') = recordPushErrCount' /\ Cardinality(Previous') <= Limit
    BY <1>2, <1>4, <1>5 DEF CountInv, WindowInv
  <2>2. loop' = "runs" => recordPushErrCount' <= Limit
    BY <1>2, <1>3
  <2>3. QED
    BY <2>1, <2>2 DEF CountInv
<1>8. WindowTypeOK'
  <2>1. errs' \subseteq (0..now) \X Nat
    BY <1>1, <1>3 DEF WindowInv, WindowTypeOK
  <2>2. QED
    BY <1>2, <1>3, <2>1 DEF WindowInv, WindowTypeOK
<1>9. QED
  BY <1>6, <1>7, <1>8 DEF WindowInv

\* An error after the window opens a new one; the errors that are still recent are
\* of the window that ended.
LEMMA ErrorOpensWindow ==
  ASSUME WindowAssumption, WindowInv, recordPushErr,
         now - recordPushErrStartAt > Window
  PROVE  WindowInv'
<1> DEFINE e == <<now, Cardinality(errs)>>
<1>1. /\ e \notin errs /\ errs' = errs \cup {e} /\ e[1] = now /\ e[2] = Cardinality(errs)
      /\ IsFiniteSet(errs') /\ Cardinality(errs') = Cardinality(errs) + 1
      /\ Cardinality(errs) \in Nat
  BY NewError
<1>2. /\ recordPushErrStartAt' = now /\ now' = now
      /\ recordPushErrCount' = 1
      /\ loop' = IF 1 > Limit THEN "overload" ELSE "runs"
      /\ loop = "runs"
  BY DEF recordPushErr
<1>3. /\ now \in Nat /\ recordPushErrStartAt \in Int /\ recordPushErrStartAt <= now
      /\ recordPushErrCount \in Nat /\ recordPushErrCount <= Limit /\ Limit \in Nat /\ Window \in Nat
  BY <1>2 DEF WindowInv, WindowTypeOK, CountInv, WindowAssumption, LongAgo
<1>4. \A x \in errs : x[1] \in Nat /\ x[1] < now /\ x[2] \in Nat /\ x[2] < Cardinality(errs)
  BY <1>3 DEF WindowInv, ErrsInv, WindowTypeOK
<1>5. Current' = {e}
  <2>1. Current' = {x \in errs' : x[1] >= now}
    BY <1>2 DEF Current
  <2>2. QED
    BY <2>1, <1>1, <1>3, <1>4
<1>6. Previous' \subseteq Current
  <2>1. Previous' = {x \in errs' : x[1] < now /\ now - x[1] <= Window}
    BY <1>2 DEF Previous
  <2>2. QED
    BY <2>1, <1>1, <1>3, <1>4 DEF Current
<1>7. IsFiniteSet(Current) /\ Cardinality(Current) = recordPushErrCount
  BY ErrsSubset DEF WindowInv, ErrsInv, CountInv, Current
<1>8. Cardinality(Previous') \in Nat /\ Cardinality(Previous') <= Limit
  BY <1>3, <1>6, <1>7, ErrsSubset
<1>9. Cardinality(Current') = 1
  BY <1>5, FS_Singleton
<1>10. ErrsInv'
  <2>1. \A x \in errs' : x[2] < Cardinality(errs) + 1 /\ x[1] <= now + Window
    BY <1>1, <1>3, <1>4
  <2>2. QED
    BY <2>1, <1>1, <1>2 DEF ErrsInv
<1>11. CountInv'
  <2>1. loop' = "runs" => recordPushErrCount' <= Limit
    BY <1>2, <1>3
  <2>2. QED
    BY <1>2, <1>8, <1>9, <2>1 DEF CountInv
<1>12. WindowTypeOK'
  <2>1. errs' \subseteq (0..now) \X Nat
    BY <1>1, <1>3 DEF WindowInv, WindowTypeOK
  <2>2. QED
    BY <1>2, <1>3, <2>1 DEF WindowInv, WindowTypeOK
<1>13. QED
  BY <1>10, <1>11, <1>12 DEF WindowInv

\* Every step preserves the invariant.
LEMMA WindowStep ==
  ASSUME WindowAssumption, WindowInv, [WindowNext]_windowVars
  PROVE  WindowInv'
<1>1. CASE Elapse
  <2>1. Current' = Current /\ Previous' = Previous
    BY <1>1 DEF Elapse, Current, Previous
  <2>2. QED
    BY <1>1, <2>1 DEF Elapse, WindowInv, WindowTypeOK, ErrsInv, CountInv, WindowAssumption
<1>2. CASE PushOk
  <2>1. errs' = {} /\ Current' = {} /\ Previous' = {}
    BY <1>2 DEF PushOk, Current, Previous
  <2>2. IsFiniteSet({}) /\ Cardinality({}) = 0
    BY FS_EmptySet
  <2>3. QED
    BY <1>2, <2>1, <2>2 DEF PushOk, WindowInv, WindowTypeOK, ErrsInv, CountInv, WindowAssumption
<1>3. CASE recordPushErr
  <2>1. now - recordPushErrStartAt <= Window \/ now - recordPushErrStartAt > Window
    BY DEF WindowInv, WindowTypeOK, WindowAssumption, LongAgo
  <2>2. QED
    BY <1>3, <2>1, ErrorInWindow, ErrorOpensWindow
<1>4. CASE UNCHANGED windowVars
  BY <1>4 DEF windowVars, WindowInv, WindowTypeOK, ErrsInv, CountInv, Current, Previous
<1>5. QED
  BY <1>1, <1>2, <1>3, <1>4 DEF WindowNext

\* The inductive invariant: the count is the number of the current window's errors,
\* and the errors of the window before it are within the limit.
THEOREM WindowInvariant == ASSUME WindowAssumption PROVE WindowSpec => []WindowInv
BY WindowInvInit, WindowStep, PTL DEF WindowSpec

\* However the windows of recordPushErr fall, no tunnel goes on with more than twice
\* the limit of continuous errors within a window's time.
THEOREM PersistentEnd == ASSUME WindowAssumption PROVE WindowSpec => []PersistentErrorsEnd
<1>1. ASSUME WindowInv PROVE PersistentErrorsEnd
  <2> SUFFICES ASSUME loop = "runs" PROVE ~ (Cardinality(Recent(Window)) > 2 * Limit)
    BY <1>1 DEF PersistentErrorsEnd, WindowInv, WindowTypeOK
  <2>1. /\ IsFiniteSet(Current) /\ Cardinality(Current) \in Nat /\ Cardinality(Current) <= Limit
        /\ IsFiniteSet(Previous) /\ Cardinality(Previous) \in Nat /\ Cardinality(Previous) <= Limit
    BY <1>1, ErrsSubset DEF WindowInv, ErrsInv, CountInv, Current, Previous
  <2>2. Recent(Window) \subseteq Current \cup Previous
    BY <1>1 DEF WindowInv, WindowTypeOK, Recent, Current, Previous, WindowAssumption, LongAgo
  <2>3. Cardinality(Current \cap Previous) = 0
    <3>1. Current \cap Previous = {}
      BY <1>1 DEF WindowInv, WindowTypeOK, Current, Previous, WindowAssumption, LongAgo
    <3>2. QED
      BY <3>1, FS_EmptySet
  <2>4. /\ IsFiniteSet(Current \cup Previous)
        /\ Cardinality(Current \cup Previous) = Cardinality(Current) + Cardinality(Previous)
    <3>1. /\ IsFiniteSet(Current \cup Previous)
          /\ Cardinality(Current \cup Previous)
               = Cardinality(Current) + Cardinality(Previous) - Cardinality(Current \cap Previous)
      BY <2>1, FS_Union, Zenon
    <3>2. QED
      BY <2>1, <2>3, <3>1
  <2>5. /\ Cardinality(Recent(Window)) \in Nat
        /\ Cardinality(Recent(Window)) <= Cardinality(Current \cup Previous)
    BY <2>2, <2>4, ErrsSubset
  <2>6. QED
    BY <2>1, <2>4, <2>5 DEF WindowAssumption
<1>2. QED
  BY <1>1, WindowInvariant, PTL

\* recordPushErr gives a tunnel up only for more errors than the limit, in a row and
\* within one window's time.
THEOREM Earned == ASSUME WindowAssumption PROVE WindowSpec => OverloadIsEarned
<1>1. ASSUME WindowInv, [WindowNext]_windowVars, WindowInv'
      PROVE  loop = "runs" /\ loop' = "overload" => Cardinality(Recent(Window)') > Limit
  <2> SUFFICES ASSUME loop = "runs", loop' = "overload" PROVE Cardinality(Recent(Window)') > Limit
    OBVIOUS
  <2>1. recordPushErr
    BY <1>1 DEF WindowNext, windowVars, Elapse, PushOk
  <2>2. recordPushErrCount' > Limit
    BY <2>1 DEF recordPushErr
  <2>3. now' - recordPushErrStartAt' <= Window
    BY <1>1, <2>1 DEF recordPushErr, WindowInv, WindowTypeOK, WindowAssumption, LongAgo
  <2>4. Current' \subseteq Recent(Window)'
    <3>1. \A e \in errs' : e[1] >= recordPushErrStartAt' => now' - e[1] <= Window
      <4>1. \A e \in errs' : e[1] \in Int
        BY <1>1 DEF WindowInv, WindowTypeOK
      <4>2. now' \in Int /\ recordPushErrStartAt' \in Int /\ Window \in Int
        BY <1>1 DEF WindowInv, WindowTypeOK, WindowAssumption, LongAgo
      <4>3. \A k \in Int : k >= recordPushErrStartAt' => now' - k <= Window
        <5>1. \A n, s, w, k \in Int : n - s <= w /\ k >= s => n - k <= w
          OBVIOUS
        <5>2. QED
          BY <4>2, <2>3, <5>1, Zenon
      <4>4. QED
        BY <4>1, <4>3, Zenon
    <3>2. QED
      BY <3>1 DEF Current, Recent
  <2>5. /\ IsFiniteSet(Recent(Window)') /\ Cardinality(Recent(Window)') \in Nat
        /\ Cardinality(Current') <= Cardinality(Recent(Window)')
        /\ Cardinality(Current') \in Nat
    <3>1. IsFiniteSet(errs') /\ Recent(Window)' \subseteq errs'
      BY <1>1 DEF WindowInv, ErrsInv, Recent
    <3>2. IsFiniteSet(Recent(Window)') /\ Cardinality(Recent(Window)') \in Nat
      BY <3>1, ErrsSubset
    <3>3. QED
      BY <3>2, <2>4, ErrsSubset
  <2>6. Cardinality(Current') = recordPushErrCount' /\ Limit \in Nat /\ recordPushErrCount' \in Nat
    BY <1>1 DEF WindowInv, CountInv, WindowTypeOK, WindowAssumption
  <2>7. QED
    BY <2>2, <2>5, <2>6
<1>2. QED
  BY <1>1, WindowInvariant, PTL DEF OverloadIsEarned, WindowSpec

=============================================================================
