------------------------------ MODULE Registry ------------------------------
(***************************************************************************)
(* The registry of workers as BaseServer's Push, Multicast and Broadcast see  *)
(* it: a worker is stored, then it is the one its user is found by until      *)
(* another connection of the same user is named, and it is removed once.  The *)
(* order is that of Put and Del, not that of the comment on uidWidMap         *)
(* (workermanager.go:11): the worker is stored before it is named, and the    *)
(* name stays when the worker is removed.  There are no ids, no buckets and   *)
(* no keys here: WorkerManager.tla has those.                                 *)
(***************************************************************************)

CONSTANTS
  Workers,   \* one per connection
  Uids,      \* users
  NoWorker

ASSUME RegistryAssumption == NoWorker \notin Workers

VARIABLES
  uid,     \* per worker: its user
  put,     \* per worker: how far its Put is
  here,    \* the workers that are stored
  latest   \* per user: the worker found by it

registry == <<uid, put, here, latest>>

Init ==
  /\ uid \in [Workers -> Uids]
  /\ put = [w \in Workers |-> "new"]
  /\ here = {}
  /\ latest = [u \in Uids |-> NoWorker]

Add(w) ==
  /\ put[w] = "new"
  /\ put' = [put EXCEPT ![w] = "stored"]
  /\ here' = here \cup {w}
  /\ UNCHANGED <<uid, latest>>

Name(w) ==
  /\ put[w] = "stored"
  /\ put' = [put EXCEPT ![w] = "named"]
  /\ latest' = [latest EXCEPT ![uid[w]] = w]
  /\ UNCHANGED <<uid, here>>

Remove(w) ==
  /\ w \in here
  /\ here' = here \ {w}
  /\ UNCHANGED <<uid, put, latest>>

Next == \E w \in Workers : Add(w) \/ Name(w) \/ Remove(w)

Spec == Init /\ [][Next]_registry

=============================================================================
