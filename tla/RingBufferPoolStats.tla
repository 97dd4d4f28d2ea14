------------------------- MODULE RingBufferPoolStats -------------------------
(***************************************************************************)
(* Stats of internal/ringpool/pool.go, called while clients allocate and    *)
(* free: it reads five counters one after the other.                        *)
(***************************************************************************)
EXTENDS RingBufferPool

CONSTANT Word   \* 2^64 in the code: the counters' arithmetic is modulo Word

ASSUME WordAssumption == Word \in Nat /\ Word > 2 * Capacity

VARIABLES
  reading,   \* the next counter Stats loads; "none" outside a call
  shead,     \* the local head of available()
  result     \* the fields of PoolStats filled so far

svars == <<reading, shead, result>>

StatsInit ==
  /\ Init
  /\ reading = "none"
  /\ shead = 0
  /\ result = [alloc |-> 0, free |-> 0, fallback |-> 0, available |-> Capacity]

\* Load the counter `name` into its field and go on with `next`.
LoadCounter(name, value, next) ==
  /\ reading = name
  /\ result' = [result EXCEPT ![name] = value]
  /\ reading' = next
  /\ UNCHANGED <<vars, shead>>

StatsCall ==
  /\ reading = "none"
  /\ reading' = "alloc"
  /\ UNCHANGED <<vars, shead, result>>

StatsAlloc    == LoadCounter("alloc", allocCount, "free")
StatsFree     == LoadCounter("free", freeCount, "fallback")
StatsFallback == LoadCounter("fallback", fallbackCount, "availHead")

\* available(): head first,
AvailableHead ==
  /\ reading = "availHead"
  /\ shead' = head
  /\ reading' = "availTail"
  /\ UNCHANGED <<vars, result>>

\* then tail, and capacity - (head - tail) in uint64.
AvailableTail ==
  /\ reading = "availTail"
  /\ result' = [result EXCEPT !.available = (Capacity - (shead - tail)) % Word]
  /\ reading' = "none"
  /\ shead' = 0
  /\ UNCHANGED vars

Stats ==
  \/ StatsCall \/ StatsAlloc \/ StatsFree \/ StatsFallback
  \/ AvailableHead \/ AvailableTail

StatsNext == Stats \/ (Next /\ UNCHANGED svars)

StatsSpec == StatsInit /\ [][StatsNext]_<<vars, svars>>

-----------------------------------------------------------------------------
\* Type invariant.
StatsTypeOK ==
  /\ TypeOK
  /\ reading \in {"none", "alloc", "free", "fallback", "availHead", "availTail"}
  /\ shead \in Nat
  /\ result \in [alloc : Nat, free : Nat, fallback : Nat, available : 0..(Word - 1)]

\* However clients move head and tail between the two loads of available(), the
\* subtraction never wraps below zero: because head is loaded first, the local
\* head is at most one ring ahead of the tail that is loaded later.  (The result
\* may be up to the number of frees in between too high.)
AvailableNeverWraps == reading = "availTail" => shead <= tail + Capacity

\* Stats.Available is at most Stats.RingSize, as the utilisation formula in the
\* package's README presumes.
AvailableWithinRing == result.available <= Capacity

=============================================================================
