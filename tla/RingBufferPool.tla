--------------------------- MODULE RingBufferPool ---------------------------
(***************************************************************************)
(* The lock-free buffer pool of internal/ringpool/pool.go.                  *)
(*                                                                          *)
(* A client is one buffer lifetime at a time: it calls Alloc, uses the      *)
(* buffer, calls Free and may start over.  The goroutine that runs a call   *)
(* plays no part in the algorithm, so a goroutine that holds several        *)
(* buffers, or hands one to another goroutine, is several clients.  Every   *)
(* atomic operation of Alloc and Free is a step of its own.                 *)
(*                                                                          *)
(* The position counters are unbounded here; in the code they are uint64    *)
(* and would wrap only after 2^64 allocations.                              *)
(***************************************************************************)
EXTENDS Integers, FiniteSets

CONSTANTS
  Clients,    \* concurrent buffer lifetimes
  Capacity,   \* number of buffers in the ring
  Spare,      \* identities of the buffers made by fallbackPool.New
  Heap,       \* a buffer outside the size class: made by make, left to the GC
  NoBuf,      \* the client has no buffer
  MaxAllocs   \* bound: calls of Alloc in one behaviour

\* NewRingBufferPool rejects every other capacity, so head & mask is
\* head % capacity.
IsPowerOfTwo(n) == \E k \in 0..n : n = 2^k

Slots == 0..(Capacity - 1)

Bufs == Slots \cup Spare

ASSUME CapacityAssumption == Capacity \in Nat \ {0} /\ IsPowerOfTwo(Capacity)

ASSUME ClientsAssumption == IsFiniteSet(Clients)

ASSUME BufAssumption ==
  /\ Spare \cap Slots = {}
  /\ Heap \notin Bufs
  /\ NoBuf \notin Bufs \cup {Heap}

ASSUME BoundAssumption == MaxAllocs \in Nat

VARIABLES
  head, tail,     \* next position to allocate, next position to free
  slotStates,     \* 0 = available, 1 = allocated
  content,        \* what a buffer holds: "zero" or "data"
  pooled,         \* buffers in fallbackPool
  pc, buf,        \* per client: where it is, the buffer it works on
  lhead,          \* per client: the local head of Alloc
  allocCount, freeCount, fallbackCount

ring  == <<head, tail, slotStates>>
local == <<pc, buf, lhead>>
stats == <<allocCount, freeCount, fallbackCount>>
vars  == <<ring, content, pooled, local, stats>>

AllocPcs == {"loadHead", "loadTail", "casHead", "casSlot", "fallback"}
FreePcs  == {"clear", "store", "addTail", "put"}

Goto(c, label) == pc' = [pc EXCEPT ![c] = label]

\* Alloc returns b to client c; its locals are gone.
Return(c, b) ==
  /\ Goto(c, "held")
  /\ buf' = [buf EXCEPT ![c] = b]
  /\ lhead' = [lhead EXCEPT ![c] = 0]

\* Free returns; client c has no buffer any more.
Released(c) ==
  /\ Goto(c, "idle")
  /\ buf' = [buf EXCEPT ![c] = NoBuf]
  /\ UNCHANGED lhead

-----------------------------------------------------------------------------
\* NewRingBufferPool: every slot available, every buffer zeroed by make.
Init ==
  /\ head = 0 /\ tail = 0
  /\ slotStates = [i \in Slots |-> 0]
  /\ content = [b \in Bufs |-> "zero"]
  /\ pooled = {}
  /\ pc = [c \in Clients |-> "idle"]
  /\ buf = [c \in Clients |-> NoBuf]
  /\ lhead = [c \in Clients |-> 0]
  /\ allocCount = 0 /\ freeCount = 0 /\ fallbackCount = 0

\* Alloc(size) with 0 < size <= bufferSize enters the loop.
AllocCall(c) ==
  /\ pc[c] = "idle"
  /\ allocCount < MaxAllocs
  /\ allocCount' = allocCount + 1
  /\ Goto(c, "loadHead")
  /\ UNCHANGED <<ring, content, pooled, buf, lhead, freeCount, fallbackCount>>

\* Alloc(size) with size <= 0 or size > bufferSize returns a heap slice.
AllocHeap(c) ==
  /\ pc[c] = "idle"
  /\ allocCount < MaxAllocs
  /\ allocCount' = allocCount + 1
  /\ Return(c, Heap)
  /\ UNCHANGED <<ring, content, pooled, freeCount, fallbackCount>>

\* head := p.head.Load()
AllocLoadHead(c) ==
  /\ pc[c] = "loadHead"
  /\ lhead' = [lhead EXCEPT ![c] = head]
  /\ Goto(c, "loadTail")
  /\ UNCHANGED <<ring, content, pooled, buf, stats>>

\* Mutant of AllocLoadTail: no test for a full ring.
AllocSkipsFullTest(c) ==
  /\ pc[c] = "loadTail"
  /\ Goto(c, "casHead")
  /\ UNCHANGED <<ring, content, pooled, buf, lhead, stats>>

\* tail := p.tail.Load(), and the test for a full ring.
AllocLoadTail(c) ==
  /\ pc[c] = "loadTail"
  /\ Goto(c, IF lhead[c] = tail + Capacity THEN "fallback" ELSE "casHead")
  /\ UNCHANGED <<ring, content, pooled, buf, lhead, stats>>

\* p.head.CompareAndSwap(head, head+1); a failed swap starts the loop again.
AllocCasHead(c) ==
  /\ pc[c] = "casHead"
  /\ IF head = lhead[c]
       THEN head' = head + 1 /\ Goto(c, "casSlot")
       ELSE head' = head /\ Goto(c, "loadHead")
  /\ UNCHANGED <<tail, slotStates, content, pooled, buf, lhead, stats>>

\* Mutant of AllocCasSlot: a Store in place of the CompareAndSwap.
AllocStoresSlot(c) ==
  /\ pc[c] = "casSlot"
  /\ slotStates' = [slotStates EXCEPT ![lhead[c] % Capacity] = 1]
  /\ Return(c, lhead[c] % Capacity)
  /\ UNCHANGED <<head, tail, content, pooled, stats>>

\* p.slotStates[index].CompareAndSwap(0, 1); when the slot is still allocated
\* the loop starts again, and the position taken from head is not given back.
AllocCasSlot(c) ==
  /\ pc[c] = "casSlot"
  /\ LET index == lhead[c] % Capacity
     IN  IF slotStates[index] = 0
           THEN /\ slotStates' = [slotStates EXCEPT ![index] = 1]
                /\ Return(c, index)
           ELSE /\ Goto(c, "loadHead")
                /\ UNCHANGED <<slotStates, buf, lhead>>
  /\ UNCHANGED <<head, tail, content, pooled, stats>>

\* A buffer of fallbackPool nobody works on: one that was Put there, or a fresh
\* one from New (sync.Pool may miss, and drops buffers at a garbage collection).
SpareFree(b) == b \in Spare /\ \A c \in Clients : buf[c] # b

\* fallbackCount.Add(1) and fallbackPool.Get().
AllocFallback(c) ==
  /\ pc[c] = "fallback"
  /\ fallbackCount' = fallbackCount + 1
  /\ \E b \in Spare :
       /\ SpareFree(b)
       /\ pooled' = pooled \ {b}
       /\ content' = IF b \in pooled THEN content
                                     ELSE [content EXCEPT ![b] = "zero"]
       /\ Return(c, b)
  /\ UNCHANGED <<ring, allocCount, freeCount>>

\* The client uses its buffer.
Write(c) ==
  /\ pc[c] = "held"
  /\ buf[c] \in Bufs
  /\ content' = [content EXCEPT ![buf[c]] = "data"]
  /\ UNCHANGED <<ring, pooled, local, stats>>

\* Free: a heap slice is only counted.
FreeCall(c) ==
  /\ pc[c] = "held"
  /\ freeCount' = freeCount + 1
  /\ IF buf[c] \in Bufs
       THEN Goto(c, "clear") /\ UNCHANGED <<buf, lhead>>
       ELSE Released(c)
  /\ UNCHANGED <<ring, content, pooled, allocCount, fallbackCount>>

\* Mutant of FreeClear: clearBuffer only for fallback buffers.
FreeSkipsClear(c) ==
  /\ pc[c] = "clear"
  /\ content' = IF buf[c] \in Slots THEN content ELSE [content EXCEPT ![buf[c]] = "zero"]
  /\ Goto(c, IF buf[c] \in Slots THEN "store" ELSE "put")
  /\ UNCHANGED <<ring, pooled, buf, lhead, stats>>

\* clearBuffer, for a buffer of the ring (isRingBuffer) and of the fallback.
FreeClear(c) ==
  /\ pc[c] = "clear"
  /\ content' = [content EXCEPT ![buf[c]] = "zero"]
  /\ Goto(c, IF buf[c] \in Slots THEN "store" ELSE "put")
  /\ UNCHANGED <<ring, pooled, buf, lhead, stats>>

\* p.slotStates[index].Store(0)
FreeStore(c) ==
  /\ pc[c] = "store"
  /\ slotStates' = [slotStates EXCEPT ![buf[c]] = 0]
  /\ buf' = [buf EXCEPT ![c] = NoBuf]
  /\ Goto(c, "addTail")
  /\ UNCHANGED <<head, tail, content, pooled, lhead, stats>>

\* p.tail.Add(1)
FreeTail(c) ==
  /\ pc[c] = "addTail"
  /\ tail' = tail + 1
  /\ Released(c)
  /\ UNCHANGED <<head, slotStates, content, pooled, stats>>

\* p.fallbackPool.Put(&b)
FreePut(c) ==
  /\ pc[c] = "put"
  /\ pooled' = pooled \cup {buf[c]}
  /\ Released(c)
  /\ UNCHANGED <<ring, content, stats>>

\* The steps of a call that has been made: the scheduler runs them.
Step(c) ==
  \/ AllocLoadHead(c) \/ AllocLoadTail(c) \/ AllocCasHead(c) \/ AllocCasSlot(c)
  \/ AllocFallback(c)
  \/ FreeClear(c) \/ FreeStore(c) \/ FreeTail(c) \/ FreePut(c)

\* What the clients decide.
Use(c) == AllocCall(c) \/ AllocHeap(c) \/ Write(c) \/ FreeCall(c)

Next == \E c \in Clients : Use(c) \/ Step(c)

Spec == Init /\ [][Next]_vars

-----------------------------------------------------------------------------
(***************************************************************************)
(* Properties.                                                              *)
(***************************************************************************)
\* Type invariant.
TypeOK ==
  /\ head \in Nat /\ tail \in Nat
  /\ slotStates \in [Slots -> {0, 1}]
  /\ content \in [Bufs -> {"zero", "data"}]
  /\ pooled \in SUBSET Spare
  /\ pc \in [Clients -> {"idle", "held"} \cup AllocPcs \cup FreePcs]
  /\ buf \in [Clients -> Bufs \cup {Heap, NoBuf}]
  /\ lhead \in [Clients -> Nat]
  /\ allocCount \in 0..MaxAllocs /\ freeCount \in Nat /\ fallbackCount \in Nat

\* No buffer is in the hands of two clients, from the moment Alloc returns it
\* until Free has marked its slot available or Put it back.
ExclusiveOwnership ==
  \A c1, c2 \in Clients : c1 # c2 /\ buf[c1] = buf[c2] => buf[c1] \notin Bufs

\* A slot is marked allocated exactly while some client has its buffer: no slot
\* is handed out without its mark, and none stays marked with nobody to free it.
SlotsMatchOwners ==
  \A i \in Slots : slotStates[i] = 1 <=> \E c \in Clients : buf[c] = i

\* The clients that hold a position of the ring: taken from head and not yet
\* added to tail.
InRing ==
  {c \in Clients : \/ pc[c] \in {"casSlot", "addTail"}
                   \/ buf[c] \in Slots}

\* The counters bound what is outstanding: the positions in use are among
\* those between tail and head, and these never exceed the ring.  Hence
\* head == tail+capacity in Alloc is hit before head can run past the ring.
PositionsBounded ==
  /\ tail + Cardinality(InRing) <= head
  /\ head <= tail + Capacity

\* A buffer nobody owns holds only zeros, although Free clears it while other
\* clients race for its slot; Alloc never returns another client's data.
FreeBuffersZeroed ==
  /\ \A i \in Slots : slotStates[i] = 0 => content[i] = "zero"
  /\ \A b \in pooled : content[b] = "zero"

\* No call is in progress.
Quiescent == \A c \in Clients : pc[c] \in {"idle", "held"}

\* What available() computes when it runs alone.
available == Capacity - (head - tail)

FreeSlots == {i \in Slots : slotStates[i] = 0}

\* Between calls Stats.Available is the number of available buffers, as the
\* comment of available() says.
AvailableIsExact == Quiescent => available = Cardinality(FreeSlots)

\* The buffer a client holds between the return of Alloc and the call of Free,
\* and what it reads there.
lent == [c \in Clients |-> IF pc[c] = "held" THEN buf[c] ELSE NoBuf]

seen == [c \in Clients |-> IF pc[c] = "held" /\ buf[c] \in Bufs
                            THEN content[buf[c]] ELSE "zero"]

Lender == INSTANCE BufferLender

\* The pool keeps the promise of the Pool interface: exclusive, zeroed buffers
\* that only their holder changes.
ImplementsLender == Lender!Spec

-----------------------------------------------------------------------------
(***************************************************************************)
(* The inductive invariant behind the properties above.                     *)
(***************************************************************************)
\* Where a client is tells which buffer it has, and a buffer about to be marked
\* available or Put back is zeroed.
BufferOfPc ==
  \A c \in Clients :
    /\ pc[c] \in {"idle", "addTail"} \cup AllocPcs => buf[c] = NoBuf
    /\ pc[c] = "held" => buf[c] \in Bufs \cup {Heap}
    /\ pc[c] = "clear" => buf[c] \in Bufs
    /\ pc[c] = "store" => buf[c] \in Slots /\ content[buf[c]] = "zero"
    /\ pc[c] = "put" => buf[c] \in Spare /\ content[buf[c]] = "zero"

\* A buffer in fallbackPool is in no client's hands.
PooledUnused == \A c \in Clients : buf[c] \notin pooled

OwnershipInv ==
  /\ TypeOK
  /\ BufferOfPc
  /\ ExclusiveOwnership
  /\ SlotsMatchOwners
  /\ PooledUnused
  /\ FreeBuffersZeroed

\* The local head of a client in Alloc's loop is within one ring of tail, and
\* strictly so once the client has seen that the ring is not full.
LocalHeadBounded ==
  \A c \in Clients :
    /\ pc[c] = "loadTail" => lhead[c] <= tail + Capacity
    /\ pc[c] = "casHead" => lhead[c] < tail + Capacity

PositionInv == PositionsBounded /\ LocalHeadBounded

=============================================================================
