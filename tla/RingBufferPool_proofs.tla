------------------------ MODULE RingBufferPool_proofs ------------------------
(***************************************************************************)
(* Proofs about RingBufferPool for every set of clients, every capacity and  *)
(* every number of allocations, and about Stats running beside it.           *)
(***************************************************************************)
EXTENDS RingBufferPoolStats, FiniteSetTheorems, TLAPS

LEMMA SlotsNat == Slots \subseteq Nat /\ Slots \subseteq Bufs /\ Spare \subseteq Bufs
BY CapacityAssumption DEF Slots, Bufs

LEMMA IndexInSlots == \A n \in Nat : n % Capacity \in Slots
BY CapacityAssumption DEF Slots

LEMMA SubsetAdd ==
  ASSUME NEW S, NEW T, NEW x \in T, S \subseteq T PROVE S \cup {x} \subseteq T
OBVIOUS

LEMMA NotPooled == TypeOK => Heap \notin pooled /\ NoBuf \notin pooled
BY BufAssumption DEF TypeOK, Bufs

LEMMA OwnershipInit == Init => OwnershipInv
BY CapacityAssumption, BufAssumption, BoundAssumption, SlotsNat
DEF Init, OwnershipInv, TypeOK, BufferOfPc, ExclusiveOwnership, SlotsMatchOwners,
    PooledUnused, FreeBuffersZeroed, AllocPcs, FreePcs

LEMMA OwnershipStep == OwnershipInv /\ [Next]_vars => OwnershipInv'
<1> SUFFICES ASSUME OwnershipInv, [Next]_vars PROVE OwnershipInv'
  OBVIOUS
<1> USE SlotsNat, BoundAssumption, BufAssumption
    DEF OwnershipInv, TypeOK, BufferOfPc, ExclusiveOwnership, SlotsMatchOwners,
        PooledUnused, FreeBuffersZeroed, AllocPcs, FreePcs, Goto, ring, stats, local
<1>1. CASE UNCHANGED vars
  BY <1>1 DEF vars
<1>2. ASSUME NEW c \in Clients, AllocCall(c) PROVE OwnershipInv'
  BY <1>2 DEF AllocCall
<1>3. ASSUME NEW c \in Clients, AllocHeap(c) PROVE OwnershipInv'
  <2>1. TypeOK'
    BY <1>3 DEF AllocHeap, Return
  <2>2. BufferOfPc'
    BY <1>3 DEF AllocHeap, Return
  <2>3. ExclusiveOwnership'
    BY <1>3 DEF AllocHeap, Return
  <2>4. SlotsMatchOwners'
    BY <1>3 DEF AllocHeap, Return
  <2>5. PooledUnused'
    BY <1>3, NotPooled DEF AllocHeap, Return
  <2>6. FreeBuffersZeroed'
    BY <1>3 DEF AllocHeap, Return
  <2>7. QED
    BY <2>1, <2>2, <2>3, <2>4, <2>5, <2>6
<1>4. ASSUME NEW c \in Clients, AllocLoadHead(c) PROVE OwnershipInv'
  BY <1>4 DEF AllocLoadHead
<1>5. ASSUME NEW c \in Clients, AllocLoadTail(c) PROVE OwnershipInv'
  BY <1>5 DEF AllocLoadTail
<1>6. ASSUME NEW c \in Clients, AllocCasHead(c) PROVE OwnershipInv'
  BY <1>6 DEF AllocCasHead
<1>7. ASSUME NEW c \in Clients, AllocCasSlot(c) PROVE OwnershipInv'
  <2> DEFINE index == lhead[c] % Capacity
  <2>1. index \in Slots
    BY IndexInSlots
  <2> HIDE DEF index
  <2>2. CASE slotStates[index] = 0
    <3>1. /\ pc[c] = "casSlot" /\ pc' = [pc EXCEPT ![c] = "held"]
          /\ slotStates' = [slotStates EXCEPT ![index] = 1]
          /\ buf' = [buf EXCEPT ![c] = index]
          /\ lhead' = [lhead EXCEPT ![c] = 0]
          /\ UNCHANGED <<head, tail, content, pooled, stats>>
      BY <1>7, <2>2 DEF AllocCasSlot, Return, index
    <3>2. \A d \in Clients : buf[d] # index
      BY <2>1, <2>2
    <3>3. index \notin pooled
      BY <2>1
    <3>4. QED
      BY <2>1, <3>1, <3>2, <3>3
  <2>3. CASE slotStates[index] # 0
    BY <1>7, <2>3 DEF AllocCasSlot, index
  <2>4. QED
    BY <2>2, <2>3
<1>8. ASSUME NEW c \in Clients, AllocFallback(c) PROVE OwnershipInv'
  BY <1>8 DEF AllocFallback, Return, SpareFree
<1>9. ASSUME NEW c \in Clients, Write(c) PROVE OwnershipInv'
  BY <1>9 DEF Write
<1>10. ASSUME NEW c \in Clients, FreeCall(c) PROVE OwnershipInv'
  <2>1. TypeOK'
    BY <1>10 DEF FreeCall, Released
  <2>2. BufferOfPc'
    BY <1>10 DEF FreeCall, Released
  <2>3. ExclusiveOwnership'
    BY <1>10 DEF FreeCall, Released
  <2>4. SlotsMatchOwners'
    BY <1>10 DEF FreeCall, Released
  <2>5. PooledUnused'
    BY <1>10, NotPooled DEF FreeCall, Released
  <2>6. FreeBuffersZeroed'
    BY <1>10 DEF FreeCall, Released
  <2>7. QED
    BY <2>1, <2>2, <2>3, <2>4, <2>5, <2>6
<1>11. ASSUME NEW c \in Clients, FreeClear(c) PROVE OwnershipInv'
  <2>1. TypeOK'
    BY <1>11 DEF FreeClear
  <2>2. BufferOfPc'
    BY <1>11 DEF FreeClear, Bufs
  <2>3. ExclusiveOwnership'
    BY <1>11 DEF FreeClear
  <2>4. SlotsMatchOwners'
    BY <1>11 DEF FreeClear
  <2>5. PooledUnused'
    BY <1>11 DEF FreeClear
  <2>6. FreeBuffersZeroed'
    BY <1>11 DEF FreeClear
  <2>7. QED
    BY <2>1, <2>2, <2>3, <2>4, <2>5, <2>6
<1>12. ASSUME NEW c \in Clients, FreeStore(c) PROVE OwnershipInv'
  <2>1. TypeOK'
    BY <1>12 DEF FreeStore
  <2>2. BufferOfPc'
    BY <1>12 DEF FreeStore
  <2>3. ExclusiveOwnership'
    BY <1>12 DEF FreeStore
  <2>4. SlotsMatchOwners'
    BY <1>12 DEF FreeStore
  <2>5. PooledUnused'
    BY <1>12, NotPooled DEF FreeStore
  <2>6. FreeBuffersZeroed'
    BY <1>12 DEF FreeStore
  <2>7. QED
    BY <2>1, <2>2, <2>3, <2>4, <2>5, <2>6
<1>13. ASSUME NEW c \in Clients, FreeTail(c) PROVE OwnershipInv'
  BY <1>13 DEF FreeTail, Released
<1>14. ASSUME NEW c \in Clients, FreePut(c) PROVE OwnershipInv'
  <2>1. buf[c] \in Spare /\ buf[c] \in Bufs /\ content[buf[c]] = "zero"
    BY <1>14 DEF FreePut
  <2>2. /\ pc' = [pc EXCEPT ![c] = "idle"]
        /\ buf' = [buf EXCEPT ![c] = NoBuf]
        /\ pooled' = pooled \cup {buf[c]}
        /\ UNCHANGED <<ring, content, lhead, stats>>
    BY <1>14 DEF FreePut, Released
  <2>3. TypeOK'
    <3>1. pooled \subseteq Spare
      OBVIOUS
    <3>2. pooled' \subseteq Spare
      <4> HIDE DEF OwnershipInv
      <4>1. pooled \cup {buf[c]} \subseteq Spare
        BY <2>1, <3>1, SubsetAdd
      <4>2. QED
        BY <2>2, <4>1
    <3>3. QED
      BY <2>2, <3>2
  <2>4. PooledUnused'
    <3> SUFFICES ASSUME NEW d \in Clients PROVE buf'[d] \notin pooled'
      OBVIOUS
    <3>1. CASE d = c
      BY <2>1, <2>2, <3>1, NotPooled
    <3>2. CASE d # c
      BY <2>1, <2>2, <3>2
    <3>3. QED
      BY <3>1, <3>2
  <2>5. BufferOfPc' /\ ExclusiveOwnership' /\ FreeBuffersZeroed'
    BY <2>1, <2>2
  <2>6. SlotsMatchOwners'
    BY <2>1, <2>2
  <2>7. QED
    BY <2>3, <2>4, <2>5, <2>6
<1>15. QED
  BY <1>1, <1>2, <1>3, <1>4, <1>5, <1>6, <1>7, <1>8, <1>9, <1>10, <1>11, <1>12, <1>13, <1>14 DEF Next, Use, Step

\* What Alloc and Free maintain about who has which buffer.
THEOREM OwnershipInvariant == Spec => []OwnershipInv
BY OwnershipInit, OwnershipStep, PTL DEF Spec

\* Every reachable state is well typed.
THEOREM TypeCorrect == Spec => []TypeOK
<1>1. OwnershipInv => TypeOK
  BY DEF OwnershipInv
<1>2. QED
  BY <1>1, OwnershipInvariant, PTL

\* No buffer of the pool is ever in the hands of two clients.
THEOREM Exclusive == Spec => []ExclusiveOwnership
<1>1. OwnershipInv => ExclusiveOwnership
  BY DEF OwnershipInv
<1>2. QED
  BY <1>1, OwnershipInvariant, PTL

\* A slot is marked allocated exactly while a client has its buffer.
THEOREM SlotsMatch == Spec => []SlotsMatchOwners
<1>1. OwnershipInv => SlotsMatchOwners
  BY DEF OwnershipInv
<1>2. QED
  BY <1>1, OwnershipInvariant, PTL

\* A buffer that Alloc may hand out holds only zeros.
THEOREM Zeroed == Spec => []FreeBuffersZeroed
<1>1. OwnershipInv => FreeBuffersZeroed
  BY DEF OwnershipInv
<1>2. QED
  BY <1>1, OwnershipInvariant, PTL

-----------------------------------------------------------------------------
(***************************************************************************)
(* The position counters.                                                   *)
(***************************************************************************)
LEMMA InRingFinite == IsFiniteSet(InRing) /\ Cardinality(InRing) \in Nat
<1>1. InRing \subseteq Clients
  BY DEF InRing
<1>2. QED
  BY <1>1, ClientsAssumption, FS_Subset, FS_CardinalityType

\* A step that leaves the positions alone keeps PositionInv.
LEMMA PositionsKept ==
  ASSUME TypeOK, PositionInv, head' = head, tail' = tail, InRing' = InRing,
         LocalHeadBounded'
  PROVE  PositionInv'
BY DEF PositionInv, PositionsBounded

LEMMA PositionInit == Init => PositionInv
<1> SUFFICES ASSUME Init PROVE PositionInv
  OBVIOUS
<1>1. InRing = {}
  BY SlotsNat, BufAssumption DEF Init, InRing
<1>2. Cardinality(InRing) = 0
  BY <1>1, FS_EmptySet
<1>3. QED
  BY <1>2, CapacityAssumption DEF Init, PositionInv, PositionsBounded, LocalHeadBounded

LEMMA PositionStep == OwnershipInv /\ PositionInv /\ [Next]_vars => PositionInv'
<1> SUFFICES ASSUME OwnershipInv, PositionInv, [Next]_vars PROVE PositionInv'
  OBVIOUS
<1> USE CapacityAssumption
    DEF OwnershipInv, TypeOK, BufferOfPc, LocalHeadBounded, AllocPcs, FreePcs, Goto
<1>a. /\ head \in Nat /\ tail \in Nat /\ Cardinality(InRing) \in Nat
      /\ IsFiniteSet(InRing)
      /\ tail + Cardinality(InRing) <= head /\ head <= tail + Capacity
  BY InRingFinite DEF PositionInv, PositionsBounded
<1>b. Heap \notin Slots /\ NoBuf \notin Slots /\ \A b \in Spare : b \notin Slots
  BY BufAssumption DEF Bufs
<1>c. LocalHeadBounded
  BY DEF PositionInv
<1>1. CASE UNCHANGED vars
  <2>1. InRing' = InRing
    BY <1>1 DEF vars, local, InRing
  <2>2. QED
    BY <1>1, <1>c, <2>1, PositionsKept DEF vars, ring, local
<1>2. ASSUME NEW c \in Clients, AllocCall(c) PROVE PositionInv'
  <2>1. head' = head /\ tail' = tail
    BY <1>2 DEF AllocCall, ring
  <2>2. InRing' = InRing
    BY <1>2, <1>b DEF AllocCall, InRing, local
  <2>3. LocalHeadBounded'
    BY <1>2, <1>a, <1>c, <2>1 DEF AllocCall, local
  <2>4. QED
    BY <2>1, <2>2, <2>3, PositionsKept
<1>3. ASSUME NEW c \in Clients, AllocHeap(c) PROVE PositionInv'
  <2>1. head' = head /\ tail' = tail
    BY <1>3 DEF AllocHeap, ring
  <2>2. InRing' = InRing
    BY <1>3, <1>b DEF AllocHeap, InRing, local, Return
  <2>3. LocalHeadBounded'
    BY <1>3, <1>a, <1>c, <2>1 DEF AllocHeap, local, Return
  <2>4. QED
    BY <2>1, <2>2, <2>3, PositionsKept
<1>4. ASSUME NEW c \in Clients, AllocLoadHead(c) PROVE PositionInv'
  <2>1. head' = head /\ tail' = tail
    BY <1>4 DEF AllocLoadHead, ring
  <2>2. InRing' = InRing
    BY <1>4, <1>b DEF AllocLoadHead, InRing, local
  <2>3. LocalHeadBounded'
    BY <1>4, <1>a, <1>c, <2>1 DEF AllocLoadHead, local
  <2>4. QED
    BY <2>1, <2>2, <2>3, PositionsKept
<1>5. ASSUME NEW c \in Clients, AllocLoadTail(c) PROVE PositionInv'
  <2>1. head' = head /\ tail' = tail
    BY <1>5 DEF AllocLoadTail, ring
  <2>2. InRing' = InRing
    BY <1>5, <1>b DEF AllocLoadTail, InRing, local
  <2>3. LocalHeadBounded'
    BY <1>5, <1>a, <1>c, <2>1 DEF AllocLoadTail, local
  <2>4. QED
    BY <2>1, <2>2, <2>3, PositionsKept
<1>6. ASSUME NEW c \in Clients, AllocFallback(c) PROVE PositionInv'
  <2>1. head' = head /\ tail' = tail
    BY <1>6 DEF AllocFallback, ring
  <2>2. InRing' = InRing
    BY <1>6, <1>b DEF AllocFallback, InRing, local, Return
  <2>3. LocalHeadBounded'
    BY <1>6, <1>a, <1>c, <2>1 DEF AllocFallback, local, Return
  <2>4. QED
    BY <2>1, <2>2, <2>3, PositionsKept
<1>7. ASSUME NEW c \in Clients, Write(c) PROVE PositionInv'
  <2>1. head' = head /\ tail' = tail
    BY <1>7 DEF Write, ring
  <2>2. InRing' = InRing
    BY <1>7, <1>b DEF Write, InRing, local
  <2>3. LocalHeadBounded'
    BY <1>7, <1>a, <1>c, <2>1 DEF Write, local
  <2>4. QED
    BY <2>1, <2>2, <2>3, PositionsKept
<1>8. ASSUME NEW c \in Clients, FreeCall(c) PROVE PositionInv'
  <2>1. head' = head /\ tail' = tail
    BY <1>8 DEF FreeCall, ring
  <2>2. InRing' = InRing
    BY <1>8, <1>b DEF FreeCall, InRing, local, Released
  <2>3. LocalHeadBounded'
    BY <1>8, <1>a, <1>c, <2>1 DEF FreeCall, local, Released
  <2>4. QED
    BY <2>1, <2>2, <2>3, PositionsKept
<1>9. ASSUME NEW c \in Clients, FreeClear(c) PROVE PositionInv'
  <2>1. head' = head /\ tail' = tail
    BY <1>9 DEF FreeClear, ring
  <2>2. InRing' = InRing
    BY <1>9, <1>b DEF FreeClear, InRing, local
  <2>3. LocalHeadBounded'
    BY <1>9, <1>a, <1>c, <2>1 DEF FreeClear, local
  <2>4. QED
    BY <2>1, <2>2, <2>3, PositionsKept
<1>10. ASSUME NEW c \in Clients, FreeStore(c) PROVE PositionInv'
  <2>1. head' = head /\ tail' = tail
    BY <1>10 DEF FreeStore, ring
  <2>2. InRing' = InRing
    BY <1>10, <1>b DEF FreeStore, InRing, local
  <2>3. LocalHeadBounded'
    BY <1>10, <1>a, <1>c, <2>1 DEF FreeStore, local
  <2>4. QED
    BY <2>1, <2>2, <2>3, PositionsKept
<1>11. ASSUME NEW c \in Clients, FreePut(c) PROVE PositionInv'
  <2>1. head' = head /\ tail' = tail
    BY <1>11 DEF FreePut, ring
  <2>2. InRing' = InRing
    BY <1>11, <1>b DEF FreePut, InRing, local, Released
  <2>3. LocalHeadBounded'
    BY <1>11, <1>a, <1>c, <2>1 DEF FreePut, local, Released
  <2>4. QED
    BY <2>1, <2>2, <2>3, PositionsKept
<1>12. ASSUME NEW c \in Clients, AllocCasHead(c) PROVE PositionInv'
  <2>1. CASE head = lhead[c]
    <3>1. head' = head + 1 /\ tail' = tail
      BY <1>12, <2>1 DEF AllocCasHead
    <3>2. InRing' = InRing \cup {c} /\ c \notin InRing
      BY <1>12, <1>b, <2>1 DEF AllocCasHead, InRing
    <3>3. Cardinality(InRing') = Cardinality(InRing) + 1
      BY <1>a, <3>2, FS_AddElement
    <3>4. head' <= tail + Capacity
      BY <1>12, <1>a, <1>c, <2>1, <3>1 DEF AllocCasHead
    <3>5. LocalHeadBounded'
      BY <1>12, <1>c, <2>1, <3>1 DEF AllocCasHead
    <3>6. QED
      BY <1>a, <3>1, <3>3, <3>4, <3>5 DEF PositionInv, PositionsBounded
  <2>2. CASE head # lhead[c]
    <3>1. head' = head /\ tail' = tail
      BY <1>12, <2>2 DEF AllocCasHead
    <3>2. InRing' = InRing
      BY <1>12, <1>b, <2>2 DEF AllocCasHead, InRing
    <3>3. LocalHeadBounded'
      BY <1>12, <1>c, <2>2, <3>1 DEF AllocCasHead
    <3>4. QED
      BY <3>1, <3>2, <3>3, PositionsKept
  <2>3. QED
    BY <2>1, <2>2
<1>13. ASSUME NEW c \in Clients, AllocCasSlot(c) PROVE PositionInv'
  <2>1. head' = head /\ tail' = tail
    BY <1>13 DEF AllocCasSlot
  <2>2. LocalHeadBounded'
    BY <1>13, <1>c, <2>1 DEF AllocCasSlot, Return
  <2>3. CASE slotStates[lhead[c] % Capacity] = 0
    <3>1. lhead[c] % Capacity \in Slots
      BY IndexInSlots
    <3>2. InRing' = InRing
      BY <1>13, <2>3, <3>1 DEF AllocCasSlot, Return, InRing
    <3>3. QED
      BY <2>1, <2>2, <3>2, PositionsKept
  <2>4. CASE slotStates[lhead[c] % Capacity] # 0
    <3>1. InRing' = InRing \ {c} /\ c \in InRing
      BY <1>13, <1>b, <2>4 DEF AllocCasSlot, InRing
    <3>2. Cardinality(InRing') = Cardinality(InRing) - 1
      BY <1>a, <3>1, FS_RemoveElement
    <3>3. QED
      BY <1>a, <2>1, <2>2, <3>2 DEF PositionInv, PositionsBounded
  <2>5. QED
    BY <2>3, <2>4
<1>14. ASSUME NEW c \in Clients, FreeTail(c) PROVE PositionInv'
  <2>1. head' = head /\ tail' = tail + 1
    BY <1>14 DEF FreeTail
  <2>2. InRing' = InRing \ {c} /\ c \in InRing
    BY <1>14, <1>b DEF FreeTail, Released, InRing
  <2>3. Cardinality(InRing') = Cardinality(InRing) - 1
    BY <1>a, <2>2, FS_RemoveElement
  <2>4. LocalHeadBounded'
    BY <1>14, <1>a, <1>c, <2>1 DEF FreeTail, Released
  <2>5. QED
    BY <1>a, <2>1, <2>3, <2>4 DEF PositionInv, PositionsBounded
<1>15. QED
  BY <1>1, <1>2, <1>3, <1>4, <1>5, <1>6, <1>7, <1>8, <1>9, <1>10, <1>11, <1>12, <1>13, <1>14 DEF Next, Use, Step

\* The positions in use lie between tail and head, and these are never more
\* than one ring apart.
THEOREM Positions == Spec => []PositionsBounded
<1>1. PositionInv => PositionsBounded
  BY DEF PositionInv
<1>2. QED
  BY <1>1, OwnershipInvariant, PositionInit, PositionStep, PTL DEF Spec

-----------------------------------------------------------------------------
(***************************************************************************)
(* The pool implements BufferLender.                                        *)
(***************************************************************************)
LEMMA LenderInit == Init => Lender!Init
BY DEF Init, Lender!Init, lent, seen

\* A step that changes neither a holding client nor the buffer it holds is
\* invisible to the clients.
LEMMA LenderStutter ==
  ASSUME TypeOK, NEW c \in Clients,
         pc[c] # "held", pc'[c] # "held",
         \A d \in Clients \ {c} :
           /\ pc'[d] = pc[d] /\ buf'[d] = buf[d]
           /\ pc[d] = "held" /\ buf[d] \in Bufs => content'[buf[d]] = content[buf[d]]
  PROVE  UNCHANGED <<lent, seen>>
<1>1. lent' = lent
  BY DEF lent
<1>2. seen' = seen
  BY DEF seen
<1>3. QED
  BY <1>1, <1>2

\* Alloc returns to c a buffer that no client holds and that is zeroed.
LEMMA LenderLend ==
  ASSUME TypeOK, NEW c \in Clients, NEW b \in Bufs \cup {Heap},
         pc[c] # "held",
         pc' = [pc EXCEPT ![c] = "held"], buf' = [buf EXCEPT ![c] = b],
         b # Heap => content'[b] = "zero" /\ \A d \in Clients : buf[d] # b,
         \A d \in Clients \ {c} : buf[d] \in Bufs => content'[buf[d]] = content[buf[d]]
  PROVE  Lender!Next
<1>1. lent[c] = NoBuf /\ \A d \in Clients : b # Heap => lent[d] # b
  BY BufAssumption DEF lent
<1>2. lent' = [lent EXCEPT ![c] = b]
  BY DEF lent, TypeOK
<1>3. seen' = seen
  BY BufAssumption DEF seen, TypeOK
<1>4. Lender!Lend(c, b)
  BY <1>1, <1>2, <1>3 DEF Lender!Lend
<1>5. QED
  BY <1>4 DEF Lender!Next

LEMMA LenderStep ==
  OwnershipInv /\ [Next]_vars => [Lender!Next]_<<lent, seen>>
<1> SUFFICES ASSUME OwnershipInv, [Next]_vars
             PROVE  Lender!Next \/ UNCHANGED <<lent, seen>>
  OBVIOUS
<1> USE DEF OwnershipInv, Goto, ring, stats, local
<1>1. CASE UNCHANGED vars
  BY <1>1 DEF vars, lent, seen
<1>2. ASSUME NEW c \in Clients, AllocCall(c) PROVE UNCHANGED <<lent, seen>>
  BY <1>2, LenderStutter DEF AllocCall, TypeOK
<1>3. ASSUME NEW c \in Clients, AllocLoadHead(c) PROVE UNCHANGED <<lent, seen>>
  BY <1>3, LenderStutter DEF AllocLoadHead, TypeOK
<1>4. ASSUME NEW c \in Clients, AllocLoadTail(c) PROVE UNCHANGED <<lent, seen>>
  BY <1>4, LenderStutter DEF AllocLoadTail, TypeOK
<1>5. ASSUME NEW c \in Clients, AllocCasHead(c) PROVE UNCHANGED <<lent, seen>>
  BY <1>5, LenderStutter DEF AllocCasHead, TypeOK
<1>6. ASSUME NEW c \in Clients, FreeStore(c) PROVE UNCHANGED <<lent, seen>>
  BY <1>6, LenderStutter DEF FreeStore, TypeOK
<1>7. ASSUME NEW c \in Clients, FreeTail(c) PROVE UNCHANGED <<lent, seen>>
  BY <1>7, LenderStutter DEF FreeTail, TypeOK, Released
<1>8. ASSUME NEW c \in Clients, FreePut(c) PROVE UNCHANGED <<lent, seen>>
  BY <1>8, LenderStutter DEF FreePut, TypeOK, Released
<1>9. ASSUME NEW c \in Clients, FreeClear(c) PROVE UNCHANGED <<lent, seen>>
  <2>1. buf[c] \in Bufs
    BY <1>9 DEF FreeClear, BufferOfPc
  <2>2. \A d \in Clients \ {c} : buf[d] # buf[c]
    BY <2>1 DEF ExclusiveOwnership
  <2>3. QED
    BY <1>9, <2>1, <2>2, LenderStutter DEF FreeClear, TypeOK
<1>10. ASSUME NEW c \in Clients, AllocHeap(c) PROVE Lender!Next
  BY <1>10, LenderLend DEF AllocHeap, Return
<1>11. ASSUME NEW c \in Clients, AllocCasSlot(c)
      PROVE  Lender!Next \/ UNCHANGED <<lent, seen>>
  <2> DEFINE index == lhead[c] % Capacity
  <2>1. index \in Slots
    BY IndexInSlots DEF TypeOK
  <2> HIDE DEF index
  <2>2. CASE slotStates[index] = 0
    <3>1. content[index] = "zero" /\ \A d \in Clients : buf[d] # index
      BY <2>1, <2>2 DEF FreeBuffersZeroed, SlotsMatchOwners
    <3>2. index \in Bufs
      BY <2>1, SlotsNat
    <3>3. QED
      BY <1>11, <2>2, <3>1, <3>2, LenderLend DEF AllocCasSlot, Return, index
  <2>3. CASE slotStates[index] # 0
    BY <1>11, <2>3, LenderStutter DEF AllocCasSlot, TypeOK, index
  <2>4. QED
    BY <2>2, <2>3
<1>12. ASSUME NEW c \in Clients, AllocFallback(c) PROVE Lender!Next
  <2>1. PICK b \in Spare : /\ SpareFree(b)
                           /\ content' = IF b \in pooled THEN content
                                           ELSE [content EXCEPT ![b] = "zero"]
                           /\ Return(c, b)
    BY <1>12 DEF AllocFallback
  <2>2. b \in Bufs /\ \A d \in Clients : buf[d] # b
    BY <2>1, SlotsNat DEF SpareFree
  <2>3. content'[b] = "zero" /\ \A x \in Bufs : x # b => content'[x] = content[x]
    BY <2>1, <2>2 DEF FreeBuffersZeroed, TypeOK
  <2>4. QED
    BY <1>12, <2>1, <2>2, <2>3, LenderLend DEF AllocFallback, Return
<1>13. ASSUME NEW c \in Clients, Write(c) PROVE Lender!Next
  <2>1. lent[c] \in Bufs /\ UNCHANGED lent
    BY <1>13 DEF Write, lent
  <2>2. \A d \in Clients \ {c} : buf[d] # buf[c]
    BY <1>13 DEF Write, ExclusiveOwnership
  <2>3. seen' = [seen EXCEPT ![c] = "data"]
    BY <1>13, <2>2 DEF Write, seen, TypeOK
  <2>4. Lender!Write(c)
    BY <2>1, <2>3 DEF Lender!Write
  <2>5. QED
    BY <2>4 DEF Lender!Next
<1>14. ASSUME NEW c \in Clients, FreeCall(c) PROVE Lender!Next
  <2>1. lent[c] # NoBuf
    BY <1>14, BufAssumption DEF FreeCall, BufferOfPc, lent
  <2>2. lent' = [lent EXCEPT ![c] = NoBuf]
    BY <1>14 DEF FreeCall, Released, lent, TypeOK
  <2>3. seen' = [seen EXCEPT ![c] = "zero"]
    BY <1>14 DEF FreeCall, Released, seen, TypeOK
  <2>4. Lender!TakeBack(c)
    BY <2>1, <2>2, <2>3 DEF Lender!TakeBack
  <2>5. QED
    BY <2>4 DEF Lender!Next
<1>15. QED
  BY <1>1, <1>2, <1>3, <1>4, <1>5, <1>6, <1>7, <1>8, <1>9, <1>10, <1>11, <1>12, <1>13, <1>14 DEF Next, Use, Step

\* RingBufferPool refines BufferLender: its clients see exclusive, zeroed
\* buffers that nobody else changes.
THEOREM Refinement == Spec => ImplementsLender
BY LenderInit, LenderStep, OwnershipInvariant, PTL DEF Spec, ImplementsLender, Lender!Spec

-----------------------------------------------------------------------------
(* Stats.                                                                     *)

\* Stats only reads: the pool behaves as it does without it.
LEMMA StatsOnlyReads == StatsSpec => Spec
<1>1. StatsInit => Init
  BY DEF StatsInit
<1>2. [StatsNext]_<<vars, svars>> => [Next]_vars
  BY DEF StatsNext, Stats, StatsCall, StatsAlloc, StatsFree, StatsFallback,
         LoadCounter, AvailableHead, AvailableTail
<1>3. QED
  BY <1>1, <1>2, PTL DEF StatsSpec, Spec

\* The positions are only ever raised.
LEMMA TailGrows == TypeOK /\ [Next]_vars => tail' \in Nat /\ tail <= tail'
<1> SUFFICES ASSUME TypeOK, [Next]_vars PROVE tail' \in Nat /\ tail <= tail'
  OBVIOUS
<1>1. tail \in Nat /\ (tail' = tail \/ tail' = tail + 1)
  BY DEF TypeOK, Next, Use, Step, vars, ring, AllocCall, AllocHeap, AllocLoadHead,
         AllocLoadTail, AllocCasHead, AllocCasSlot, AllocFallback, Write, FreeCall,
         FreeClear, FreeStore, FreeTail, FreePut
<1>2. QED
  BY <1>1

LEMMA RaiseBound ==
  ASSUME NEW a \in Nat, NEW m \in Nat, NEW n \in Nat, NEW k \in Nat,
         a <= m + k, m <= n
  PROVE  a <= n + k
OBVIOUS

\* Whatever clients do between the two loads of available(), its subtraction
\* does not wrap below zero.
THEOREM NeverWraps == StatsSpec => []AvailableNeverWraps
<1>1. StatsInit => AvailableNeverWraps
  BY DEF StatsInit, AvailableNeverWraps
<1>2. /\ TypeOK /\ PositionsBounded /\ AvailableNeverWraps /\ StatsTypeOK
      /\ [StatsNext]_<<vars, svars>>
      => AvailableNeverWraps'
  <2> SUFFICES ASSUME TypeOK, PositionsBounded, AvailableNeverWraps, StatsTypeOK,
                      [StatsNext]_<<vars, svars>>
               PROVE  AvailableNeverWraps'
    OBVIOUS
  <2> USE CapacityAssumption DEF AvailableNeverWraps, StatsTypeOK
  <2>1. CASE AvailableHead
    BY <2>1 DEF AvailableHead, PositionsBounded, vars, ring
  <2>2. CASE StatsCall \/ StatsAlloc \/ StatsFree \/ StatsFallback \/ AvailableTail
    BY <2>2 DEF StatsCall, StatsAlloc, StatsFree, StatsFallback, LoadCounter, AvailableTail
  <2>3. CASE [Next]_vars /\ UNCHANGED svars
    <3>1. tail \in Nat /\ tail' \in Nat /\ tail <= tail'
      BY <2>3, TailGrows DEF TypeOK
    <3>2. shead \in Nat /\ shead' = shead /\ reading' = reading
      BY <2>3 DEF svars
    <3>3. Capacity \in Nat
      OBVIOUS
    <3>4. CASE reading = "availTail"
      <4>1. shead <= tail + Capacity
        BY <3>4
      <4>2. shead <= tail' + Capacity
        BY <3>1, <3>2, <3>3, <4>1, RaiseBound
      <4>3. QED
        BY <3>2, <4>2
    <3>5. QED
      BY <3>2, <3>4
  <2>4. QED
    BY <2>1, <2>2, <2>3 DEF StatsNext, Stats
<1>3. StatsSpec => []StatsTypeOK
  <2>1. StatsInit /\ TypeOK => StatsTypeOK
    BY CapacityAssumption, WordAssumption DEF StatsInit, StatsTypeOK
  <2>2. TypeOK /\ TypeOK' /\ StatsTypeOK /\ [StatsNext]_<<vars, svars>> => StatsTypeOK'
    <3> SUFFICES ASSUME TypeOK, TypeOK', StatsTypeOK, [StatsNext]_<<vars, svars>>
                 PROVE  StatsTypeOK'
      OBVIOUS
    <3>1. CASE AvailableTail
      <4>1. (Capacity - (shead - tail)) % Word \in 0..(Word - 1)
        BY CapacityAssumption, WordAssumption DEF StatsTypeOK, TypeOK
      <4>2. QED
        BY <3>1, <4>1 DEF AvailableTail, StatsTypeOK
    <3>2. CASE AvailableHead
      BY <3>2 DEF AvailableHead, StatsTypeOK, TypeOK
    <3>3. CASE StatsCall \/ StatsAlloc \/ StatsFree \/ StatsFallback
      BY <3>3, BoundAssumption
      DEF StatsCall, StatsAlloc, StatsFree, StatsFallback, LoadCounter, StatsTypeOK, TypeOK
    <3>4. CASE UNCHANGED svars
      BY <3>4 DEF svars, StatsTypeOK
    <3>5. QED
      BY <3>1, <3>2, <3>3, <3>4 DEF StatsNext, Stats
  <2>3. QED
    BY <2>1, <2>2, StatsOnlyReads, TypeCorrect, PTL DEF StatsSpec
<1>4. QED
  BY <1>1, <1>2, <1>3, StatsOnlyReads, TypeCorrect, Positions, PTL DEF StatsSpec

=============================================================================
