----------------------------- MODULE FrameCodec -----------------------------
(***************************************************************************)
(* One direction of a connection: Encode on one side, Decode on the other,   *)
(* and the pool of several sizes that lends Decode its buffers, for the       *)
(* codecs of tcp/frame and kcp/frame over a stream and for that of            *)
(* websocket/frame over messages, with the Close of websocket/wsconn.         *)
(*                                                                          *)
(* What is under way is a sequence of units: the length of a frame is one    *)
(* unit, every byte of its body is one, and so is the end of a message.  Both *)
(* sides are codecs of this repository: messages are of MessageType.          *)
(***************************************************************************)
EXTENDS Integers, Sequences, FiniteSetsExt

CONSTANTS
  Lens,         \* lengths of the packs that get encoded
  MaxPackSize,  \* xnet.MaxPackSize
  Sizes,        \* the buffer sizes of the MultiSizeRingPool
  MaxFrames     \* bound: calls of Encode

ASSUME LensAssumption == Lens \subseteq Nat /\ MaxPackSize \in Nat

ASSUME SizesAssumption == Sizes \subseteq Nat \ {0} /\ MaxFrames \in Nat

VARIABLES
  transport,  \* "stream" or "message"
  pool,     \* the package's pool: "ready", or "nil"
  frames,   \* the lengths of the packs given to Encode
  writer,   \* "ok", or "broken" once an Encode has failed: that of the last frame
  wire,     \* the units under way
  cut,      \* the connection is gone: nothing comes after what is in wire
  decode,   \* where Decode is, or how it ended
  packLen,  \* the length Decode has read
  buf,      \* the buffer Decode has: its cap, and the ring it is of (0: of none)
  pack,     \* the units Decode has read into it
  got,      \* the packs Decode has returned
  lent      \* per size: buffers the ring of that size has lent

writeVars == <<transport, pool, frames, writer>>
readVars  == <<decode, packLen, buf, pack, got, lent>>
vars == <<writeVars, wire, cut, readVars>>

NoBuf == [cap |-> 0, ring |-> 0]

\* The body of frame f, and the frame.
Body(f, n)  == [i \in 1..n |-> [frame |-> f, n |-> i]]
Frame(f, n) == <<[frame |-> f, n |-> n]>> \o Body(f, n)

\* The end of a message.
End == [frame |-> 0, n |-> 0]
EndOf(t) == IF t = "message" THEN <<End>> ELSE <<>>

\* What MultiSizeRingPool.Alloc may answer: a buffer of the smallest size that fits,
\* of the ring or, when other connections have emptied the ring, of its fallback
\* pool; when none fits, a slice of the heap.
Alloc(n) ==
  LET fits == {s \in Sizes : s >= n}
  IN  IF fits = {} THEN {[cap |-> n, ring |-> 0]}
                   ELSE {[cap |-> Min(fits), ring |-> r] : r \in {Min(fits), 0}}

\* Mutant of Free: the pool is found by the length of the slice.
FreeByLen(b) == [s \in Sizes |-> IF s = Len(pack) /\ s = b.ring THEN lent[s] - 1 ELSE lent[s]]

\* MultiSizeRingPool.Free: the pool is found by cap(buf).  A fallback buffer has the
\* cap of its pool too, which tells it from one of its ring by the address; a heap
\* slice has no pool.
Free(b) == [s \in Sizes |-> IF s = b.cap /\ s = b.ring THEN lent[s] - 1 ELSE lent[s]]

\* init makes the default pool.  InitTcpRingPool, InitKcpRingPool or
\* InitWebSocketRingPool, called before the connections come, puts another in its
\* place, once; when NewMultiSizeRingPool refuses the configuration the pool is nil,
\* and the caller is told that all went well.
RingPools == {"ready", "nil"}

Init ==
  /\ pool \in RingPools
  /\ transport \in {"stream", "message"} /\ frames = <<>> /\ writer = "ok"
  /\ wire = <<>> /\ cut = FALSE
  /\ decode = "len" /\ packLen = 0 /\ buf = NoBuf /\ pack = <<>> /\ got = <<>>
  /\ lent = [s \in Sizes |-> 0]

-----------------------------------------------------------------------------
\* Encode: the length, the body, and the flush or the end of the message.
Encode(n) ==
  /\ writer = "ok" /\ ~ cut
  /\ Len(frames) < MaxFrames
  /\ wire' = wire \o Frame(Len(frames) + 1, n) \o EndOf(transport)
  /\ frames' = Append(frames, n)
  /\ UNCHANGED <<transport, pool, writer, cut, readVars>>

\* The units that an Encode that fails has written; its caller gives the
\* connection up.
Breaks(n, units) ==
  /\ writer = "ok"
  /\ Len(frames) < MaxFrames
  /\ wire' = IF cut THEN wire ELSE wire \o units
  /\ frames' = Append(frames, n)
  /\ writer' = "broken"
  /\ UNCHANGED <<transport, pool, cut, readVars>>

\* Encode fails after k units.
EncodeFails(n, k) == Breaks(n, SubSeq(Frame(Len(frames) + 1, n), 1, k))

\* WebSocketConn.Close, called by the stop of the worker or the dialog in the middle
\* of an Encode: the close message ends the message being written where it is, and
\* Encode fails, even if its frame was complete.
CloseEndsMessage(n, k) ==
  /\ transport = "message"
  /\ Breaks(n, SubSeq(Frame(Len(frames) + 1, n), 1, k) \o <<End>>)

\* The connection ends, and some of what is under way is lost.
Cut(k) ==
  /\ ~ cut
  /\ k <= Len(wire)
  /\ cut' = TRUE
  /\ wire' = SubSeq(wire, 1, k)
  /\ UNCHANGED <<writeVars, readVars>>

-----------------------------------------------------------------------------

\* What NextReader has to read: it drops what is left of the message before, which
\* is its end, as Decode has read the body.
Rest == IF transport = "message" /\ got # <<>> /\ wire # <<>> THEN Tail(wire) ELSE wire

\* How many units there are to read before the end of the message.
Avail ==
  LET ends == {i \in 1..Len(wire) : wire[i] = End}
  IN  IF ends = {} THEN Len(wire) ELSE Min(ends) - 1

Legal(n) == n > 0 /\ n <= MaxPackSize

\* Decode reads the length, tests it and allocates the buffer.  Alloc on a nil pool
\* panics.
DecodeLen ==
  /\ decode = "len"
  /\ Rest # <<>> /\ Head(Rest) # End
  /\ packLen' = Head(Rest).n
  /\ wire' = Tail(Rest)
  /\ IF Legal(packLen') /\ pool = "ready"
       THEN /\ decode' = "body"
            /\ buf' \in Alloc(packLen')
            /\ lent' = [s \in Sizes |-> IF s = buf'.ring THEN lent[s] + 1 ELSE lent[s]]
       ELSE /\ decode' = IF Legal(packLen') THEN "panicked" ELSE "failed"
            /\ UNCHANGED <<buf, lent>>
  /\ UNCHANGED <<writeVars, cut, pack, got>>

\* Decode finds no length: the connection, or the message, has ended.
DecodeLenFails ==
  /\ decode = "len"
  /\ IF Rest = <<>> THEN cut ELSE Head(Rest) = End
  /\ decode' = "failed"
  /\ UNCHANGED <<writeVars, wire, cut, packLen, buf, pack, got, lent>>

\* Mutants of ReadsFull: one Read, and a read of one unit more than the body has.
ReadsOnce(k) == k \in 1..packLen
ReadsPast(k) == k = packLen /\ k < Avail

\* io.ReadFull reads k units.
ReadsFull(k) == k = packLen

\* io.ReadFull fills the buffer, and Decode returns it with its free.
DecodeBody ==
  /\ decode = "body"
  /\ \E k \in 1..Avail : /\ ReadsFull(k)
                         /\ pack' = SubSeq(wire, 1, k)
                         /\ wire' = SubSeq(wire, k + 1, Len(wire))
  /\ decode' = "held"
  /\ UNCHANGED <<writeVars, cut, packLen, buf, got, lent>>

\* io.ReadFull fails.  The return has set the result free to nil by the time the
\* deferred function calls it: a panic, and the buffer is not given back.
DecodeBodyFails ==
  /\ decode = "body"
  /\ Avail < packLen
  /\ cut \/ Avail < Len(wire)
  /\ wire' = <<>>
  /\ decode' = "panicked"
  /\ UNCHANGED <<writeVars, cut, packLen, buf, pack, got, lent>>

\* The caller has handled the pack, and its deferred free runs.
CallerFrees ==
  /\ decode = "held"
  /\ got' = Append(got, pack)
  /\ lent' = Free(buf)
  /\ buf' = NoBuf /\ pack' = <<>> /\ packLen' = 0
  /\ decode' = "len"
  /\ UNCHANGED <<writeVars, wire, cut>>

DecodeSteps ==
  DecodeLen \/ DecodeLenFails \/ DecodeBody \/ DecodeBodyFails \/ CallerFrees

Next ==
  \/ \E n \in Lens : \/ Encode(n)
                     \/ \E k \in 0..n : EncodeFails(n, k)
                     \/ \E k \in 0..(n + 1) : CloseEndsMessage(n, k)
  \/ \E k \in 0..Len(wire) : Cut(k)
  \/ DecodeSteps

Spec == Init /\ [][Next]_vars

\* readLoop and receiveLoop call Decode again and again.
FairSpec == Spec /\ WF_vars(DecodeSteps)

-----------------------------------------------------------------------------
(***************************************************************************)
(* Properties.                                                              *)
(***************************************************************************)
Unit == [frame : 0..MaxFrames, n : Nat]

\* Type invariant.
TypeOK ==
  /\ transport \in {"stream", "message"} /\ pool \in RingPools
  /\ frames \in Seq(Lens) /\ Len(frames) <= MaxFrames
  /\ writer \in {"ok", "broken"} /\ cut \in BOOLEAN
  /\ wire \in Seq(Unit) /\ pack \in Seq(Unit) /\ Len(pack) <= MaxPackSize
  /\ decode \in {"len", "body", "held", "failed", "panicked"}
  /\ packLen \in Nat
  /\ buf \in [cap : 0..MaxPackSize \cup Sizes, ring : {0} \cup Sizes]
  /\ \A i \in 1..Len(got) : got[i] \in Seq(Unit)
  /\ lent \in [Sizes -> Nat]

\* Decode returns the packs given to Encode, whole, in order and without a gap,
\* wherever the connection is cut, a failed Encode stopped or a Close ended the
\* message under way: no part of a frame is ever taken for a pack.
DecodedIsPrefix ==
  LET all == IF decode = "held" THEN Append(got, pack) ELSE got
  IN  /\ Len(all) <= Len(frames)
      /\ \A i \in 1..Len(all) : all[i] = Body(i, frames[i])

\* A buffer goes back to the ring it came from and a fallback buffer to none, though
\* free gets a slice that is shorter than the buffer: until a Decode panics, a ring
\* has lent exactly what Decode or its caller holds.  The Decode that is cut in the
\* middle of a body is the exception: it panics in its deferred free, and its buffer
\* is lost.
LentIsHeld ==
  decode # "panicked" =>
    \A s \in Sizes : lent[s] = IF buf.ring = s /\ decode \in {"body", "held"} THEN 1 ELSE 0

\* How many calls of Encode have succeeded.
Encoded == IF writer = "ok" THEN Len(frames) ELSE Len(frames) - 1

\* Every frame of a legal length that Encode has accepted after frames of legal
\* lengths is decoded, as long as the connection lasts and provided the pool was made.
FramesArrive ==
  \A i \in 1..MaxFrames :
    (pool = "ready" /\ Encoded >= i /\ \A j \in 1..i : Legal(frames[j]))
      ~> (cut \/ Len(got) >= i)

\* The deferred function of Decode (tcp/frame/codec.go:94-98) frees the buffer
\* "if err != nil": a Decode that has failed keeps no buffer.
FailedDecodeKeepsNothing ==
  decode \in {"failed", "panicked"} => \A s \in Sizes : lent[s] = 0

\* xnet/service.go:10, "MaxPackSize is the maximum size of the body": the body of a
\* pack that Encode accepted is never too large for the peer's Decode.
BodyFitsPeer ==
  decode = "failed" /\ Len(got) < Len(frames) => packLen <= MaxPackSize

\* example/kcp/server/main.go:25-27 learns from InitMOBARingPool that it "failed to
\* initialize": where no error was returned, a codec has a pool.
PoolIsMade == frames # <<>> => pool = "ready"

=============================================================================
