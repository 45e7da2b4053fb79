--------------------------- MODULE PcmBridgeProofs ---------------------------
(***************************************************************************)
(* The PCM bridge as a whole, for any scenes, writers, streams and sizes.   *)
(* The ring's own invariant (PcmRingProofs) carries over, because every     *)
(* step of the bridge is a step of the ring or leaves it alone; four more   *)
(* parts say what the daemon, its writers and the HTTP thread make of it:   *)
(* the types, the marker, the title that was flushed, and the room a daemon *)
(* was promised.                                                            *)
(***************************************************************************)
EXTENDS PcmBridge, PcmRingProofs

USE RingAssumption, StreamAssumption, RelayAssumption
    DEF RingAssumption, StreamAssumption, RelayAssumption

OpPlaces == {"idle", "connectMarker", "connectArm", "connectDone", "flushMarker", "flushArm",
             "flushKeep", "flushRaise", "disconnect", "unref", "disconnectWait", "unrefWait"}

StreamRecs == [state : {"none", "new", "ready", "terminated", "freed"},
               corked : BOOLEAN, started : BOOLEAN, written : Nat]

DaemonTypes ==
  /\ scene \in Scenes
  /\ active \in Streams \cup {None}
  /\ stream \in [Streams -> StreamRecs]
  /\ q \in Nat /\ resetAt \in Nat /\ granted \in Nat /\ done \in Nat /\ begun \in Nat
  /\ onto \in [Writers -> [on : Streams \cup {None}, paced : BOOLEAN]]
  /\ op \in [at : OpPlaces, on : Streams \cup {None}]

SharedTypes ==
  /\ window \in {"none", "open", "over"}
  /\ armed \in 0 .. ArmMax
  /\ boundary \in Positions

RelayTypes ==
  /\ slot \in Conns
  /\ listen \in Seq(Conns) /\ Len(listen) <= Backlog
  /\ chunk \in [lo : Nat, hi : Nat, end : BOOLEAN] /\ chunk.lo <= chunk.hi
  /\ cap \in Nat
  /\ posted \in Nat
  /\ back \in {"keep", "clear"}

\* The chunk in hand was popped, and a marker that was just planted lies behind it.
MarkerInv ==
  /\ chunk.hi <= popped
  /\ half # "none" => todo # <<>>
  /\ half = "planted" => boundary = -1 \/ chunk.hi <= boundary
  /\ NothingPastMarker

\* From the flush of the ring to the disconnect that follows, nobody writes.
Flushing == {"flushMarker", "flushArm", "flushKeep", "flushRaise"}

TitleInv ==
  /\ resetAt <= pushed
  /\ op.at \in Flushing =>
       /\ pushed = resetAt
       /\ \A w \in Writers : call[w].at = "out" \/ call[w].epoch # epoch
  /\ flag /\ pc \in {"trim", "write"} => chunk.hi <= resetAt

\* A daemon that was promised room is alone with it until its write is in.
PacedInv ==
  /\ granted > 0 => inside = {} /\ fill + granted + Margin <= Capacity
  /\ \A w \in Writers :
       onto[w].paced =>
         /\ inside \subseteq {w}
         /\ call[w].at # "waiting"
         /\ call[w].at # "out" => fill + call[w].left + call[w].rest <= Capacity

BridgeInv ==
  RingInv /\ DaemonTypes /\ SharedTypes /\ RelayTypes /\ MarkerInv /\ TitleInv /\ PacedInv

-----------------------------------------------------------------------------
(* What a step of the HTTP thread or of a peer leaves alone.                *)

HttpRing ==
  \/ UNCHANGED ringVars
  \/ \E b \in BOOLEAN : SetClient(b)
  \/ HoldTimeout \/ HoldRelease \/ ForgetExpired \/ SuppressHold \/ Underrun
  \/ \E most \in Nat : Pop(most)

HttpFrame ==
  /\ HttpRing
  /\ UNCHANGED daemonVars
  /\ flag' => flag

LEMMA ServeFrame ==
  ASSUME Serve
  PROVE  HttpFrame
<1> USE DEF HttpFrame, HttpRing, streamVars, sharedVars, flushVars
<1>1. CASE ServeForeign
  BY <1>1 DEF ServeForeign
<1>2. CASE ServeBoundary
  BY <1>2 DEF ServeBoundary
<1>3. CASE PlantBoundary
  BY <1>3 DEF PlantBoundary
<1>4. CASE MarkBoundary
  BY <1>4 DEF MarkBoundary
<1>5. CASE ServeLateArm
  BY <1>5 DEF ServeLateArm
<1>6. CASE ServeArm
  BY <1>6 DEF ServeArm
<1>7. CASE RaiseArm
  BY <1>7 DEF RaiseArm
<1>8. CASE ServeRelease
  BY <1>8 DEF ServeRelease
<1>9. CASE ServeBrowseKeep
  BY <1>9 DEF ServeBrowseKeep
<1>10. CASE ServeSeekKeep
  BY <1>10 DEF ServeSeekKeep
<1> QED
  BY <1>1, <1>2, <1>3, <1>4, <1>5, <1>6, <1>7, <1>8, <1>9, <1>10 DEF Serve

\* The loop from its top to the attach of a client.
LoopStep ==
  \/ Top \/ PassAccepts \/ PassEnds \/ KeepPass \/ KeepClear \/ Decide
  \/ CloseFlushed \/ Closed
  \/ Poll \/ HeadTimeout \/ DispatchControl \/ DispatchNothing
  \/ Takeover \/ Attach \/ Attached \/ AttachFails

\* The drain of the ring.
DrainStep ==
  \/ Drain \/ GateShut \/ GateEnds \/ GateOpen \/ PopNothing \/ PopChunk \/ Trim
  \/ WriteDone \/ WriteDoneEnds \/ WriteFails \/ WriteTick \/ WriteDeferred
  \/ EdgeSeen \/ NoEdge \/ TakeLoop \/ Call

LEMMA LoopFrame ==
  ASSUME LoopStep
  PROVE  HttpFrame
<1> USE DEF HttpFrame, HttpRing, streamVars, sharedVars, flushVars
<1>1. CASE Top
  BY <1>1 DEF Top, PassBegins, Goto
<1>2. CASE PassAccepts
  BY <1>2 DEF PassAccepts
<1>3. CASE PassEnds
  BY <1>3 DEF PassEnds, Goto
<1>4. CASE KeepPass
  BY <1>4 DEF KeepPass, PassBegins, Goto
<1>5. CASE KeepClear
  BY <1>5 DEF KeepClear
<1>6. CASE Decide
  BY <1>6 DEF Decide, Goto
<1>7. CASE CloseFlushed
  BY <1>7 DEF CloseFlushed, Departs
<1>8. CASE Closed
  BY <1>8 DEF Closed
<1>9. CASE Poll
  BY <1>9 DEF Poll
<1>10. CASE HeadTimeout
  BY <1>10 DEF HeadTimeout
<1>11. CASE DispatchControl
  BY <1>11 DEF DispatchControl
<1>12. CASE DispatchNothing
  BY <1>12 DEF DispatchNothing, Goto
<1>13. CASE Takeover
  BY <1>13 DEF Takeover
<1>14. CASE Attach
  BY <1>14 DEF Attach
<1>15. CASE Attached
  BY <1>15 DEF Attached
<1>16. CASE AttachFails
  BY <1>16 DEF AttachFails
<1> QED
  BY <1>1, <1>2, <1>3, <1>4, <1>5, <1>6, <1>7, <1>8, <1>9, <1>10, <1>11, <1>12, <1>13, <1>14,
     <1>15, <1>16 DEF LoopStep

LEMMA DrainFrame ==
  ASSUME cap \in Nat, DrainStep
  PROVE  HttpFrame
<1> USE DEF HttpFrame, HttpRing, streamVars, sharedVars, flushVars
<1>1. CASE Drain
  BY <1>1 DEF Drain
<1>2. CASE GateShut
  BY <1>2 DEF GateShut, Goto
<1>3. CASE GateEnds
  BY <1>3 DEF GateEnds, EndsAtMarker, Departs
<1>4. CASE GateOpen
  BY <1>4 DEF GateOpen
<1>5. CASE PopNothing
  BY <1>5 DEF PopNothing, Goto
<1>6. CASE PopChunk
  BY <1>6 DEF PopChunk
<1>7. CASE Trim
  BY <1>7 DEF Trim
<1>8. CASE WriteDone
  BY <1>8 DEF WriteDone, Goto
<1>9. CASE WriteDoneEnds
  BY <1>9 DEF WriteDoneEnds, EndsAtMarker, Departs
<1>10. CASE WriteFails
  BY <1>10 DEF WriteFails, Departs
<1>11. CASE WriteTick
  BY <1>11 DEF WriteTick
<1>12. CASE WriteDeferred
  BY <1>12 DEF WriteDeferred, Goto
<1>13. CASE EdgeSeen
  BY <1>13 DEF EdgeSeen
<1>14. CASE NoEdge
  BY <1>14 DEF NoEdge, Goto
<1>15. CASE TakeLoop
  BY <1>15 DEF TakeLoop, Goto
<1>16. CASE Call
  BY <1>16 DEF Call, Goto
<1> QED
  BY <1>1, <1>2, <1>3, <1>4, <1>5, <1>6, <1>7, <1>8, <1>9, <1>10, <1>11, <1>12, <1>13, <1>14,
     <1>15, <1>16 DEF DrainStep

PeerStep == Post \/ PeerActs

LEMMA PeerFrame ==
  ASSUME PeerStep
  PROVE  HttpFrame
BY DEF PeerStep, Post, PeerActs, HttpFrame, HttpRing, streamVars, sharedVars, flushVars

LEMMA HttpStepParts ==
  ASSUME HttpStep
  PROVE  Serve \/ LoopStep \/ DrainStep
BY DEF HttpStep, LoopStep, DrainStep

\* The items of a scene are of their kinds.
LEMMA SceneItems ==
  ASSUME DaemonTypes
  PROVE  /\ done < Len(scene.ops) => IsOp(scene.ops[done + 1])
         /\ begun < Len(scene.writes) => IsWrite(scene.writes[begun + 1])
         /\ posted \in Nat /\ posted < Len(scene.net) => IsPeer(scene.net[posted + 1])
<1>1. /\ scene \in Scenes /\ done \in Nat /\ begun \in Nat
      /\ Len(scene.ops) \in Nat /\ Len(scene.writes) \in Nat /\ Len(scene.net) \in Nat
  BY SceneAssumption DEF DaemonTypes
<1> QED
  BY <1>1, SceneAssumption

-----------------------------------------------------------------------------
(* What a step of the daemon's side leaves alone.                           *)

DaemonFrame ==
  /\ [RingNext]_ringVars
  /\ boundary' \in {boundary, -1}

LEMMA WriterFrame ==
  ASSUME NEW w \in Writers, WriterStep(w)
  PROVE  DaemonFrame
<1> USE DEF DaemonFrame, RingNext, streamVars, sharedVars
<1>1. CASE WriteAdmit(w)
  BY <1>1 DEF WriteAdmit
<1>2. CASE WritePush(w)
  BY <1>2 DEF WritePush
<1>3. CASE WriteEnd(w)
  BY <1>3 DEF WriteEnd
<1> QED
  BY <1>1, <1>2, <1>3 DEF WriterStep

LEMMA OpStepFrame ==
  ASSUME OpStep
  PROVE  DaemonFrame
<1> USE DEF DaemonFrame, RingNext, sharedVars
<1>1. CASE ConnectMarker
  BY <1>1 DEF ConnectMarker
<1>2. CASE ConnectArm
  BY <1>2 DEF ConnectArm
<1>3. CASE ConnectDone
  BY <1>3 DEF ConnectDone
<1>4. CASE FlushMarker
  BY <1>4 DEF FlushMarker
<1>5. CASE FlushArmed
  BY <1>5 DEF FlushArmed
<1>6. CASE FlushUnarmed
  BY <1>6 DEF FlushUnarmed
<1>7. CASE FlushKept
  BY <1>7 DEF FlushKept
<1>8. CASE FlushWindow
  BY <1>8 DEF FlushWindow
<1>9. CASE FlushRaise
  BY <1>9 DEF FlushRaise
<1>10. CASE TearDownWake
  BY <1>10 DEF TearDownWake
<1>11. CASE TearDownEnds
  BY <1>11 DEF TearDownEnds
<1> QED
  BY <1>1, <1>2, <1>3, <1>4, <1>5, <1>6, <1>7, <1>8, <1>9, <1>10, <1>11 DEF OpStep

LEMMA OpStartFrame ==
  ASSUME NEW seen, OpStart(seen)
  PROVE  DaemonFrame
<1> USE DEF DaemonFrame, RingNext, sharedVars
<1>1. CASE New(seen)
  BY <1>1 DEF New
<1>2. CASE ConnectRing(seen)
  BY <1>2 DEF ConnectRing
<1>3. CASE Cork(seen)
  BY <1>3 DEF Cork
<1>4. CASE FlushRing(seen)
  BY <1>4 DEF FlushRing
<1>5. CASE TearDown(seen)
  BY <1>5 DEF TearDown
<1> QED
  BY <1>1, <1>2, <1>3, <1>4, <1>5 DEF OpStart

\* The sink, the answers to the daemon and the clocks.
TickStep == AskWritable \/ SinkPlays \/ WindowCloses \/ ArmAges \/ KeepAges \/ RingClock

LEMMA TickFrame ==
  ASSUME TickStep
  PROVE  DaemonFrame
<1> USE DEF DaemonFrame, RingNext, streamVars, sharedVars
<1>1. CASE AskWritable
  BY <1>1 DEF AskWritable
<1>2. CASE SinkPlays
  BY <1>2 DEF SinkPlays
<1>3. CASE WindowCloses
  BY <1>3 DEF WindowCloses
<1>4. CASE ArmAges
  BY <1>4 DEF ArmAges
<1>5. CASE KeepAges
  BY <1>5 DEF KeepAges
<1>6. CASE RingClock
  BY <1>6 DEF RingClock
<1> QED
  BY <1>1, <1>2, <1>3, <1>4, <1>5, <1>6 DEF TickStep

LEMMA WriteStartFrame ==
  ASSUME DaemonTypes, NEW seen, WriteStart(seen)
  PROVE  DaemonFrame
<1> DEFINE next == scene.writes[begun + 1]
<1>1. Enter(next.by, next.size) /\ begun < Len(scene.writes) /\ boundary' = boundary
  BY DEF WriteStart, sharedVars
<1>2. next.by \in Writers /\ next.size \in Nat
  BY <1>1, SceneItems DEF IsWrite
<1> QED
  BY <1>1, <1>2 DEF DaemonFrame, RingNext

LEMMA StreamSideFrame ==
  ASSUME DaemonTypes, StreamSide
  PROVE  DaemonFrame
<1>1. CASE OpStart(Seen)
  BY <1>1, OpStartFrame
<1>2. CASE OpStep
  BY <1>2, OpStepFrame
<1>3. CASE WriteStart(Seen)
  BY <1>3, WriteStartFrame
<1>4. CASE \E w \in Writers : WriterStep(w)
  BY <1>4, WriterFrame
<1>5. CASE TickStep
  BY <1>5, TickFrame
<1> QED
  BY <1>1, <1>2, <1>3, <1>4, <1>5 DEF StreamSide, TickStep

\* Every step of the bridge is a step of the ring or leaves it alone.
LEMMA RingStep ==
  ASSUME DaemonTypes, cap \in Nat, [Next]_bridgeVars
  PROVE  [RingNext]_ringVars
<1>1. CASE StreamSide
  BY <1>1, StreamSideFrame DEF DaemonFrame
<1>2. CASE HttpStep \/ PeerStep
  <2>1. HttpFrame
    BY <1>2, HttpStepParts, ServeFrame, LoopFrame, DrainFrame, PeerFrame
  <2> QED
    BY <2>1 DEF HttpFrame, HttpRing, RingNext
<1>3. CASE UNCHANGED bridgeVars
  BY <1>3 DEF bridgeVars
<1> QED
  BY <1>1, <1>2, <1>3 DEF Next, PeerStep


-----------------------------------------------------------------------------
(* Types of the connections.                                                *)

LEMMA ConnTypes ==
  ASSUME NEW c \in Conns
  PROVE  /\ TryRead(c) \in Conns
         /\ Waits(c) => Turned(c) \in Conns
<1>1. NoConn \in Conns
  BY DEF Conns
<1>2. CASE c = NoConn
  <2>1. c.head = "none"
    BY <1>2 DEF NoConn
  <2> QED
    BY <1>2, <2>1 DEF TryRead, Waits
<1>3. CASE c \in [kind : Controls \cup {"get"}, local : BOOLEAN,
                  head : {"silent", "dying", "sent", "read", "gone"}]
  <2>1. \A h \in {"sent", "read", "gone"} : [c EXCEPT !.head = h] \in Conns
    BY <1>3 DEF Conns
  <2> QED
    BY <2>1, <1>1, <1>3 DEF TryRead, Waits, Turned
<1> QED
  BY <1>2, <1>3 DEF Conns

LEMMA AcceptTypes ==
  ASSUME slot \in Conns, NEW c \in Conns
  PROVE  Accepted(c).slot \in Conns
<1>1. TryRead(c) \in Conns /\ TryRead(slot) \in Conns /\ NoConn \in Conns
  BY ConnTypes DEF Conns
<1> QED
  BY <1>1 DEF Accepted

LEMMA SettleTypes ==
  ASSUME NEW c \in Conns, NEW serve, NEW kinds, Settled(c, serve, kinds)
  PROVE  slot' \in Conns
BY DEF Settled, Conns

LEMMA BacklogTypes ==
  ASSUME listen \in Seq(Conns), listen # <<>>, Len(listen) <= Backlog
  PROVE  Head(listen) \in Conns /\ Tail(listen) \in Seq(Conns) /\ Len(Tail(listen)) <= Backlog
<1>1. Head(listen) \in Conns /\ Tail(listen) \in Seq(Conns) /\ Len(Tail(listen)) = Len(listen) - 1
      /\ Len(listen) \in Nat
  OBVIOUS
<1> QED
  BY <1>1

-----------------------------------------------------------------------------
(* The types, kept by the HTTP thread and the peers.                        *)

RelayKept == SharedTypes' /\ RelayTypes'

LEMMA ServeTypes ==
  ASSUME RingInv, SharedTypes, RelayTypes, Serve
  PROVE  RelayKept
<1> USE DEF RelayKept, SharedTypes, RelayTypes, streamVars, sharedVars, flushVars, connVars,
            chunkVars
<1>1. CASE ServeForeign
  BY <1>1 DEF ServeForeign
<1>2. CASE ServeBoundary
  BY <1>2 DEF ServeBoundary
<1>3. CASE PlantBoundary
  <2>1. pushed \in Nat /\ popped \in Nat /\ lastEmpty \in Positions /\ holdAt \in Positions
    BY DEF RingInv, Cursors
  <2>2. Most(lastEmpty, popped) \in Positions /\ pushed \in Positions
    BY <2>1 DEF Most, Positions
  <2>3. boundary' \in Positions
    BY <1>3, <2>1, <2>2 DEF PlantBoundary
  <2> QED
    BY <1>3, <2>3 DEF PlantBoundary
<1>4. CASE MarkBoundary
  BY <1>4 DEF MarkBoundary
<1>5. CASE ServeLateArm
  BY <1>5 DEF ServeLateArm
<1>6. CASE ServeArm
  BY <1>6 DEF ServeArm
<1>7. CASE RaiseArm
  <2>1. armed' \in 0 .. ArmMax
    BY <1>7 DEF RaiseArm, Least
  <2> QED
    BY <1>7, <2>1 DEF RaiseArm
<1>8. CASE ServeRelease
  BY <1>8 DEF ServeRelease
<1>9. CASE ServeBrowseKeep
  BY <1>9 DEF ServeBrowseKeep
<1>10. CASE ServeSeekKeep
  BY <1>10 DEF ServeSeekKeep
<1> QED
  BY <1>1, <1>2, <1>3, <1>4, <1>5, <1>6, <1>7, <1>8, <1>9, <1>10 DEF Serve

LEMMA LoopTypes ==
  ASSUME RingInv, SharedTypes, RelayTypes, LoopStep
  PROVE  RelayKept
<1> USE DEF RelayKept, SharedTypes, RelayTypes, streamVars, sharedVars, flushVars, connVars,
            chunkVars
<1>c. TryRead(slot) \in Conns /\ NoConn \in Conns /\ -1 \in Positions
  BY ConnTypes DEF Conns, Positions
<1>p. ASSUME NEW to \in {"keep", "clear"}, PassBegins(to) PROVE RelayKept
  <2>1. slot' \in Conns
    BY <1>c, <1>p, SettleTypes DEF PassBegins
  <2> QED
    BY <1>p, <2>1 DEF PassBegins
<1>1. CASE Top
  BY <1>1, <1>p DEF Top, Goto
<1>2. CASE PassAccepts
  <2>1. listen # <<>> /\ listen' = Tail(listen)
    BY <1>2 DEF PassAccepts
  <2>2. Head(listen) \in Conns /\ Tail(listen) \in Seq(Conns) /\ Len(Tail(listen)) <= Backlog
    BY <2>1, BacklogTypes
  <2>3. TryRead(Accepted(Head(listen)).slot) \in Conns
    BY <2>2, AcceptTypes, ConnTypes
  <2>4. slot' \in Conns
    BY <1>2, <2>3, SettleTypes DEF PassAccepts
  <2> QED
    BY <1>2, <2>1, <2>2, <2>4 DEF PassAccepts
<1>3. CASE PassEnds
  BY <1>3 DEF PassEnds, Goto
<1>4. CASE KeepPass
  BY <1>4, <1>p DEF KeepPass, Goto
<1>5. CASE KeepClear
  BY <1>5 DEF KeepClear
<1>6. CASE Decide
  BY <1>6 DEF Decide, Goto
<1>7. CASE CloseFlushed
  BY <1>7 DEF CloseFlushed
<1>8. CASE Closed
  BY <1>8, <1>c DEF Closed
<1>9. CASE Poll
  <2>1. CASE listen = <<>>
    BY <1>9, <2>1, <1>c DEF Poll
  <2>2. CASE listen # <<>>
    <3>1. Head(listen) \in Conns /\ Tail(listen) \in Seq(Conns) /\ Len(Tail(listen)) <= Backlog
      BY <2>2, BacklogTypes
    <3>2. Accepted(Head(listen)).slot \in Conns
      BY <3>1, AcceptTypes
    <3> QED
      BY <1>9, <2>2, <3>1, <3>2, <1>c DEF Poll
  <2> QED
    BY <2>1, <2>2
<1>10. CASE HeadTimeout
  BY <1>10, <1>c DEF HeadTimeout
<1>11. CASE DispatchControl
  BY <1>11, <1>c DEF DispatchControl
<1>12. CASE DispatchNothing
  BY <1>12 DEF DispatchNothing, Goto
<1>13. CASE Takeover
  BY <1>13 DEF Takeover
<1>14. CASE Attach
  BY <1>14, <1>c DEF Attach
<1>15. CASE Attached
  BY <1>15 DEF Attached
<1>16. CASE AttachFails
  BY <1>16, <1>c DEF AttachFails
<1> QED
  BY <1>1, <1>2, <1>3, <1>4, <1>5, <1>6, <1>7, <1>8, <1>9, <1>10, <1>11, <1>12, <1>13, <1>14,
     <1>15, <1>16 DEF LoopStep

\* What a pop puts into the hand of the thread.
LEMMA PopTypes ==
  ASSUME RingInv, cap \in Nat, PopChunk
  PROVE  /\ chunk' = [lo |-> popped, hi |-> popped', end |-> FALSE]
         /\ popped \in Nat /\ popped' \in Nat /\ popped <= popped'
<1>1. [RingNext]_ringVars
  BY DEF PopChunk, RingNext
<1> QED
  BY <1>1, Onward DEF PopChunk

LEMMA DrainTypes ==
  ASSUME RingInv, SharedTypes, RelayTypes, DrainStep
  PROVE  RelayKept
<1> USE DEF RelayKept, SharedTypes, RelayTypes, streamVars, sharedVars, flushVars, connVars,
            chunkVars
<1>c. TryRead(slot) \in Conns /\ -1 \in Positions /\ popped \in Nat
  BY ConnTypes DEF Positions, RingInv, Cursors
<1>1. CASE Drain
  BY <1>1 DEF Drain
<1>2. CASE GateShut
  BY <1>2 DEF GateShut, Goto
<1>3. CASE GateEnds
  BY <1>3, <1>c DEF GateEnds, EndsAtMarker
<1>4. CASE GateOpen
  <2>1. cap' \in Nat
    BY <1>4, <1>c DEF GateOpen, Applies, Least, Positions
  <2> QED
    BY <1>4, <2>1 DEF GateOpen
<1>5. CASE PopNothing
  BY <1>5 DEF PopNothing, Goto
<1>6. CASE PopChunk
  <2>1. chunk' \in [lo : Nat, hi : Nat, end : BOOLEAN] /\ chunk'.lo <= chunk'.hi
    <3>1. /\ chunk' = [lo |-> popped, hi |-> popped', end |-> FALSE]
          /\ popped \in Nat /\ popped' \in Nat /\ popped <= popped'
      BY <1>6, PopTypes
    <3>2. chunk' \in [lo : Nat, hi : Nat, end : BOOLEAN]
      BY <3>1
    <3>3. chunk'.lo = popped /\ chunk'.hi = popped'
      BY <3>1
    <3> QED
      BY <3>1, <3>2, <3>3
  <2> QED
    BY <1>6, <2>1 DEF PopChunk
<1>7. CASE Trim
  <2> DEFINE n == Most(boundary - (popped - (chunk.hi - chunk.lo)), 0)
  <2>1. n \in Nat /\ chunk.lo + n \in Nat /\ chunk.lo <= chunk.lo + n
    BY <1>c DEF Most, Positions
  <2> DEFINE d == [chunk EXCEPT !.hi = chunk.lo + n, !.end = TRUE]
  <2>2. d \in [lo : Nat, hi : Nat, end : BOOLEAN] /\ d.lo = chunk.lo /\ d.hi = chunk.lo + n
    BY <2>1
  <2>3. chunk' = d \/ chunk' = chunk
    BY <1>7 DEF Trim
  <2>4. boundary' = -1 \/ boundary' = boundary
    BY <1>7 DEF Trim
  <2>5. UNCHANGED <<slot, listen, cap, posted, back, window, armed>>
    BY <1>7 DEF Trim
  <2> HIDE DEF d, n
  <2> QED
    BY <2>1, <2>2, <2>3, <2>4, <2>5, <1>c
<1>8. CASE WriteDone
  BY <1>8 DEF WriteDone, Goto
<1>9. CASE WriteDoneEnds
  BY <1>9, <1>c DEF WriteDoneEnds, EndsAtMarker
<1>10. CASE WriteFails
  BY <1>10 DEF WriteFails
<1>11. CASE WriteTick
  <2> DEFINE came == slot = NoConn /\ listen # <<>>
             c == TryRead(IF came THEN Head(listen) ELSE slot)
  <2>1. c \in Conns /\ listen' \in Seq(Conns) /\ Len(listen') <= Backlog
    <3>1. CASE came
      BY <1>11, <3>1, BacklogTypes, ConnTypes DEF WriteTick
    <3>2. CASE ~came
      BY <1>11, <3>2, <1>c DEF WriteTick
    <3> QED
      BY <3>1, <3>2
  <2>2. Settled(c, <<>>, Controls)
    BY <1>11 DEF WriteTick
  <2> HIDE DEF c
  <2>3. slot' \in Conns
    BY <2>1, <2>2, SettleTypes
  <2> QED
    BY <1>11, <2>1, <2>3 DEF WriteTick
<1>12. CASE WriteDeferred
  BY <1>12 DEF WriteDeferred, Goto
<1>13. CASE EdgeSeen
  BY <1>13 DEF EdgeSeen
<1>14. CASE NoEdge
  BY <1>14 DEF NoEdge, Goto
<1>15. CASE TakeLoop
  BY <1>15 DEF TakeLoop, Goto
<1>16. CASE Call
  BY <1>16 DEF Call, Goto
<1> QED
  BY <1>1, <1>2, <1>3, <1>4, <1>5, <1>6, <1>7, <1>8, <1>9, <1>10, <1>11, <1>12, <1>13, <1>14,
     <1>15, <1>16 DEF DrainStep

LEMMA PeerTypes ==
  ASSUME DaemonTypes, SharedTypes, RelayTypes, PeerStep
  PROVE  RelayKept
<1> USE DEF RelayKept, SharedTypes, RelayTypes, streamVars, sharedVars, flushVars, connVars,
            chunkVars
<1>1. CASE Post
  <2> DEFINE c == scene.net[posted + 1]
             d == [kind |-> c.kind, local |-> c.local, head |-> c.head]
  <2>1. IsPeer(c)
    BY <1>1, SceneItems DEF Post
  <2>2. d \in Conns
    BY <2>1 DEF IsPeer, Conns
  <2>3. listen' = Append(listen, d) /\ Len(listen) < Backlog
    BY <1>1 DEF Post
  <2> HIDE DEF d
  <2>4. listen' \in Seq(Conns) /\ Len(listen') = Len(listen) + 1 /\ Len(listen) \in Nat
    BY <2>2, <2>3
  <2>5. Len(listen') <= Backlog
    BY <2>3, <2>4
  <2> QED
    BY <1>1, <2>4, <2>5 DEF Post
<1>2. CASE PeerActs
  <2>1. CASE Waits(slot) /\ slot' = Turned(slot) /\ UNCHANGED listen
    BY <1>2, <2>1, ConnTypes DEF PeerActs
  <2>2. CASE \E i \in DOMAIN listen : /\ Waits(listen[i])
                                      /\ listen' = [listen EXCEPT ![i] = Turned(listen[i])]
                                      /\ UNCHANGED slot
    <3>1. PICK i \in DOMAIN listen : /\ Waits(listen[i])
                                     /\ listen' = [listen EXCEPT ![i] = Turned(listen[i])]
                                     /\ UNCHANGED slot
      BY <2>2
    <3>2. listen[i] \in Conns
      BY <3>1
    <3>3. Turned(listen[i]) \in Conns
      BY <3>1, <3>2, ConnTypes
    <3>4. listen' \in Seq(Conns) /\ Len(listen') = Len(listen)
      BY <3>1, <3>3
    <3> QED
      BY <1>2, <3>1, <3>4 DEF PeerActs
  <2> QED
    BY <1>2, <2>1, <2>2 DEF PeerActs
<1> QED
  BY <1>1, <1>2 DEF PeerStep


-----------------------------------------------------------------------------
(* The types, kept by the daemon's side.                                    *)

DaemonKept == DaemonTypes' /\ SharedTypes'

\* A stream, a write and the place in a call stay records of their kind.
LEMMA StreamUpdate ==
  ASSUME DaemonTypes, NEW s
  PROVE  /\ \A x \in {"none", "new", "ready", "terminated", "freed"} :
              [stream EXCEPT ![s].state = x] \in [Streams -> StreamRecs]
         /\ \A b \in BOOLEAN : [stream EXCEPT ![s].corked = b] \in [Streams -> StreamRecs]
         /\ [stream EXCEPT ![s].started = TRUE] \in [Streams -> StreamRecs]
         /\ \A n \in Nat : [stream EXCEPT ![s].written = @ + n] \in [Streams -> StreamRecs]
<1>1. stream \in [Streams -> StreamRecs]
  BY DEF DaemonTypes
<1>2. \A x \in {"none", "new", "ready", "terminated", "freed"} :
         [stream EXCEPT ![s].state = x] \in [Streams -> StreamRecs]
  BY <1>1 DEF StreamRecs
<1>3. \A b \in BOOLEAN : [stream EXCEPT ![s].corked = b] \in [Streams -> StreamRecs]
  BY <1>1 DEF StreamRecs
<1>4. [stream EXCEPT ![s].started = TRUE] \in [Streams -> StreamRecs]
  BY <1>1 DEF StreamRecs
<1>5. \A n \in Nat : [stream EXCEPT ![s].written = @ + n] \in [Streams -> StreamRecs]
  <2> SUFFICES ASSUME NEW n \in Nat
               PROVE  [stream EXCEPT ![s].written = @ + n] \in [Streams -> StreamRecs]
    OBVIOUS
  <2>1. CASE s \in Streams
    <3>1. stream[s] \in StreamRecs /\ stream[s].written + n \in Nat
      BY <1>1, <2>1 DEF StreamRecs
    <3>2. [stream[s] EXCEPT !.written = stream[s].written + n] \in StreamRecs
      BY <3>1 DEF StreamRecs
    <3> QED
      BY <1>1, <2>1, <3>2
  <2>2. CASE s \notin Streams
    BY <1>1, <2>2
  <2> QED
    BY <2>1, <2>2
<1> QED
  BY <1>2, <1>3, <1>4, <1>5

LEMMA WriterTypes ==
  ASSUME RingInv, DaemonTypes, SharedTypes, NEW w \in Writers, WriterStep(w)
  PROVE  DaemonKept
<1> USE DEF DaemonKept, SharedTypes, sharedVars, flushVars, opVars, writeVars
<1>1. CASE WriteAdmit(w)
  <2>1. q' \in Nat
    BY <1>1, CallTypes DEF WriteAdmit, DaemonTypes
  <2>2. stream' \in [Streams -> StreamRecs]
    BY <1>1, StreamUpdate DEF WriteAdmit
  <2> QED
    BY <1>1, <2>1, <2>2 DEF WriteAdmit, DaemonTypes
<1>2. CASE WritePush(w)
  BY <1>2 DEF WritePush, streamVars, daemonVars, sinkVars, DaemonTypes
<1>3. CASE WriteEnd(w)
  <2>1. call[w].refused \in Nat /\ call[w].dropped \in Nat /\ call[w].size \in Nat
    BY CallTypes
  <2>2. q' \in Nat
    BY <1>3, <2>1 DEF WriteEnd, Most, DaemonTypes
  <2>3. stream' \in [Streams -> StreamRecs]
    BY <1>3, <2>1, StreamUpdate DEF WriteEnd
  <2>4. onto' \in [Writers -> [on : Streams \cup {None}, paced : BOOLEAN]]
    BY <1>3 DEF WriteEnd, NoWrite, DaemonTypes
  <2> QED
    BY <1>3, <2>2, <2>3, <2>4 DEF WriteEnd, DaemonTypes
<1> QED
  BY <1>1, <1>2, <1>3 DEF WriterStep

LEMMA OpTypes ==
  ASSUME DaemonTypes
  PROVE  /\ Returns => op' \in [at : OpPlaces, on : Streams \cup {None}] /\ done' \in Nat
         /\ \A x \in OpPlaces, s \in Streams \cup {None} :
              Goes(x, s) => op' \in [at : OpPlaces, on : Streams \cup {None}] /\ done' \in Nat
         /\ op.on \in Streams \cup {None} /\ op.at \in OpPlaces
BY DEF Returns, Goes, Idle, OpPlaces, DaemonTypes

LEMMA OpStepTypes ==
  ASSUME RingInv, DaemonTypes, SharedTypes, OpStep
  PROVE  DaemonKept
<1> USE DEF DaemonKept, SharedTypes, sharedVars, flushVars, writeVars, sinkVars
<1>o. /\ op.on \in Streams \cup {None} /\ op.at \in OpPlaces
      /\ {"connectArm", "connectDone", "flushArm", "flushKeep", "flushRaise", "unrefWait",
          "disconnectWait"} \subseteq OpPlaces
      /\ -1 \in Positions
  BY OpTypes DEF OpPlaces, Positions
<1>1. CASE ConnectMarker
  BY <1>1, <1>o, OpTypes DEF ConnectMarker, DaemonTypes
<1>2. CASE ConnectArm
  <2>1. armed' \in 0 .. ArmMax
    BY <1>2 DEF ConnectArm, Most
  <2> QED
    BY <1>2, <2>1, <1>o, OpTypes DEF ConnectArm, DaemonTypes
<1>3. CASE ConnectDone
  BY <1>3, <1>o, OpTypes, StreamUpdate DEF ConnectDone, DaemonTypes
<1>4. CASE FlushMarker
  BY <1>4, <1>o, OpTypes DEF FlushMarker, DaemonTypes
<1>5. CASE FlushArmed
  <2>1. armed' \in 0 .. ArmMax
    BY <1>5 DEF FlushArmed
  <2> QED
    BY <1>5, <2>1, <1>o, OpTypes DEF FlushArmed, DaemonTypes
<1>6. CASE FlushUnarmed
  BY <1>6, <1>o, OpTypes DEF FlushUnarmed, DaemonTypes
<1>7. CASE FlushKept
  BY <1>7, <1>o, OpTypes DEF FlushKept, DaemonTypes
<1>8. CASE FlushWindow
  BY <1>8, <1>o, OpTypes DEF FlushWindow, DaemonTypes
<1>9. CASE FlushRaise
  BY <1>9, <1>o, OpTypes DEF FlushRaise, DaemonTypes
<1>10. CASE TearDownWake
  BY <1>10, <1>o, OpTypes DEF TearDownWake, DaemonTypes
<1>11. CASE TearDownEnds
  <2>1. stream' \in [Streams -> StreamRecs]
    <3>1. CASE op.at = "unrefWait"
      BY <1>11, <3>1, StreamUpdate DEF TearDownEnds
    <3>2. CASE op.at # "unrefWait"
      <4>1. stream' = stream
        <5>1. stream \in [Streams -> StreamRecs]
          BY DEF DaemonTypes
        <5>2. stream' = [stream EXCEPT ![op.on].state = @]
          BY <1>11, <3>2 DEF TearDownEnds
        <5>3. CASE op.on \in Streams
          <6>1. [stream[op.on] EXCEPT !.state = stream[op.on].state] = stream[op.on]
            BY <5>1, <5>3 DEF StreamRecs
          <6> QED
            BY <5>1, <5>2, <5>3, <6>1
        <5>4. CASE op.on \notin Streams
          BY <5>1, <5>2, <5>4
        <5> QED
          BY <5>3, <5>4
      <4> QED
        BY <4>1 DEF DaemonTypes
    <3> QED
      BY <3>1, <3>2
  <2> QED
    BY <1>11, <2>1, <1>o, OpTypes DEF TearDownEnds, DaemonTypes
<1> QED
  BY <1>1, <1>2, <1>3, <1>4, <1>5, <1>6, <1>7, <1>8, <1>9, <1>10, <1>11 DEF OpStep

LEMMA OpStartTypes ==
  ASSUME RingInv, DaemonTypes, SharedTypes, NEW seen, OpStart(seen)
  PROVE  DaemonKept
<1> USE DEF DaemonKept, SharedTypes, sharedVars, flushVars, writeVars, sinkVars
<1>o. /\ {"connectMarker", "flushMarker", "disconnect", "unref"} \subseteq OpPlaces
      /\ pushed \in Nat
  BY DEF OpPlaces, RingInv, Cursors
<1>i. ASSUME NEW c, Due(c, seen) PROVE IsOp(Item)
  BY <1>i, SceneItems DEF Due, Item
<1>1. CASE New(seen)
  BY <1>1, OpTypes, StreamUpdate DEF New, DaemonTypes
<1>2. CASE ConnectRing(seen)
  <2>1. Item.on \in Streams \cup {None}
    BY <1>2, <1>i DEF ConnectRing, IsOp
  <2> QED
    BY <1>2, <2>1, <1>o, OpTypes DEF ConnectRing, SinkReset, DaemonTypes
<1>3. CASE Cork(seen)
  <2>1. Item.corked \in BOOLEAN
    BY <1>3, <1>i DEF Cork, IsOp
  <2> QED
    BY <1>3, <2>1, OpTypes, StreamUpdate DEF Cork, DaemonTypes
<1>4. CASE FlushRing(seen)
  <2>1. Item.on \in Streams \cup {None}
    BY <1>4, <1>i DEF FlushRing, IsOp
  <2> QED
    BY <1>4, <2>1, <1>o, OpTypes DEF FlushRing, SinkReset, DaemonTypes
<1>5. CASE TearDown(seen)
  <2> DEFINE s == Item.on
             c == Item.call
  <2>1. s \in Streams \cup {None} /\ c \in {"disconnect", "unref"} /\ s \in Streams
    BY <1>5, <1>i DEF TearDown, IsOp, Due, Item
  <2>2. stream' \in [Streams -> StreamRecs]
    <3>1. stream' = [stream EXCEPT ![s].state =
                        IF c = "disconnect" THEN "terminated"
                        ELSE IF s = active THEN stream[s].state ELSE "freed"]
      BY <1>5 DEF TearDown
    <3>2. stream[s].state \in {"none", "new", "ready", "terminated", "freed"}
      BY <2>1 DEF DaemonTypes, StreamRecs
    <3> HIDE DEF s, c
    <3> QED
      BY <3>1, <3>2, StreamUpdate
  <2>3. active' \in Streams \cup {None}
    BY <1>5 DEF TearDown, DaemonTypes
  <2>4. /\ op' \in [at : OpPlaces, on : Streams \cup {None}] /\ done' \in Nat
        /\ q' \in Nat /\ resetAt' \in Nat
    <3>1. CASE s = active
      <4>1. SinkReset /\ Goes(c, s)
        BY <1>5, <3>1 DEF TearDown
      <4>2. c \in OpPlaces
        BY <2>1, <1>o
      <4> QED
        BY <4>1, <4>2, <2>1, <1>o, OpTypes DEF SinkReset
    <3>2. CASE s # active
      <4>1. UNCHANGED <<q, running, resetAt>> /\ Returns
        BY <1>5, <3>2 DEF TearDown
      <4> QED
        BY <4>1, OpTypes DEF DaemonTypes
    <3> QED
      BY <3>1, <3>2
  <2>5. UNCHANGED <<scene, granted, onto, begun, window, armed, boundary>>
    BY <1>5 DEF TearDown
  <2> QED
    BY <2>2, <2>3, <2>4, <2>5 DEF DaemonTypes
<1> QED
  BY <1>1, <1>2, <1>3, <1>4, <1>5 DEF OpStart

\* What the daemon is promised fits into the ring, with the margin to spare.
LEMMA WritableRoom ==
  ASSUME RingInv, DaemonTypes
  PROVE  Writable \in Nat /\ (Writable > 0 => fill + Writable + Margin <= Capacity)
<1> DEFINE free == Most(Capacity - fill - Margin, 0)
           room == Most(SinkSize - q, 0)
<1>1. fill \in Nat /\ q \in Nat
  BY DEF RingInv, Cursors, DaemonTypes
<1>m. ASSUME NEW a \in Int PROVE Most(a, 0) \in Nat /\ (Most(a, 0) > 0 => Most(a, 0) = a)
  BY DEF Most
<1>l. ASSUME NEW a \in Nat, NEW b \in Nat PROVE Least(a, b) \in Nat /\ Least(a, b) <= a
  BY DEF Least
<1>2. free \in Nat /\ (free > 0 => free = Capacity - fill - Margin)
  <2>1. Capacity - fill - Margin \in Int
    BY <1>1
  <2> QED
    BY <2>1, <1>m
<1>3. room \in Nat
  <2>1. SinkSize - q \in Int
    BY <1>1
  <2> QED
    BY <2>1, <1>m
<1>4. Writable = IF SinkOn THEN Least(free, room) ELSE free
  BY DEF Writable
<1> HIDE DEF free, room
<1>5. Writable \in Nat /\ Writable <= free
  BY <1>2, <1>3, <1>4, <1>l
<1>6. ASSUME Writable > 0 PROVE fill + Writable + Margin <= Capacity
  <2>1. free > 0 /\ free = Capacity - fill - Margin
    BY <1>2, <1>5, <1>6
  <2> QED
    BY <1>1, <1>2, <1>5, <2>1
<1> QED
  BY <1>5, <1>6

LEMMA TickTypes ==
  ASSUME RingInv, DaemonTypes, SharedTypes, TickStep
  PROVE  DaemonKept
<1> USE DEF DaemonKept, SharedTypes, streamVars, daemonVars, sharedVars, flushVars, writeVars,
            opVars, sinkVars
<1>1. CASE AskWritable
  <2>2. Writable \in Nat
    BY WritableRoom
  <2> QED
    BY <1>1, <2>2 DEF AskWritable, DaemonTypes
<1>2. CASE SinkPlays
  <2>1. q' \in Nat
    BY <1>2 DEF SinkPlays, DaemonTypes
  <2> QED
    BY <1>2, <2>1 DEF SinkPlays, DaemonTypes
<1>3. CASE WindowCloses
  BY <1>3 DEF WindowCloses, DaemonTypes
<1>4. CASE ArmAges
  BY <1>4 DEF ArmAges, DaemonTypes
<1>5. CASE KeepAges
  BY <1>5 DEF KeepAges, DaemonTypes
<1>6. CASE RingClock
  BY <1>6 DEF RingClock, DaemonTypes
<1> QED
  BY <1>1, <1>2, <1>3, <1>4, <1>5, <1>6 DEF TickStep

LEMMA WriteStartTypes ==
  ASSUME RingInv, DaemonTypes, SharedTypes, NEW seen, WriteStart(seen)
  PROVE  DaemonKept
<1> USE DEF DaemonKept, SharedTypes, sharedVars, flushVars, opVars, sinkVars
<1>1. /\ begun' = begun + 1 /\ granted' = 0
      /\ UNCHANGED <<scene, active, stream, q, resetAt, op, done, window, armed, boundary>>
  BY DEF WriteStart
<1> DEFINE next == scene.writes[begun + 1]
           paced == granted > 0 /\ next.size <= granted + Margin /\ inside = {}
<1>2. onto' = [v \in Writers |-> IF v = next.by THEN [on |-> active, paced |-> paced]
                                 ELSE [onto[v] EXCEPT !.paced = FALSE]]
  BY DEF WriteStart
<1>3. paced \in BOOLEAN /\ active \in Streams \cup {None}
  BY DEF DaemonTypes
<1> HIDE DEF next, paced
<1>4. onto' \in [Writers -> [on : Streams \cup {None}, paced : BOOLEAN]]
  BY <1>2, <1>3 DEF DaemonTypes
<1>5. begun' \in Nat /\ granted' \in Nat
  BY <1>1 DEF DaemonTypes
<1> QED
  BY <1>1, <1>4, <1>5 DEF DaemonTypes


-----------------------------------------------------------------------------
(* The marker and the flushed title, on the side of the HTTP thread.        *)

\* A broadcast changes nothing of a call but that it no longer waits.
LEMMA WokenCalls ==
  ASSUME RingInv, call' = Woken
  PROVE  \A w \in Writers :
           /\ call'[w].left = call[w].left /\ call'[w].rest = call[w].rest
           /\ call'[w].epoch = call[w].epoch
           /\ call'[w].at = "out" <=> call[w].at = "out"
           /\ call'[w].at = "waiting" => call[w].at = "waiting"
<1> SUFFICES ASSUME NEW w \in Writers
             PROVE  /\ call'[w].left = call[w].left /\ call'[w].rest = call[w].rest
                    /\ call'[w].epoch = call[w].epoch
                    /\ call'[w].at = "out" <=> call[w].at = "out"
                    /\ call'[w].at = "waiting" => call[w].at = "waiting"
  OBVIOUS
<1>1. call[w] \in Calls
  BY CallTypes
<1>2. CASE call[w].at = "waiting"
  <2>1. call'[w] = [call[w] EXCEPT !.at = "pushing"]
    BY <1>2 DEF Woken
  <2> QED
    BY <1>1, <1>2, <2>1 DEF Calls
<1>3. CASE call[w].at # "waiting"
  BY <1>3 DEF Woken
<1> QED
  BY <1>2, <1>3

\* What the HTTP thread does to the ring from the daemon's point of view.
HttpRingMove ==
  /\ UNCHANGED <<pushed, epoch, inside>>
  /\ fill' \in Nat /\ fill' <= fill
  /\ \A w \in Writers :
       /\ call'[w].left = call[w].left /\ call'[w].rest = call[w].rest
       /\ call'[w].epoch = call[w].epoch
       /\ call'[w].at = "out" <=> call[w].at = "out"
       /\ call'[w].at = "waiting" => call[w].at = "waiting"

LEMMA HttpRingMoves ==
  ASSUME RingInv, HttpRing
  PROVE  HttpRingMove
<1>1. fill \in Nat
  BY CountTypes
<1>2. CASE \E most \in Nat : Pop(most)
  <2>1. PICK most \in Nat : Pop(most)
    BY <1>2
  <2>2. call' = Woken /\ fill' = fill - Takes(most) /\ Takes(most) > 0
        /\ UNCHANGED <<pushed, epoch, inside>>
    BY <2>1 DEF Pop
  <2>3. fill' \in Nat
    <3>1. Sound
      BY <2>1, PopSound
    <3> QED
      BY <3>1 DEF Sound, RingInv, Cursors
  <2>4. Takes(most) \in Int
    <3>1. popped \in Nat /\ holdAt \in Positions
      BY DEF RingInv, Cursors
    <3> QED
      BY <1>1, <3>1 DEF Takes, Least, Most, Positions
  <2>5. fill' <= fill
    BY <1>1, <2>2, <2>4
  <2> QED
    BY <2>2, <2>3, <2>5, WokenCalls DEF HttpRingMove
<1>3. CASE \/ UNCHANGED ringVars
           \/ \E b \in BOOLEAN : SetClient(b)
           \/ HoldTimeout \/ HoldRelease \/ ForgetExpired \/ SuppressHold \/ Underrun
  <2>1. UNCHANGED <<pushed, epoch, inside, fill, call>>
    BY <1>3 DEF SetClient, HoldTimeout, HoldRelease, ForgetExpired, SuppressHold, Underrun,
                ringVars, cursorVars, callVars
  <2> QED
    BY <1>1, <2>1 DEF HttpRingMove
<1> QED
  BY <1>2, <1>3 DEF HttpRing

\* A step with the same chunk in hand keeps the marker's invariant if it plants
\* no marker inside that chunk.
LEMMA MarkerKept ==
  ASSUME MarkerInv, RelayTypes, SharedTypes,
         popped \in Nat, popped' \in Nat, popped <= popped',
         chunk' = chunk,
         half' # "none" => todo' # <<>>,
         half' = "planted" => boundary' = -1 \/ chunk.hi <= boundary',
         pc' = "write" =>
           \/ UNCHANGED <<pc, boundaryGen, clientGen>> /\ boundary' \in {boundary, -1}
           \/ boundary' = -1
           \/ chunk.hi <= boundary'
  PROVE  MarkerInv'
<1>1. chunk.hi \in Nat /\ chunk'.hi <= popped'
  BY DEF MarkerInv, RelayTypes
<1>2. NothingPastMarker'
  BY DEF MarkerInv, NothingPastMarker, Applies
<1> QED
  BY <1>1, <1>2 DEF MarkerInv

\* What the title's invariant needs to know of a step of the HTTP thread.
TitleHand ==
  pc' \in {"trim", "write"} =>
    ~flag' \/ (pc \in {"trim", "write"} /\ chunk'.hi <= chunk.hi)

HandKept == MarkerInv' /\ TitleHand

LEMMA ServeHand ==
  ASSUME RingInv, SharedTypes, RelayTypes, MarkerInv,
         popped \in Nat, popped' \in Nat, popped <= popped', Serve
  PROVE  HandKept
<1> USE DEF streamVars, sharedVars, chunkVars, clientVars
<1>1. /\ pc' = pc /\ chunk' = chunk /\ clientGen' = clientGen
      /\ chunk.hi \in Nat
  BY DEF Serve, ServeForeign, ServeBoundary, PlantBoundary, MarkBoundary, ServeLateArm, ServeArm,
         RaiseArm, ServeRelease, ServeBrowseKeep, ServeSeekKeep, RelayTypes
<1>2. TitleHand
  BY <1>1 DEF TitleHand
<1>3. CASE PlantBoundary
  <2>1. /\ chunk.hi <= popped
        /\ half \in {"plan", "skip"} /\ half' = "planted" /\ todo' = todo
        /\ half # "none" => todo # <<>>
    BY <1>3 DEF PlantBoundary, MarkerInv
  <2>2. /\ pushed \in Nat /\ lastEmpty \in Positions /\ holdAt \in Positions
        /\ fill \in Nat /\ pushed - popped = fill
        /\ holdAt # -1 => popped = holdAt
    BY DEF RingInv, Cursors, RingCounts, HoldFrozen
  <2>3. popped <= pushed
    BY <2>2
  <2>4. popped <= Most(lastEmpty, popped)
    BY <2>2 DEF Most, Positions
  <2>5. boundary' \in {holdAt, Most(lastEmpty, popped), pushed} /\ (boundary' = holdAt => holdAt # -1 \/ holdAt \in {Most(lastEmpty, popped), pushed})
    BY <1>3 DEF PlantBoundary
  <2>6. popped <= boundary'
    BY <2>2, <2>3, <2>4, <2>5
  <2>7. boundary' \in Int
    BY <2>2, <2>5 DEF Most, Positions
  <2>8. chunk.hi <= boundary'
    BY <1>1, <2>1, <2>6, <2>7
  <2>9. MarkerInv'
    BY <1>1, <2>1, <2>8, MarkerKept
  <2> QED
    BY <1>2, <2>9 DEF HandKept
<1>4. CASE MarkBoundary
  <2>1. /\ half = "planted" /\ half' = "none" /\ boundary' = boundary
    BY <1>4 DEF MarkBoundary, Replies
  <2>2. boundary = -1 \/ chunk.hi <= boundary
    BY <2>1 DEF MarkerInv
  <2>3. MarkerInv'
    BY <1>1, <2>1, <2>2, MarkerKept
  <2> QED
    BY <1>2, <2>3 DEF HandKept
<1>5. CASE ServeForeign \/ ServeLateArm \/ RaiseArm \/ ServeRelease \/ ServeBrowseKeep
           \/ ServeSeekKeep
  <2>1. half' = "none" /\ UNCHANGED <<boundary, boundaryGen>>
    BY <1>5 DEF ServeForeign, ServeLateArm, RaiseArm, ServeRelease, ServeBrowseKeep,
                ServeSeekKeep, Replies
  <2>2. MarkerInv'
    BY <1>1, <2>1, MarkerKept
  <2> QED
    BY <1>2, <2>2 DEF HandKept
<1>6. CASE ServeBoundary \/ ServeArm
  <2>1. /\ half' \in {"skip", "plan", "arm"} /\ todo' = todo /\ todo # <<>>
        /\ UNCHANGED <<boundary, boundaryGen>>
    BY <1>6 DEF ServeBoundary, ServeArm, Serving
  <2>2. MarkerInv'
    BY <1>1, <2>1, MarkerKept
  <2> QED
    BY <1>2, <2>2 DEF HandKept
<1> QED
  BY <1>3, <1>4, <1>5, <1>6 DEF Serve

LEMMA LoopHand ==
  ASSUME SharedTypes, RelayTypes, MarkerInv,
         popped \in Nat, popped' \in Nat, popped <= popped', LoopStep
  PROVE  HandKept
<1> USE DEF streamVars, sharedVars, chunkVars, clientVars, serveVars, At
<1>1. todo = <<>> /\ half' = half /\ chunk' = chunk
  BY DEF LoopStep, Top, PassAccepts, PassEnds, KeepPass, KeepClear, Decide, CloseFlushed, Closed,
         Poll, HeadTimeout, DispatchControl, DispatchNothing, Takeover, Attach, Attached,
         AttachFails, PassBegins, Goto
<1>2. half = "none"
  BY <1>1 DEF MarkerInv
<1>3. \/ pc' \notin {"trim", "write"}
      \/ UNCHANGED <<pc, boundaryGen, clientGen, boundary>>
  <2>1. CASE HeadTimeout
    BY <2>1 DEF HeadTimeout
  <2>2. CASE Top \/ PassAccepts \/ KeepPass \/ KeepClear \/ Decide \/ CloseFlushed \/ Closed
    BY <2>2 DEF Top, PassAccepts, KeepPass, KeepClear, Decide, CloseFlushed, Closed, PassBegins,
                Goto
  <2>3. CASE Poll \/ DispatchControl \/ DispatchNothing \/ Takeover \/ Attach \/ Attached
             \/ AttachFails
    BY <2>3 DEF Poll, DispatchControl, DispatchNothing, Takeover, Attach, Attached, AttachFails,
                Goto
  <2>4. CASE PassEnds
    <3>1. pc' = back
      BY <2>4 DEF PassEnds, Goto
    <3> QED
      BY <3>1 DEF RelayTypes
  <2> QED
    BY <2>1, <2>2, <2>3, <2>4 DEF LoopStep
<1>4. chunk.hi \in Nat
  BY DEF RelayTypes
<1>5. TitleHand
  BY <1>1, <1>3, <1>4 DEF TitleHand
<1>6. MarkerInv'
  BY <1>1, <1>2, <1>3, MarkerKept
<1> QED
  BY <1>5, <1>6 DEF HandKept


\* The trim ends the chunk at the marker and takes nothing from before it.
LEMMA TrimEnds ==
  ASSUME NEW lo \in Nat, NEW hi \in Nat, NEW p \in Nat, NEW b \in Nat,
         lo <= hi, hi <= p, b <= p
  PROVE  LET u == Most(b - (p - (hi - lo)), 0) IN
         /\ lo + u \in Nat /\ lo + u <= hi
         /\ u > 0 => lo + u <= b
BY DEF Most

LEMMA DrainHand ==
  ASSUME RingInv, SharedTypes, RelayTypes, MarkerInv,
         popped \in Nat, popped' \in Nat, popped <= popped', DrainStep
  PROVE  HandKept
<1> USE DEF streamVars, sharedVars, chunkVars, clientVars, serveVars, At
<1>1. todo = <<>> /\ half' = half
  BY DEF DrainStep, Drain, GateShut, GateEnds, GateOpen, PopNothing, PopChunk, Trim, WriteDone,
         WriteDoneEnds, WriteFails, WriteTick, WriteDeferred, EdgeSeen, NoEdge, TakeLoop, Call,
         EndsAtMarker, Goto
<1>2. half = "none" /\ chunk.lo \in Nat /\ chunk.hi \in Nat /\ chunk.lo <= chunk.hi
      /\ chunk.hi <= popped
  BY <1>1 DEF MarkerInv, RelayTypes
<1>3. CASE PopChunk
  <2>1. /\ chunk' = [lo |-> popped, hi |-> popped', end |-> FALSE] /\ pc' = "trim" /\ ~flag'
    BY <1>3 DEF PopChunk, flushVars
  <2>2. chunk'.hi <= popped'
    BY <2>1
  <2>3. NothingPastMarker'
    BY <2>1 DEF NothingPastMarker
  <2> QED
    BY <1>1, <1>2, <2>1, <2>2, <2>3 DEF HandKept, TitleHand, MarkerInv
<1>4. CASE Trim
  <2> DEFINE usable == Most(boundary - (popped - (chunk.hi - chunk.lo)), 0)
             reached == boundary # -1 /\ popped >= boundary
             cut == [chunk EXCEPT !.hi = chunk.lo + usable, !.end = TRUE]
  <2>1. /\ pc = "trim" /\ chunk' = (IF reached /\ Applies THEN cut ELSE chunk)
        /\ boundary' = (IF reached /\ ~Applies THEN -1 ELSE boundary)
        /\ UNCHANGED <<popped, boundaryGen, clientGen>>
    BY <1>4 DEF Trim, ringVars, cursorVars
  <2>2. cut.lo = chunk.lo /\ cut.hi = chunk.lo + usable
    BY DEF RelayTypes
  <2>b. boundary # -1 => boundary \in Nat
    BY DEF SharedTypes, Positions
  <2>3. reached => /\ chunk.lo + usable \in Nat /\ chunk.lo + usable <= chunk.hi
                   /\ usable > 0 => chunk.lo + usable <= boundary
    BY <1>2, <2>b, TrimEnds
  <2>u. reached => usable \in Int
    BY <1>2, <2>b DEF Most
  <2> HIDE DEF usable, cut
  <2>4. CASE reached /\ Applies
    <3>1. chunk' = cut /\ boundary' = boundary
      BY <2>1, <2>4
    <3>2. chunk'.hi <= chunk.hi /\ chunk'.hi <= popped
      BY <1>2, <2>2, <2>3, <2>4, <3>1
    <3>3. chunk'.hi > chunk'.lo => chunk'.hi <= boundary'
      <4>1. chunk.lo + usable > chunk.lo => usable > 0
        BY <1>2, <2>u, <2>4
      <4> QED
        BY <2>2, <2>3, <2>4, <3>1, <4>1
    <3>4. NothingPastMarker'
      BY <3>3 DEF NothingPastMarker
    <3> QED
      BY <1>1, <1>2, <2>1, <3>2, <3>4 DEF HandKept, TitleHand, MarkerInv
  <2>5. CASE ~(reached /\ Applies)
    <3>1. chunk' = chunk
      BY <2>1, <2>5
    <3>2. Applies' => boundary' = boundary /\ boundary # -1 /\ Applies /\ ~reached
      BY <2>1, <2>5 DEF Applies
    <3>3. ~reached /\ boundary # -1 => chunk.hi <= boundary
      BY <1>2, <2>b
    <3>4. NothingPastMarker'
      BY <3>1, <3>2, <3>3 DEF NothingPastMarker
    <3>5. chunk'.hi <= popped' /\ chunk'.hi <= chunk.hi
      BY <1>2, <2>1, <3>1
    <3> QED
      BY <1>1, <1>2, <2>1, <3>4, <3>5 DEF HandKept, TitleHand, MarkerInv
  <2> QED
    BY <2>4, <2>5
<1>5. CASE WriteTick
  <2>1. UNCHANGED <<chunk, pc, boundaryGen, clientGen, boundary>>
    BY <1>5 DEF WriteTick
  <2>2. MarkerInv'
    BY <1>1, <1>2, <2>1, MarkerKept
  <2> QED
    BY <1>2, <2>1, <2>2 DEF HandKept, TitleHand
<1>6. CASE Drain \/ GateShut \/ GateEnds \/ GateOpen \/ PopNothing \/ WriteDone
           \/ WriteDoneEnds \/ WriteFails \/ WriteDeferred
           \/ EdgeSeen \/ NoEdge \/ TakeLoop \/ Call
  <2>1. chunk' = chunk /\ pc' \notin {"trim", "write"}
    <3>1. CASE Drain \/ GateOpen \/ EdgeSeen \/ WriteFails
      BY <3>1 DEF Drain, GateOpen, EdgeSeen, WriteFails
    <3>2. CASE GateEnds \/ WriteDoneEnds
      BY <3>2 DEF GateEnds, WriteDoneEnds, EndsAtMarker
    <3>3. CASE GateShut \/ PopNothing \/ WriteDone \/ WriteDeferred \/ NoEdge \/ TakeLoop
               \/ Call
      BY <3>3 DEF GateShut, PopNothing, WriteDone, WriteDeferred, NoEdge, TakeLoop, Call, Goto
    <3> QED
      BY <1>6, <3>1, <3>2, <3>3
  <2>2. MarkerInv'
    BY <1>1, <1>2, <2>1, MarkerKept
  <2> QED
    BY <2>1, <2>2 DEF HandKept, TitleHand
<1> QED
  BY <1>3, <1>4, <1>5, <1>6 DEF DrainStep

LEMMA PeerHand ==
  ASSUME SharedTypes, RelayTypes, MarkerInv,
         popped \in Nat, popped' \in Nat, popped <= popped', PeerStep
  PROVE  HandKept
<1>1. UNCHANGED <<chunk, pc, boundaryGen, clientGen, boundary, half, todo>>
  BY DEF PeerStep, Post, PeerActs, streamVars, sharedVars, chunkVars, clientVars, serveVars
<1>2. half # "none" => todo # <<>>
  BY DEF MarkerInv
<1>3. half = "planted" => boundary = -1 \/ chunk.hi <= boundary
  BY DEF MarkerInv
<1>4. MarkerInv'
  BY <1>1, <1>2, <1>3, MarkerKept
<1>5. chunk.hi \in Nat
  BY DEF RelayTypes
<1> QED
  BY <1>1, <1>4, <1>5 DEF HandKept, TitleHand


-----------------------------------------------------------------------------
(* The flushed title.                                                       *)

\* No write joins the epoch of the ring: what is in progress was so before.
StaysOld ==
  \A v \in Writers : call'[v].at = "out" \/ (call[v].at # "out" /\ call'[v].epoch = call[v].epoch)

\* A step that empties no sink keeps the title's invariant.
LEMMA TitleKept ==
  ASSUME TitleInv, RelayTypes, RelayTypes', TitleHand,
         resetAt \in Nat, pushed \in Nat, pushed' \in Nat, pushed <= pushed',
         resetAt' = resetAt, flag' => flag,
         op'.at \in Flushing =>
           op.at \in Flushing /\ pushed' = pushed /\ epoch' = epoch /\ StaysOld
  PROVE  TitleInv'
<1>1. resetAt' <= pushed'
  BY DEF TitleInv
<1>2. ASSUME op'.at \in Flushing
      PROVE  pushed' = resetAt' /\ \A w \in Writers : call'[w].at = "out" \/ call'[w].epoch # epoch'
  BY <1>2 DEF TitleInv, StaysOld
<1>3. ASSUME flag', pc' \in {"trim", "write"}
      PROVE  chunk'.hi <= resetAt'
  <2>1. pc \in {"trim", "write"} /\ chunk'.hi <= chunk.hi /\ flag
    BY <1>3 DEF TitleHand
  <2>2. chunk.hi <= resetAt /\ chunk.hi \in Nat /\ chunk'.hi \in Nat
    BY <2>1 DEF TitleInv, RelayTypes
  <2> QED
    BY <2>1, <2>2
<1> QED
  BY <1>1, <1>2, <1>3 DEF TitleInv

\* When the sink is emptied everything in hand was written before.
LEMMA TitleEmptied ==
  ASSUME RingInv, MarkerInv, RelayTypes,
         chunk' = chunk, pushed' = pushed, resetAt' = pushed,
         op'.at \in Flushing => \A w \in Writers : call'[w].at = "out" \/ call'[w].epoch # epoch'
  PROVE  TitleInv'
<1>1. /\ pushed \in Nat /\ popped \in Nat /\ fill \in Nat /\ pushed - popped = fill
      /\ chunk.hi \in Nat /\ chunk.hi <= popped
  BY DEF RingInv, Cursors, RingCounts, MarkerInv, RelayTypes
<1>2. chunk'.hi <= resetAt' /\ resetAt' <= pushed'
  BY <1>1
<1> QED
  BY <1>2 DEF TitleInv

\* A flush leaves every write in progress behind.
LEMMA FlushLeavesBehind ==
  ASSUME RingInv, RingFlush
  PROVE  /\ pushed' = pushed
         /\ \A w \in Writers : call'[w].at = "out" \/ call'[w].epoch # epoch'
<1>1. call' = Woken /\ epoch' = epoch + 1 /\ pushed' = pushed /\ epoch \in Nat
  BY DEF RingFlush, RingInv, Cursors
<1>2. \A w \in Writers : call'[w].epoch = call[w].epoch
  BY <1>1, WokenCalls
<1>3. \A w \in Writers : call[w].epoch <= epoch /\ call[w].epoch \in Nat
  BY CallTypes DEF RingInv, CallsFit, CallFits
<1>4. \A w \in Writers : call'[w].epoch # epoch'
  BY <1>1, <1>2, <1>3
<1> QED
  BY <1>1, <1>4

\* A writer that still pushes is of the current epoch.
LEMMA WriterCalls ==
  ASSUME RingInv, NEW w \in Writers, WriterStep(w)
  PROVE  /\ epoch' = epoch /\ StaysOld
         /\ call[w].at # "out"
         /\ pushed' = pushed \/ call[w].epoch = epoch
<1>1. /\ call[w] \in Calls /\ call \in [Writers -> Calls]
  BY CallTypes DEF RingInv, CallsFit
<1> DEFINE OneChange(c) == call' = [call EXCEPT ![w] = c]
<1>2. ASSUME NEW c, OneChange(c), c.epoch = call[w].epoch, call[w].at # "out"
      PROVE  StaysOld
  BY <1>1, <1>2 DEF StaysOld
<1>3. ASSUME NEW c \in Calls PROVE NextBatch(c).epoch = c.epoch
  BY <1>3, NextBatchFacts
<1>4. CASE WriteAdmit(w)
  <2>1. Begin(w)
    BY <1>4 DEF WriteAdmit
  <2>2. OneChange(NextBatch(call[w])) /\ call[w].at = "entered" /\ epoch' = epoch
        /\ pushed' = pushed
    BY <2>1 DEF Begin, cursorVars
  <2> HIDE DEF OneChange
  <2>3. StaysOld
    BY <1>1, <1>2, <1>3, <2>2
  <2> QED
    BY <2>2, <2>3
<1>5. CASE WaitExpires(w)
  <2> DEFINE c == [call[w] EXCEPT !.at = "pushing", !.expired = (Full /\ Current(w))]
  <2>1. OneChange(c) /\ call[w].at = "waiting" /\ epoch' = epoch /\ pushed' = pushed
    BY <1>5 DEF WaitExpires, cursorVars
  <2>2. c.epoch = call[w].epoch
    BY <1>1 DEF Calls
  <2> HIDE DEF OneChange, c
  <2>3. StaysOld
    BY <1>2, <2>1, <2>2
  <2> QED
    BY <2>1, <2>3
<1>6. CASE PushAbandon(w)
  <2> DEFINE d == [call[w] EXCEPT !.dropped = call[w].dropped + call[w].left]
  <2>1. OneChange(NextBatch(d)) /\ call[w].at = "pushing" /\ epoch' = epoch /\ pushed' = pushed
    BY <1>6 DEF PushAbandon, Pushing, GiveUp, cursorVars
  <2>2. d \in Calls /\ d.epoch = call[w].epoch
    BY <1>1 DEF Calls
  <2> HIDE DEF OneChange, d
  <2>3. StaysOld
    BY <1>2, <1>3, <2>1, <2>2
  <2> QED
    BY <2>1, <2>3
<1>7. CASE PushRefuse(w) \/ PushWait(w) \/ PushChunk(w)
  <2>1. call[w].at = "pushing" /\ call[w].epoch = epoch /\ epoch' = epoch
    BY <1>7 DEF PushRefuse, PushWait, PushChunk, Pushing, Current
  <2>2. \A v \in Writers : v # w => call'[v] = call[v]
    BY <1>1, <1>7 DEF PushRefuse, PushWait, PushChunk
  <2>3. call'[w].epoch = call[w].epoch
    <3>r. CASE PushRefuse(w)
      <4> DEFINE d == [call[w] EXCEPT !.refused = call[w].refused + call[w].left]
      <4>1. call'[w] = NextBatch(d)
        BY <1>1, <3>r DEF PushRefuse, Refuse
      <4>2. d \in Calls /\ d.epoch = call[w].epoch
        BY <1>1 DEF Calls
      <4> HIDE DEF d
      <4> QED
        BY <1>3, <4>1, <4>2
    <3>w. CASE PushWait(w)
      BY <1>1, <3>w DEF PushWait, Calls
    <3>c. CASE PushChunk(w)
      <4> DEFINE n == Least(call[w].left, Capacity - fill)
                 c == [call[w] EXCEPT !.left = call[w].left - n, !.done = call[w].done + n]
                 d == [c EXCEPT !.refused = c.refused + c.left]
      <4>1. \/ call'[w] = NextBatch(c) \/ call'[w] = NextBatch(d)
            \/ call'[w] = [c EXCEPT !.at = "waiting"]
        BY <1>1, <3>c DEF PushChunk, Refuse
      <4>2. c \in Calls /\ c.epoch = call[w].epoch
        <5>1. fill \in Nat /\ fill <= Capacity /\ call[w].left \in Nat /\ call[w].done \in Nat
          BY <1>1, CountTypes DEF Calls, RingInv, Cursors, RingCounts
        <5>2. n \in Nat /\ call[w].left - n \in Nat /\ call[w].done + n \in Nat
          BY <5>1 DEF Least
        <5> HIDE DEF n
        <5> QED
          BY <1>1, <5>2 DEF Calls
      <4> HIDE DEF c
      <4>3. d \in Calls /\ d.epoch = c.epoch
        BY <4>2 DEF Calls
      <4>4. [c EXCEPT !.at = "waiting"].epoch = c.epoch
        BY <4>2 DEF Calls
      <4> HIDE DEF d
      <4> QED
        BY <1>3, <4>1, <4>2, <4>3, <4>4
    <3> QED
      BY <1>7, <3>r, <3>w, <3>c
  <2>4. StaysOld
    <3> SUFFICES ASSUME NEW v \in Writers
                 PROVE  call'[v].at = "out" \/ (call[v].at # "out" /\ call'[v].epoch = call[v].epoch)
      BY DEF StaysOld
    <3> QED
      BY <2>1, <2>2, <2>3
  <2> QED
    BY <2>1, <2>4
<1>8. CASE WriteEnd(w)
  <2>1. Leave(w)
    BY <1>8 DEF WriteEnd
  <2>2. call' = [call EXCEPT ![w] = NoCall] /\ call[w].at = "pushed" /\ epoch' = epoch
        /\ pushed' = pushed
    BY <2>1 DEF Leave, cursorVars
  <2>3. StaysOld
    BY <1>1, <2>2 DEF StaysOld, NoCall
  <2> QED
    BY <2>2, <2>3
<1> QED
  BY <1>4, <1>5, <1>6, <1>7, <1>8 DEF WriterStep, WritePush, Push


\* Calls that the bridge sees no difference in.
LEMMA SameCalls ==
  ASSUME call' = call
  PROVE  StaysOld
BY DEF StaysOld

\* A step of the daemon's side has the chunk in hand as it was.
LEMMA SameHand ==
  ASSUME RelayTypes, UNCHANGED relayVars
  PROVE  RelayTypes' /\ TitleHand /\ chunk' = chunk
<1>1. UNCHANGED <<pc, back, slot, listen, cap, chunk, posted>>
  BY DEF relayVars, connVars, chunkVars
<1>2. chunk.hi \in Nat
  BY DEF RelayTypes
<1> QED
  BY <1>1, <1>2 DEF RelayTypes, TitleHand

LEMMA DaemonMarker ==
  ASSUME MarkerInv, RelayTypes, SharedTypes, UNCHANGED relayVars,
         popped \in Nat, popped' \in Nat, popped <= popped',
         boundary' \in {boundary, -1}
  PROVE  MarkerInv'
<1>1. UNCHANGED <<pc, chunk, boundaryGen, clientGen, half, todo>>
  BY DEF relayVars, clientVars, serveVars, chunkVars
<1>2. /\ half # "none" => todo # <<>>
      /\ half = "planted" => boundary = -1 \/ chunk.hi <= boundary
  BY DEF MarkerInv
<1> QED
  BY <1>1, <1>2, MarkerKept

TitlePre == RingInv /\ DaemonTypes /\ RelayTypes /\ MarkerInv /\ TitleInv

LEMMA WriterTitle ==
  ASSUME TitlePre, UNCHANGED relayVars, pushed' \in Nat, pushed <= pushed',
         NEW w \in Writers, WriterStep(w)
  PROVE  TitleInv'
<1>1. /\ epoch' = epoch /\ StaysOld /\ call[w].at # "out"
      /\ pushed' = pushed \/ call[w].epoch = epoch
  BY WriterCalls DEF TitlePre
<1>2. UNCHANGED <<op, resetAt, flag>>
  BY DEF WriterStep, WriteAdmit, WritePush, WriteEnd, opVars, sharedVars, flushVars, streamVars,
         daemonVars, sinkVars
<1>3. op'.at \in Flushing => op.at \in Flushing /\ pushed' = pushed
  BY <1>1, <1>2 DEF TitlePre, TitleInv
<1>4. pushed \in Nat /\ resetAt \in Nat
  BY CountTypes DEF TitlePre, DaemonTypes
<1>5. RelayTypes' /\ TitleHand
  BY SameHand DEF TitlePre
<1> QED
  BY <1>1, <1>2, <1>3, <1>4, <1>5, TitleKept DEF TitlePre

LEMMA OpStepTitle ==
  ASSUME TitlePre, UNCHANGED relayVars, OpStep
  PROVE  TitleInv'
<1>p. pushed \in Nat /\ resetAt \in Nat /\ epoch \in Nat
  BY CountTypes DEF TitlePre, DaemonTypes
<1>h. RelayTypes' /\ TitleHand /\ chunk' = chunk
  BY SameHand DEF TitlePre
<1>1. CASE FlushRaise
  <2>1. op.at = "flushRaise" /\ op' = Idle /\ UNCHANGED <<ringVars, resetAt>>
    BY <1>1 DEF FlushRaise, Returns, sinkVars
  <2>2. pushed = resetAt /\ pushed' = pushed
    BY <2>1 DEF TitlePre, TitleInv, Flushing, ringVars, cursorVars
  <2>3. op'.at \notin Flushing
    BY <2>1 DEF Idle, Flushing
  <2> QED
    BY <1>h, <2>1, <2>2, <2>3, TitleEmptied DEF TitlePre
<1>2. CASE TearDownWake
  <2>1. op'.at \in {"unrefWait", "disconnectWait"}
        /\ UNCHANGED <<pushed, resetAt, flag>>
    BY <1>2 DEF TearDownWake, Goes, ReleaseWriters, cursorVars, sinkVars, sharedVars, flushVars
  <2>2. op'.at \notin Flushing
    BY <2>1 DEF Flushing
  <2> QED
    BY <1>p, <1>h, <2>1, <2>2, TitleKept DEF TitlePre
<1>3. CASE \/ ConnectMarker \/ ConnectArm \/ ConnectDone \/ FlushMarker \/ FlushArmed
           \/ FlushUnarmed \/ FlushKept \/ FlushWindow \/ TearDownEnds
  <2>1. UNCHANGED <<ringVars, resetAt, flag>>
    BY <1>3 DEF ConnectMarker, ConnectArm, ConnectDone, FlushMarker, FlushArmed, FlushUnarmed,
                FlushKept, FlushWindow, TearDownEnds, sinkVars, flushVars, sharedVars
  <2>2. op'.at \in Flushing => op.at \in Flushing
    BY <1>3 DEF ConnectMarker, ConnectArm, ConnectDone, FlushMarker, FlushArmed, FlushUnarmed,
                FlushKept, FlushWindow, TearDownEnds, Goes, Returns, Idle, Flushing
  <2>3. pushed' = pushed /\ epoch' = epoch /\ StaysOld
    BY <2>1, SameCalls DEF ringVars, cursorVars, callVars
  <2> QED
    BY <1>p, <1>h, <2>1, <2>2, <2>3, TitleKept DEF TitlePre
<1> QED
  BY <1>1, <1>2, <1>3 DEF OpStep

LEMMA OpStartTitle ==
  ASSUME TitlePre, UNCHANGED relayVars, NEW seen, OpStart(seen)
  PROVE  TitleInv'
<1>p. pushed \in Nat /\ resetAt \in Nat /\ epoch \in Nat
  BY CountTypes DEF TitlePre, DaemonTypes
<1>h. RelayTypes' /\ TitleHand /\ chunk' = chunk
  BY SameHand DEF TitlePre
<1>1. CASE ConnectRing(seen) \/ FlushRing(seen)
  <2>1. RingFlush /\ resetAt' = pushed
    BY <1>1 DEF ConnectRing, FlushRing, SinkReset
  <2> QED
    BY <1>h, <2>1, FlushLeavesBehind, TitleEmptied DEF TitlePre
<1>2. CASE TearDown(seen) /\ Item.on = active
  <2>1. /\ Item.call \in {"disconnect", "unref"} /\ op'.at = Item.call
        /\ UNCHANGED ringVars /\ resetAt' = pushed
    BY <1>2 DEF TearDown, Due, Item, Goes, SinkReset
  <2>2. op'.at \notin Flushing /\ pushed' = pushed
    BY <2>1 DEF Flushing, ringVars, cursorVars
  <2> QED
    BY <1>h, <2>1, <2>2, TitleEmptied DEF TitlePre
<1>3. CASE New(seen) \/ Cork(seen) \/ (TearDown(seen) /\ Item.on # active)
  <2>1. UNCHANGED <<ringVars, resetAt, flag>> /\ op' = Idle
    BY <1>3 DEF New, Cork, TearDown, Returns, sinkVars, sharedVars, flushVars
  <2>2. op'.at \notin Flushing /\ pushed' = pushed
    BY <2>1 DEF Idle, Flushing, ringVars, cursorVars
  <2> QED
    BY <1>p, <1>h, <2>1, <2>2, TitleKept DEF TitlePre
<1> QED
  BY <1>1, <1>2, <1>3 DEF OpStart

LEMMA OtherTitle ==
  ASSUME TitlePre, UNCHANGED relayVars,
         TickStep \/ \E seen : WriteStart(seen)
  PROVE  TitleInv'
<1>p. pushed \in Nat /\ resetAt \in Nat /\ epoch \in Nat
  BY CountTypes DEF TitlePre, DaemonTypes
<1>h. RelayTypes' /\ TitleHand /\ chunk' = chunk
  BY SameHand DEF TitlePre
<1>1. CASE TickStep
  <2>1. UNCHANGED <<pushed, epoch, call, resetAt, flag, op>>
    BY <1>1 DEF TickStep, AskWritable, SinkPlays, WindowCloses, ArmAges, KeepAges, RingClock,
                HoldAges, GapAges, SuppressLapses, ringVars, cursorVars, callVars, streamVars,
                daemonVars, sinkVars, opVars, sharedVars, flushVars
  <2> QED
    BY <1>p, <1>h, <2>1, SameCalls, TitleKept DEF TitlePre
<1>2. CASE \E seen : WriteStart(seen)
  <2>1. UNCHANGED <<pushed, resetAt, flag, op>> /\ op = Idle
    BY <1>2 DEF WriteStart, Enter, cursorVars, sinkVars, opVars, sharedVars, flushVars
  <2>2. op'.at \notin Flushing
    BY <2>1 DEF Idle, Flushing
  <2> QED
    BY <1>p, <1>h, <2>1, <2>2, TitleKept DEF TitlePre
<1> QED
  BY <1>1, <1>2


-----------------------------------------------------------------------------
(* The room a daemon was promised.                                          *)

\* No call has more to push than before, and none starts to wait.
CallsRest ==
  \A w \in Writers :
    /\ call'[w].left = call[w].left /\ call'[w].rest = call[w].rest
    /\ call'[w].at = "out" <=> call[w].at = "out"
    /\ call'[w].at = "waiting" => call[w].at = "waiting"

LEMMA PacedKept ==
  ASSUME RingInv, DaemonTypes, PacedInv, CallsRest,
         UNCHANGED <<granted, onto, inside>>,
         fill' \in Nat, fill' <= fill
  PROVE  PacedInv'
<1>1. fill \in Nat /\ granted \in Nat /\ \A w \in Writers : call[w].left \in Nat /\ call[w].rest \in Nat
  BY CountTypes, CallTypes DEF DaemonTypes
<1>2. ASSUME granted' > 0
      PROVE  inside' = {} /\ fill' + granted' + Margin <= Capacity
  <2>1. inside = {} /\ fill + granted + Margin <= Capacity
    BY <1>2 DEF PacedInv
  <2>2. fill' + granted + Margin <= Capacity
    BY <1>1, <2>1
  <2> QED
    BY <2>1, <2>2
<1>3. ASSUME NEW w \in Writers, onto'[w].paced
      PROVE  /\ inside' \subseteq {w} /\ call'[w].at # "waiting"
             /\ call'[w].at # "out" => fill' + call'[w].left + call'[w].rest <= Capacity
  <2>1. /\ inside \subseteq {w} /\ call[w].at # "waiting"
        /\ call[w].at # "out" => fill + call[w].left + call[w].rest <= Capacity
    BY <1>3 DEF PacedInv
  <2>2. /\ call'[w].left = call[w].left /\ call'[w].rest = call[w].rest
        /\ call'[w].at = "out" <=> call[w].at = "out"
        /\ call'[w].at = "waiting" => call[w].at = "waiting"
    BY DEF CallsRest
  <2>3. fill + call[w].left + call[w].rest <= Capacity
         => fill' + call[w].left + call[w].rest <= Capacity
    BY <1>1
  <2> QED
    BY <2>1, <2>2, <2>3
<1> QED
  BY <1>2, <1>3 DEF PacedInv

PacedPre == RingInv /\ DaemonTypes /\ PacedInv

\* What a writer that keeps to its promise pushes always finds room.
LEMMA WriterPaced ==
  ASSUME PacedPre, DaemonTypes', NEW w \in Writers, WriterStep(w)
  PROVE  PacedInv'
<1>1. /\ call[w] \in Calls /\ call \in [Writers -> Calls] /\ fill \in Nat /\ fill <= Capacity
      /\ CallFits(call[w], epoch)
  BY CallTypes, CountTypes DEF PacedPre, RingInv, CallsFit, Cursors, RingCounts
<1>2. call[w].at # "out" /\ w \in inside
  BY WriterCalls DEF PacedPre, RingInv, Counted
<1>3. granted = 0 /\ granted' = granted
  <2>1. granted' = granted
    BY DEF WriterStep, WriteAdmit, WritePush, WriteEnd, streamVars, daemonVars, writeVars
  <2> QED
    BY <1>2, <2>1 DEF PacedPre, PacedInv, DaemonTypes
<1>4. \A v \in Writers \ {w} : ~onto[v].paced
  BY <1>2 DEF PacedPre, PacedInv
<1>5. onto[w].paced =>
        /\ inside = {w} /\ call[w].at # "waiting"
        /\ fill + call[w].left + call[w].rest <= Capacity
  BY <1>2 DEF PacedPre, PacedInv
<1> DEFINE After == /\ call'[w].at # "waiting"
                    /\ call'[w].at # "out" => fill' + call'[w].left + call'[w].rest <= Capacity
<1>6. ASSUME onto[w].paced => After, UNCHANGED <<onto, inside>> PROVE PacedInv'
  BY <1>3, <1>4, <1>5, <1>6 DEF PacedInv
<1>7. ASSUME NEW c \in Calls
      PROVE  /\ NextBatch(c).left \in Nat /\ NextBatch(c).rest \in Nat
             /\ NextBatch(c).left + NextBatch(c).rest = c.rest
             /\ NextBatch(c).at # "waiting"
  BY <1>7, NextBatchFacts DEF Calls
<1>8. CASE WriteAdmit(w)
  <2>1. call'[w] = NextBatch(call[w]) /\ fill' = fill /\ UNCHANGED <<onto, inside>>
    BY <1>1, <1>8 DEF WriteAdmit, Begin, cursorVars, writeVars
  <2>2. onto[w].paced => After
    <3>1. call[w].left \in Nat /\ call[w].rest \in Nat
      BY <1>1 DEF Calls
    <3>2. onto[w].paced => fill + call[w].rest <= Capacity
      BY <1>1, <1>5, <3>1
    <3> QED
      BY <1>1, <1>7, <2>1, <3>2
  <2> QED
    BY <1>6, <2>1, <2>2
<1>9. CASE PushAbandon(w) /\ UNCHANGED streamVars
  <2> DEFINE d == [call[w] EXCEPT !.dropped = call[w].dropped + call[w].left]
  <2>1. call'[w] = NextBatch(d) /\ fill' = fill /\ UNCHANGED <<onto, inside>>
    BY <1>1, <1>9 DEF PushAbandon, GiveUp, cursorVars, streamVars, daemonVars, writeVars
  <2>2. d \in Calls /\ d.rest = call[w].rest /\ call[w].rest \in Nat /\ call[w].left \in Nat
    BY <1>1 DEF Calls
  <2> HIDE DEF d
  <2>3. onto[w].paced => After
    <3>1. onto[w].paced => fill + call[w].rest <= Capacity
      BY <1>1, <1>5, <2>2
    <3> QED
      BY <1>1, <1>7, <2>1, <2>2, <3>1
  <2> QED
    BY <1>6, <2>1, <2>3
<1>10. CASE PushRefuse(w) /\ UNCHANGED streamVars
  <2> DEFINE d == [call[w] EXCEPT !.refused = call[w].refused + call[w].left]
  <2>1. call'[w] = NextBatch(d) /\ fill' = fill /\ UNCHANGED <<onto, inside>>
    BY <1>1, <1>10 DEF PushRefuse, Refuse, cursorVars, streamVars, daemonVars, writeVars
  <2>2. d \in Calls /\ d.rest = call[w].rest /\ call[w].rest \in Nat /\ call[w].left \in Nat
    BY <1>1 DEF Calls
  <2> HIDE DEF d
  <2>3. onto[w].paced => After
    <3>1. onto[w].paced => fill + call[w].rest <= Capacity
      BY <1>1, <1>5, <2>2
    <3> QED
      BY <1>1, <1>7, <2>1, <2>2, <3>1
  <2> QED
    BY <1>6, <2>1, <2>3
<1>11. CASE PushWait(w) /\ UNCHANGED streamVars
  <2>1. fill = Capacity /\ call[w].left > 0 /\ UNCHANGED <<onto, inside>>
    BY <1>11 DEF PushWait, Pushing, Full, streamVars, daemonVars, writeVars
  <2>2. call[w].rest \in Nat /\ call[w].left \in Nat
    BY <1>1 DEF Calls
  <2>3. ~onto[w].paced
    BY <1>1, <1>5, <2>1, <2>2
  <2> QED
    BY <1>6, <2>1, <2>3
<1>12. CASE WaitExpires(w) /\ UNCHANGED streamVars
  <2>1. call[w].at = "waiting" /\ UNCHANGED <<onto, inside>>
    BY <1>12 DEF WaitExpires, streamVars, daemonVars, writeVars
  <2> QED
    BY <1>5, <1>6, <2>1
<1>13. CASE PushChunk(w) /\ UNCHANGED streamVars
  <2> DEFINE n == Least(call[w].left, Capacity - fill)
             c == [call[w] EXCEPT !.left = call[w].left - n, !.done = call[w].done + n]
  <2>1. /\ fill' = fill + n /\ UNCHANGED <<onto, inside>>
        /\ c.left = 0 => call'[w] = NextBatch(c)
    BY <1>1, <1>13 DEF PushChunk, streamVars, daemonVars, writeVars
  <2>2. call[w].rest \in Nat /\ call[w].left \in Nat /\ call[w].done \in Nat
    BY <1>1 DEF Calls
  <2>3. onto[w].paced => After
    <3> SUFFICES ASSUME onto[w].paced PROVE After
      OBVIOUS
    <3>1. fill + call[w].left + call[w].rest <= Capacity
      BY <1>5
    <3>2. n = call[w].left
      BY <1>1, <2>2, <3>1 DEF Least
    <3> HIDE DEF n
    <3>3. call[w].left - n = 0 /\ call[w].done + n \in Nat
      BY <2>2, <3>2
    <3>c. call[w].left - n \in Nat /\ c.left = call[w].left - n
      BY <1>1, <3>3 DEF Calls
    <3>4. c \in Calls /\ c.left = 0 /\ c.rest = call[w].rest
      <4>1. c \in Calls /\ c.rest = call[w].rest
        BY <1>1, <3>3, <3>c DEF Calls
      <4> QED
        BY <4>1, <3>3, <3>c
    <3> HIDE DEF c
    <3>5. call'[w] = NextBatch(c) /\ fill' = fill + call[w].left
      BY <2>1, <3>2, <3>4
    <3>6. /\ call'[w].left \in Nat /\ call'[w].rest \in Nat
          /\ call'[w].left + call'[w].rest = call[w].rest /\ call'[w].at # "waiting"
      BY <1>7, <3>4, <3>5
    <3>7. fill' + call'[w].left + call'[w].rest <= Capacity
      BY <1>1, <2>2, <3>1, <3>5, <3>6
    <3> QED
      BY <3>6, <3>7
  <2> QED
    BY <1>6, <2>1, <2>3
<1>14. CASE WriteEnd(w)
  <2>1. onto' = [onto EXCEPT ![w] = NoWrite]
    BY <1>14 DEF WriteEnd
  <2>2. \A v \in Writers : ~onto'[v].paced
    BY <1>4, <2>1 DEF NoWrite, DaemonTypes, PacedPre
  <2> QED
    BY <1>3, <2>2 DEF PacedInv
<1> QED
  BY <1>8, <1>9, <1>10, <1>11, <1>12, <1>13, <1>14 DEF WriterStep, WritePush, Push

LEMMA WriteStartPaced ==
  ASSUME PacedPre, NEW seen, WriteStart(seen)
  PROVE  PacedInv'
<1> DEFINE next == scene.writes[begun + 1]
           paced == granted > 0 /\ next.size <= granted + Margin /\ inside = {}
<1>1. Enter(next.by, next.size) /\ begun < Len(scene.writes) /\ granted' = 0
  BY DEF WriteStart
<1>2. onto' = [v \in Writers |-> IF v = next.by THEN [on |-> active, paced |-> paced]
                                 ELSE [onto[v] EXCEPT !.paced = FALSE]]
  BY DEF WriteStart
<1>3. next.by \in Writers /\ next.size \in Nat
  BY <1>1, SceneItems DEF IsWrite, PacedPre
<1>4. fill' = fill /\ inside' = inside \cup {next.by} /\ fill \in Nat /\ granted \in Nat
  BY <1>1, CountTypes DEF Enter, cursorVars, PacedPre, DaemonTypes
<1>5. /\ call'[next.by].left = 0 /\ call'[next.by].rest = next.size
      /\ call'[next.by].at = "entered"
  <2>1. call \in [Writers -> Calls]
    BY DEF PacedPre, RingInv, CallsFit
  <2> HIDE DEF next
  <2> QED
    BY <1>1, <1>3, <2>1 DEF Enter, NoCall
<1>6. paced => fill + granted + Margin <= Capacity
  BY DEF PacedPre, PacedInv
<1>7. paced => fill + 0 + next.size <= Capacity
  BY <1>3, <1>4, <1>6
<1>8. \A v \in Writers : onto'[v].paced => v = next.by /\ paced
  <2> HIDE DEF next, paced
  <2> QED
    BY <1>2, <1>3 DEF PacedPre, DaemonTypes
<1>9. paced => inside = {}
  OBVIOUS
<1> HIDE DEF next, paced
<1>10. \A v \in Writers :
         onto'[v].paced => /\ inside' \subseteq {v} /\ call'[v].at # "waiting"
                           /\ fill' + call'[v].left + call'[v].rest <= Capacity
  BY <1>4, <1>5, <1>7, <1>8, <1>9
<1> QED
  BY <1>1, <1>10 DEF PacedInv

LEMMA OpPaced ==
  ASSUME PacedPre, RingInv', OpStep \/ \E seen : OpStart(seen)
  PROVE  PacedInv'
<1>1. UNCHANGED <<granted, onto>>
  BY DEF OpStep, ConnectMarker, ConnectArm, ConnectDone, FlushMarker, FlushArmed, FlushUnarmed,
         FlushKept, FlushWindow, FlushRaise, TearDownWake, TearDownEnds, OpStart, New,
         ConnectRing, Cork, FlushRing, TearDown, writeVars
<1>2. UNCHANGED ringVars \/ RingFlush \/ ReleaseWriters
  BY DEF OpStep, ConnectMarker, ConnectArm, ConnectDone, FlushMarker, FlushArmed, FlushUnarmed,
         FlushKept, FlushWindow, FlushRaise, TearDownWake, TearDownEnds, OpStart, New,
         ConnectRing, Cork, FlushRing, TearDown
<1>3. fill \in Nat
  BY CountTypes DEF PacedPre
<1>4. CASE UNCHANGED ringVars
  <2>1. UNCHANGED <<fill, inside, call>>
    BY <1>4 DEF ringVars, cursorVars, callVars
  <2>2. CallsRest
    BY <2>1 DEF CallsRest
  <2> QED
    BY <1>1, <1>3, <2>1, <2>2, PacedKept DEF PacedPre
<1>5. CASE RingFlush \/ ReleaseWriters
  <2>1. call' = Woken /\ inside' = inside /\ (fill' = 0 \/ fill' = fill)
    BY <1>5 DEF RingFlush, ReleaseWriters, cursorVars
  <2>2. CallsRest
    BY <2>1, WokenCalls DEF CallsRest, PacedPre
  <2>3. fill' \in Nat /\ fill' <= fill
    BY <1>3, <2>1
  <2> QED
    BY <1>1, <2>1, <2>2, <2>3, PacedKept DEF PacedPre
<1> QED
  BY <1>2, <1>4, <1>5

LEMMA TickPaced ==
  ASSUME PacedPre, TickStep
  PROVE  PacedInv'
<1>1. UNCHANGED <<fill, inside, call, onto>>
  BY DEF TickStep, AskWritable, SinkPlays, WindowCloses, ArmAges, KeepAges, RingClock, HoldAges,
         GapAges, SuppressLapses, ringVars, cursorVars, callVars, streamVars, daemonVars, writeVars
<1>2. fill \in Nat
  BY CountTypes DEF PacedPre
<1>3. CallsRest
  BY <1>1 DEF CallsRest
<1>4. CASE AskWritable
  <2>1. granted' = Writable /\ inside = {}
    BY <1>4 DEF AskWritable
  <2>2. granted' > 0 => inside' = {} /\ fill' + granted' + Margin <= Capacity
    BY <1>1, <2>1, WritableRoom DEF PacedPre
  <2> QED
    BY <1>1, <2>2 DEF PacedPre, PacedInv
<1>5. CASE TickStep /\ ~AskWritable
  <2>1. UNCHANGED granted
    BY <1>5 DEF TickStep, SinkPlays, WindowCloses, ArmAges, KeepAges, RingClock, streamVars,
                daemonVars, writeVars
  <2> QED
    BY <1>1, <1>2, <1>3, <2>1, PacedKept DEF PacedPre
<1> QED
  BY <1>4, <1>5


-----------------------------------------------------------------------------
(* The bridge keeps its invariant.                                          *)

LEMMA BridgeInit ==
  ASSUME Init
  PROVE  BridgeInv
<1>1. RingInv
  BY InitSound DEF Init
<1>2. DaemonTypes
  BY DEF Init, StreamInit, DaemonTypes, NoStream, StreamRecs, NoWrite, Idle, OpPlaces
<1>3. SharedTypes
  BY DEF Init, StreamInit, SharedTypes, Positions
<1>4. RelayTypes
  <2>1. NoChunk \in [lo : Nat, hi : Nat, end : BOOLEAN] /\ NoChunk.lo = 0 /\ NoChunk.hi = 0
    BY DEF NoChunk
  <2>2. NoConn \in Conns /\ <<>> \in Seq(Conns) /\ Len(<<>>) = 0
    BY DEF Conns
  <2>3. /\ back = "keep" /\ slot = NoConn /\ listen = <<>> /\ chunk = NoChunk /\ cap = 0
        /\ posted = 0
    BY DEF Init, RelayInit
  <2> QED
    BY <2>1, <2>2, <2>3 DEF RelayTypes
<1>5. MarkerInv
  BY DEF Init, RingInit, StreamInit, RelayInit, MarkerInv, NothingPastMarker, NoChunk
<1>6. TitleInv
  BY DEF Init, RingInit, StreamInit, RelayInit, TitleInv, NoCall, Idle, Flushing
<1>7. PacedInv
  BY DEF Init, RingInit, StreamInit, PacedInv, NoCall, NoWrite
<1> QED
  BY <1>1, <1>2, <1>3, <1>4, <1>5, <1>6, <1>7 DEF BridgeInv

LEMMA HttpSound ==
  ASSUME BridgeInv, RingInv', popped <= popped', HttpStep \/ PeerStep
  PROVE  BridgeInv'
<1> USE DEF BridgeInv
<1>1. Serve \/ LoopStep \/ DrainStep \/ PeerStep
  BY HttpStepParts
<1>2. HttpFrame
  <2>1. cap \in Nat
    BY DEF RelayTypes
  <2> QED
    BY <1>1, <2>1, ServeFrame, LoopFrame, DrainFrame, PeerFrame
<1>3. RelayKept
  BY <1>1, ServeTypes, LoopTypes, DrainTypes, PeerTypes
<1>4. popped \in Nat /\ popped' \in Nat
  BY DEF RingInv, Cursors
<1>5. HandKept
  BY <1>1, <1>4, ServeHand, LoopHand, DrainHand, PeerHand
<1>6. UNCHANGED <<scene, active, stream, q, resetAt, granted, onto, begun, op, done>>
      /\ (flag' => flag)
  BY <1>2 DEF HttpFrame, daemonVars, sinkVars, writeVars, opVars
<1>7. DaemonTypes'
  BY <1>6 DEF DaemonTypes
<1>8. HttpRingMove
  BY <1>2, HttpRingMoves DEF HttpFrame
<1>9. StaysOld /\ pushed' = pushed /\ epoch' = epoch
  <2>1. StaysOld
    BY <1>8 DEF HttpRingMove, StaysOld
  <2> QED
    BY <1>8, <2>1 DEF HttpRingMove
<1>10. TitleInv'
  <2>1. resetAt \in Nat /\ pushed \in Nat /\ pushed' \in Nat /\ pushed <= pushed'
    BY <1>9, CountTypes DEF DaemonTypes
  <2>2. RelayTypes' /\ TitleHand
    BY <1>3, <1>5 DEF RelayKept, HandKept
  <2> QED
    BY <1>6, <1>9, <2>1, <2>2, TitleKept
<1>11. PacedInv'
  <2>1. CallsRest /\ inside' = inside /\ fill' \in Nat /\ fill' <= fill
    BY <1>8 DEF HttpRingMove, CallsRest
  <2> QED
    BY <1>6, <2>1, PacedKept
<1> QED
  BY <1>3, <1>5, <1>7, <1>10, <1>11 DEF RelayKept, HandKept

LEMMA DaemonSound ==
  ASSUME BridgeInv, RingInv', popped <= popped', pushed <= pushed', StreamSide
  PROVE  BridgeInv'
<1> USE DEF BridgeInv
<1>1. /\ \/ OpStep \/ OpStart(Seen) \/ WriteStart(Seen) \/ TickStep
         \/ \E w \in Writers : WriterStep(w)
      /\ UNCHANGED relayVars
  BY DEF StreamSide, TickStep
<1>2. DaemonKept
  BY <1>1, OpStepTypes, OpStartTypes, WriteStartTypes, TickTypes, WriterTypes
<1>3. RelayTypes'
  BY <1>1, SameHand
<1>4. MarkerInv'
  <2>1. boundary' \in {boundary, -1}
    BY StreamSideFrame DEF DaemonFrame
  <2>2. popped \in Nat /\ popped' \in Nat
    BY DEF RingInv, Cursors
  <2> QED
    BY <1>1, <2>1, <2>2, DaemonMarker
<1>5. TitleInv'
  <2>1. pushed' \in Nat /\ TitlePre
    BY DEF RingInv, Cursors, TitlePre
  <2> QED
    BY <1>1, <2>1, WriterTitle, OpStepTitle, OpStartTitle, OtherTitle
<1>6. PacedInv'
  <2>1. PacedPre /\ DaemonTypes'
    BY <1>2 DEF PacedPre, DaemonKept
  <2> QED
    BY <1>1, <2>1, WriterPaced, WriteStartPaced, OpPaced, TickPaced
<1> QED
  BY <1>2, <1>3, <1>4, <1>5, <1>6 DEF DaemonKept

LEMMA BridgeStep ==
  ASSUME BridgeInv, [Next]_bridgeVars
  PROVE  BridgeInv' /\ [RingNext]_ringVars
<1>1. DaemonTypes /\ cap \in Nat /\ RingInv
  BY DEF BridgeInv, RelayTypes
<1>2. [RingNext]_ringVars
  BY <1>1, RingStep
<1>3. RingInv' /\ popped <= popped' /\ pushed <= pushed'
  BY <1>1, <1>2, Onward
<1>4. CASE StreamSide
  BY <1>2, <1>3, <1>4, DaemonSound
<1>5. CASE HttpStep \/ PeerStep
  BY <1>2, <1>3, <1>5, HttpSound
<1>6. CASE UNCHANGED bridgeVars
  <2>1. UNCHANGED <<ringVars, streamVars, relayVars>>
    BY <1>6 DEF bridgeVars
  <2>2. UNCHANGED <<scene, active, stream, q, resetAt, granted, onto, begun, op, done, flag,
                    window, armed, boundary, fill, pushed, popped, epoch, inside, call>>
    BY <2>1 DEF ringVars, cursorVars, callVars, streamVars, daemonVars, sharedVars, flushVars,
                sinkVars, writeVars, opVars
  <2>3. UNCHANGED <<pc, back, client, clientGen, departed, boundaryGen, slot, listen, todo, half,
                    cap, chunk, posted>>
    BY <2>1 DEF relayVars, clientVars, connVars, serveVars, chunkVars
  <2>4. DaemonTypes' /\ SharedTypes' /\ RelayTypes'
    BY <2>2, <2>3 DEF BridgeInv, DaemonTypes, SharedTypes, RelayTypes
  <2>5. MarkerInv'
    BY <2>2, <2>3 DEF BridgeInv, MarkerInv, NothingPastMarker, Applies
  <2>6. TitleInv'
    BY <2>2, <2>3 DEF BridgeInv, TitleInv
  <2>7. PacedInv'
    <3>1. CallsRest
      BY <2>2 DEF CallsRest
    <3>2. fill \in Nat
      BY CountTypes DEF BridgeInv
    <3> QED
      BY <2>2, <3>1, <3>2, PacedKept DEF BridgeInv
  <2>8. RingInv'
    BY <1>3
  <2>9. BridgeInv'
    BY <2>4, <2>5, <2>6, <2>7, <2>8 DEF BridgeInv
  <2> QED
    BY <1>2, <2>9
<1> QED
  BY <1>2, <1>4, <1>5, <1>6 DEF Next, PeerStep

LEMMA BridgeInvariant == Spec => []BridgeInv /\ RingSpec
<1>1. Init => BridgeInv /\ RingInit
  BY BridgeInit DEF Init
<1>2. BridgeInv /\ [Next]_bridgeVars => BridgeInv' /\ [RingNext]_ringVars
  BY BridgeStep
<1> QED
  BY <1>1, <1>2, PTL DEF Spec, RingSpec

-----------------------------------------------------------------------------
(* The theorems.                                                            *)

(* The ring inside the bridge is the ring of PcmRing: whatever daemon,       *)
(* HTTP thread, peers and clocks do, each of their steps is a critical      *)
(* section of g_ring.lock or leaves the ring alone.                         *)
THEOREM BridgeUsesRing == Spec => RingSpec
BY BridgeInvariant, PTL

(* The state of the bridge keeps its types: the backlog, the arms and the   *)
(* chunk in hand stay within their bounds.                                  *)
THEOREM BridgeTypeCorrect == Spec => []TypeOK
<1>1. BridgeInv => TypeOK
  <2> SUFFICES ASSUME BridgeInv PROVE TypeOK
    OBVIOUS
  <2>1. RingTypeOK
    BY InvMeans DEF BridgeInv
  <2>2. \A s \in Streams : stream[s].state \in {"none", "new", "ready", "terminated", "freed"}
    BY DEF BridgeInv, DaemonTypes, StreamRecs
  <2> QED
    BY <2>1, <2>2 DEF BridgeInv, DaemonTypes, SharedTypes, RelayTypes, TypeOK
<1> QED
  BY <1>1, BridgeInvariant, PTL

(* Behind the marker of its title a client gets nothing: what the thread is *)
(* about to send ends at g_boundary_at_pushed or before it.                 *)
THEOREM BridgeNothingPastMarker == Spec => []NothingPastMarker
<1>1. BridgeInv => NothingPastMarker
  BY DEF BridgeInv, MarkerInv
<1> QED
  BY <1>1, BridgeInvariant, PTL

(* A client whose disconnect is pending gets no byte that was written after *)
(* the flush.                                                               *)
THEOREM BridgeNoNewTitle == Spec => []NoNewTitle
<1>1. BridgeInv => NoNewTitle
  BY DEF BridgeInv, TitleInv, NoNewTitle
<1> QED
  BY <1>1, BridgeInvariant, PTL

(* A daemon that writes what pa_stream_writable_size granted never waits    *)
(* for room, whatever the sizes of ring, batch, sink and margin.            *)
THEOREM BridgePacedNeverWaits == Spec => []PacedNeverWaits
<1>1. BridgeInv => PacedNeverWaits
  BY DEF BridgeInv, PacedInv, PacedNeverWaits
<1> QED
  BY <1>1, BridgeInvariant, PTL

(* The counters of the ring agree with what it holds, in the whole bridge.  *)
THEOREM BridgeCountsHold == Spec => []RingCounts
BY BridgeUsesRing, RingCountsHold, PTL

(* A hold freezes the read position at the old title's end.                 *)
THEOREM BridgeHoldFrozen == Spec => []HoldFrozen
BY BridgeUsesRing, RingHoldFrozen, PTL

(* Every byte of a write in progress is accounted for.                      *)
THEOREM BridgeWritesAccounted == Spec => []WritesAccounted
BY BridgeUsesRing, RingWritesAccounted, PTL

(* No writer sleeps beside a ring that has room or was flushed.             *)
THEOREM BridgeNoLostWakeup == Spec => []NoLostWakeup
BY BridgeUsesRing, RingNoLostWakeup, PTL

(* A write from before a flush puts nothing into the ring after it.         *)
THEOREM BridgeStaleWriteSilent == Spec => StaleWriteSilent
BY BridgeUsesRing, RingStaleWriteSilent, PTL

(* The bridge hands its client a queue's bytes: the positions of what is    *)
(* written and read are those of a bounded queue that may be emptied.       *)
THEOREM BridgeIsQueue == Spec => FifoSpec
BY BridgeUsesRing, RingIsQueue, PTL

=============================================================================
