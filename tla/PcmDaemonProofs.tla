--------------------------- MODULE PcmDaemonProofs ---------------------------
(***************************************************************************)
(* What the daemon can rely on when it writes through the PCM bridge, for    *)
(* any scenes, writers, streams and sizes.                                  *)
(*                                                                         *)
(* The virtual sink claims no audio that is gone.  The sink counts a write  *)
(* when it is admitted, long before its bytes are in the ring, and takes    *)
(* back at the end what the ring did not take; the invariant (SinkInv) says *)
(* what it is owed in between.  A byte that is owed is a writer and a       *)
(* number, so that the sum over the writers is the size of a set (Owed) and *)
(* one step changes one writer's column of it.                              *)
(*                                                                         *)
(* A stream is not freed under a writer.  The invariant (StreamInv) says    *)
(* what stands between a writer's stream and its end.                       *)
(***************************************************************************)
EXTENDS PcmBridgeProofs, FiniteSetTheorems

USE RingAssumption, StreamAssumption, RelayAssumption
    DEF RingAssumption, StreamAssumption, RelayAssumption

\* What the sink has counted of a call and the ring has not taken.
Amount(c) ==
  IF c.at \in {"out", "entered"} THEN 0 ELSE c.left + c.rest + c.refused + c.dropped

Owed(f) == {p \in Writers \X (Nat \ {0}) : p[2] <= Amount(f[p[1]])}

SinkInv ==
  /\ SinkOn \/ q = 0
  /\ IsFiniteSet(Owed(call))
  /\ q <= pushed - resetAt + Cardinality(Owed(call))

-----------------------------------------------------------------------------
(* One writer's column.                                                     *)

LEMMA AmountType ==
  ASSUME NEW c \in Calls
  PROVE  Amount(c) \in Nat
BY DEF Amount, Calls

LEMMA ColumnSize ==
  ASSUME NEW w, NEW n \in Nat
  PROVE  IsFiniteSet({w} \X (1 .. n)) /\ Cardinality({w} \X (1 .. n)) = n
<1>1. IsFiniteSet(1 .. n) /\ Cardinality(1 .. n) = n
  <2>1. 1 \in Int /\ n \in Int
    OBVIOUS
  <2>2. IsFiniteSet(1 .. n) /\ Cardinality(1 .. n) = IF 1 > n THEN 0 ELSE n - 1 + 1
    BY <2>1, FS_Interval
  <2> QED
    BY <2>2
<1>2. IsFiniteSet({w}) /\ Cardinality({w}) = 1
  BY FS_Singleton
<1>3. /\ IsFiniteSet({w} \X (1 .. n))
      /\ Cardinality({w} \X (1 .. n)) = Cardinality({w}) * Cardinality(1 .. n)
  BY <1>1, <1>2, FS_Product
<1> QED
  BY <1>1, <1>2, <1>3

\* A set made of the rest and one column.
LEMMA WithColumn ==
  ASSUME NEW R, IsFiniteSet(R), NEW w, \A p \in R : p[1] # w, NEW n \in Nat,
         NEW S, S = R \cup ({w} \X (1 .. n))
  PROVE  IsFiniteSet(S) /\ Cardinality(S) = Cardinality(R) + n
<1> DEFINE C == {w} \X (1 .. n)
<1>1. IsFiniteSet(C) /\ Cardinality(C) = n
  BY ColumnSize
<1>2. R \cap C = {}
  <2>1. \A p \in C : p[1] = w
    OBVIOUS
  <2> QED
    BY <2>1
<1> HIDE DEF C
<1>3. /\ IsFiniteSet(R \cup C)
      /\ Cardinality(R \cup C) = Cardinality(R) + Cardinality(C) - Cardinality(R \cap C)
  BY <1>1, FS_Union
<1>4. Cardinality(R) \in Nat /\ Cardinality({}) = 0
  BY FS_CardinalityType, FS_EmptySet
<1> QED
  BY <1>1, <1>2, <1>3, <1>4 DEF C

\* The bytes owed to the other writers.
Others(f, w) == {p \in Owed(f) : p[1] # w}

LEMMA OwedSplits ==
  ASSUME NEW f \in [Writers -> Calls], NEW w \in Writers
  PROVE  Owed(f) = Others(f, w) \cup ({w} \X (1 .. Amount(f[w])))
<1> DEFINE a == Amount(f[w])
           C == {w} \X (1 .. a)
<1>1. a \in Nat
  BY AmountType
<1> HIDE DEF a
<1>2. ASSUME NEW p \in Owed(f), p[1] = w PROVE p \in C
  <2>1. p \in Writers \X (Nat \ {0}) /\ p[2] <= Amount(f[p[1]])
    BY <1>2 DEF Owed
  <2>2. p = <<p[1], p[2]>> /\ p[2] \in Nat \ {0} /\ p[2] <= a
    BY <2>1, <1>2 DEF a
  <2> QED
    BY <2>2, <1>1, <1>2
<1>3. ASSUME NEW p \in C PROVE p \in Owed(f)
  <2>1. p = <<w, p[2]>> /\ p[1] = w /\ p[2] \in 1 .. a
    BY <1>3
  <2>2. p \in Writers \X (Nat \ {0}) /\ p[2] <= a
    BY <1>1, <2>1
  <2> QED
    BY <2>1, <2>2 DEF Owed, a
<1>4. Owed(f) = Others(f, w) \cup C
  <2>1. Others(f, w) \subseteq Owed(f) /\ C \subseteq Owed(f)
    BY <1>3 DEF Others
  <2>2. Owed(f) \subseteq Others(f, w) \cup C
    BY <1>2 DEF Others
  <2> QED
    BY <2>1, <2>2
<1> QED
  BY <1>4 DEF a

\* One call changes: what is owed changes by its column.
LEMMA OneColumn ==
  ASSUME NEW f \in [Writers -> Calls], IsFiniteSet(Owed(f)),
         NEW w \in Writers, NEW c \in Calls, NEW g, g = [f EXCEPT ![w] = c]
  PROVE  /\ IsFiniteSet(Owed(g))
         /\ Cardinality(Owed(g)) \in Nat /\ Cardinality(Owed(f)) \in Nat
         /\ Amount(c) \in Nat /\ Amount(f[w]) \in Nat
         /\ Cardinality(Owed(g)) = Cardinality(Owed(f)) - Amount(f[w]) + Amount(c)
<1> DEFINE R == Others(f, w)
<1>1. Amount(c) \in Nat /\ Amount(f[w]) \in Nat
  BY AmountType
<1>2. g \in [Writers -> Calls] /\ g[w] = c /\ \A v \in Writers : v # w => g[v] = f[v]
  OBVIOUS
<1>3. Others(g, w) = R
  <2>1. ASSUME NEW p \in Writers \X (Nat \ {0}), p[1] # w
        PROVE  p \in Owed(f) <=> p \in Owed(g)
    <3>1. p[1] \in Writers
      OBVIOUS
    <3>2. g[p[1]] = f[p[1]]
      BY <1>2, <2>1, <3>1
    <3> QED
      BY <3>2 DEF Owed
  <2>2. Owed(f) \subseteq Writers \X (Nat \ {0}) /\ Owed(g) \subseteq Writers \X (Nat \ {0})
    BY DEF Owed
  <2> QED
    BY <2>1, <2>2 DEF Others
<1>4. R \subseteq Owed(f) /\ \A p \in R : p[1] # w
  BY DEF Others
<1>5. IsFiniteSet(R)
  BY <1>4, FS_Subset
<1>6. Owed(f) = R \cup ({w} \X (1 .. Amount(f[w])))
  BY OwedSplits
<1>7. Owed(g) = R \cup ({w} \X (1 .. Amount(c)))
  BY <1>2, <1>3, OwedSplits
<1>8. Cardinality(R) \in Nat
  BY <1>5, FS_CardinalityType
<1> HIDE DEF R
<1>9. Cardinality(Owed(f)) = Cardinality(R) + Amount(f[w])
  BY <1>1, <1>4, <1>5, <1>6, WithColumn
<1>10. IsFiniteSet(Owed(g)) /\ Cardinality(Owed(g)) = Cardinality(R) + Amount(c)
  BY <1>1, <1>4, <1>5, <1>7, WithColumn
<1>11. Cardinality(Owed(g)) \in Nat /\ Cardinality(Owed(f)) \in Nat
  BY <1>1, <1>8, <1>9, <1>10
<1>12. Cardinality(Owed(g)) = Cardinality(Owed(f)) - Amount(f[w]) + Amount(c)
  BY <1>1, <1>8, <1>9, <1>10
<1> QED
  BY <1>1, <1>10, <1>11, <1>12

\* What is owed depends on the amounts only.
LEMMA SameOwed ==
  ASSUME NEW f, NEW g, \A w \in Writers : Amount(g[w]) = Amount(f[w])
  PROVE  Owed(g) = Owed(f)
<1>1. \A p \in Writers \X (Nat \ {0}) : Amount(g[p[1]]) = Amount(f[p[1]])
  OBVIOUS
<1> QED
  BY <1>1 DEF Owed

-----------------------------------------------------------------------------
(* What a step needs to show.                                               *)

\* One write goes on: what it adds to the claim, it is owed or it has pushed.
LEMMA OneWrite ==
  ASSUME BridgeInv, SinkInv, BridgeInv',
         NEW w \in Writers, NEW c \in Calls, call' = [call EXCEPT ![w] = c],
         resetAt' = resetAt, SinkOn \/ q' = 0,
         q' = 0 \/ q' + Amount(call[w]) + pushed <= q + Amount(c) + pushed'
  PROVE  SinkInv'
<1> DEFINE before == Cardinality(Owed(call))
           after == Cardinality(Owed(call'))
<1>1. /\ IsFiniteSet(Owed(call')) /\ after \in Nat /\ before \in Nat
      /\ Amount(c) \in Nat /\ Amount(call[w]) \in Nat
      /\ after = before - Amount(call[w]) + Amount(c)
  <2>1. call \in [Writers -> Calls] /\ IsFiniteSet(Owed(call))
    BY DEF BridgeInv, RingInv, CallsFit, SinkInv
  <2>2. PICK f \in [Writers -> Calls] : f = call
    BY <2>1
  <2>3. PICK g : g = call'
    OBVIOUS
  <2>4. IsFiniteSet(Owed(f)) /\ g = [f EXCEPT ![w] = c]
    BY <2>1, <2>2, <2>3
  <2>5. /\ IsFiniteSet(Owed(g))
        /\ Cardinality(Owed(g)) \in Nat /\ Cardinality(Owed(f)) \in Nat
        /\ Amount(c) \in Nat /\ Amount(f[w]) \in Nat
        /\ Cardinality(Owed(g)) = Cardinality(Owed(f)) - Amount(f[w]) + Amount(c)
    BY <2>4, OneColumn
  <2> QED
    BY <2>2, <2>3, <2>5
<1>2. /\ q \in Nat /\ q' \in Nat /\ resetAt \in Nat
      /\ pushed \in Nat /\ pushed' \in Nat /\ resetAt' <= pushed'
  BY DEF BridgeInv, DaemonTypes, RingInv, Cursors, TitleInv
<1>3. q <= pushed - resetAt + before
  BY DEF SinkInv
<1> HIDE DEF before, after
<1>4. q' <= pushed' - resetAt' + after
  BY <1>1, <1>2, <1>3
<1> QED
  BY <1>1, <1>4 DEF SinkInv, after, SinkOn

\* No write goes on: the claim stays within what was written, or is given up.
LEMMA NoWriteGoesOn ==
  ASSUME BridgeInv, SinkInv, BridgeInv',
         \A w \in Writers : Amount(call'[w]) = Amount(call[w]),
         q' = 0 \/ (q' <= q /\ resetAt' = resetAt /\ pushed' = pushed)
  PROVE  SinkInv'
<1> DEFINE before == Cardinality(Owed(call))
<1>1. Owed(call') = Owed(call)
  BY SameOwed
<1>2. /\ q \in Nat /\ q' \in Nat /\ resetAt' \in Nat
      /\ pushed' \in Nat /\ resetAt' <= pushed'
  BY DEF BridgeInv, DaemonTypes, RingInv, Cursors, TitleInv
<1>3. q <= pushed - resetAt + before /\ IsFiniteSet(Owed(call)) /\ (SinkOn \/ q = 0)
  BY DEF SinkInv
<1>4. before \in Nat
  BY <1>3, FS_CardinalityType
<1> HIDE DEF before
<1>5. q' <= pushed' - resetAt' + before /\ (SinkOn \/ q' = 0)
  BY <1>2, <1>3, <1>4
<1> QED
  BY <1>1, <1>3, <1>5 DEF SinkInv, before, SinkOn

LEMMA WokenAmounts ==
  ASSUME RingInv, call' = Woken
  PROVE  \A w \in Writers : Amount(call'[w]) = Amount(call[w])
<1> SUFFICES ASSUME NEW w \in Writers PROVE Amount(call'[w]) = Amount(call[w])
  OBVIOUS
<1>1. call[w] \in Calls
  BY CallTypes
<1>2. CASE call[w].at = "waiting"
  <2>1. call'[w] = [call[w] EXCEPT !.at = "pushing"]
    BY <1>2 DEF Woken
  <2> QED
    BY <1>1, <1>2, <2>1 DEF Calls, Amount
<1>3. CASE call[w].at # "waiting"
  BY <1>3 DEF Woken
<1> QED
  BY <1>2, <1>3

-----------------------------------------------------------------------------
(* The steps.                                                               *)

LEMMA HttpSink ==
  ASSUME BridgeInv, SinkInv, BridgeInv', HttpStep \/ PeerStep
  PROVE  SinkInv'
<1>1. HttpFrame
  <2>1. cap \in Nat
    BY DEF BridgeInv, RelayTypes
  <2> QED
    BY <2>1, HttpStepParts, ServeFrame, LoopFrame, DrainFrame, PeerFrame
<1>2. /\ UNCHANGED <<q, resetAt, pushed>>
      /\ call' = call \/ call' = Woken
  BY <1>1 DEF HttpFrame, HttpRing, daemonVars, sinkVars, ringVars, cursorVars, callVars, Pop,
              SetClient, HoldTimeout, HoldRelease, ForgetExpired, SuppressHold, Underrun
<1>3. \A w \in Writers : Amount(call'[w]) = Amount(call[w])
  BY <1>2, WokenAmounts DEF BridgeInv
<1>4. q' <= q
  BY <1>2 DEF BridgeInv, DaemonTypes
<1> QED
  BY <1>2, <1>3, <1>4, NoWriteGoesOn

\* The calls of the daemon: a flush and a teardown empty the sink, and a write
\* that is in the bridge is left as it is.
LEMMA OpSink ==
  ASSUME BridgeInv, SinkInv, BridgeInv', NEW seen,
         OpStep \/ OpStart(seen) \/ TickStep
  PROVE  SinkInv'
<1>1. call' = call \/ call' = Woken
  BY DEF OpStep, ConnectMarker, ConnectArm, ConnectDone, FlushMarker, FlushArmed, FlushUnarmed,
         FlushKept, FlushWindow, FlushRaise, TearDownWake, TearDownEnds, ReleaseWriters, OpStart,
         New, ConnectRing, RingFlush, Cork, FlushRing, TearDown, TickStep, AskWritable, SinkPlays,
         WindowCloses, ArmAges, KeepAges, RingClock, HoldAges, GapAges, SuppressLapses,
         ringVars, callVars
<1>2. \A w \in Writers : Amount(call'[w]) = Amount(call[w])
  BY <1>1, WokenAmounts DEF BridgeInv
<1>3. q \in Nat
  BY DEF BridgeInv, DaemonTypes
<1>4. CASE OpStep
  <2>1. UNCHANGED <<q, resetAt, pushed>>
    BY <1>4 DEF OpStep, ConnectMarker, ConnectArm, ConnectDone, FlushMarker, FlushArmed,
         FlushUnarmed, FlushKept, FlushWindow, FlushRaise, TearDownWake, TearDownEnds,
         ReleaseWriters, ringVars, cursorVars, sinkVars
  <2> QED
    BY <1>2, <1>3, <2>1, NoWriteGoesOn
<1>5. CASE OpStart(seen)
  <2>1. q' = 0 \/ UNCHANGED <<q, resetAt, pushed>>
    BY <1>5 DEF OpStart, New, ConnectRing, Cork, FlushRing, TearDown, SinkReset, ringVars,
         cursorVars, sinkVars
  <2> QED
    BY <1>2, <1>3, <2>1, NoWriteGoesOn
<1>6. CASE TickStep
  <2>1. (q' = q \/ q' = q - 1) /\ UNCHANGED <<resetAt, pushed>>
    BY <1>6 DEF TickStep, AskWritable, SinkPlays, WindowCloses, ArmAges, KeepAges, RingClock,
         HoldAges, GapAges, SuppressLapses, ringVars, cursorVars, streamVars, daemonVars, sinkVars
  <2>2. q' <= q
    BY <1>3, <2>1
  <2> QED
    BY <1>2, <2>1, <2>2, NoWriteGoesOn
<1> QED
  BY <1>4, <1>5, <1>6

LEMMA WriteStartSink ==
  ASSUME BridgeInv, SinkInv, BridgeInv', NEW seen, WriteStart(seen)
  PROVE  SinkInv'
<1> DEFINE next == scene.writes[begun + 1]
           c == [NoCall EXCEPT !.at = "entered", !.size = next.size, !.rest = next.size,
                               !.epoch = epoch]
<1>1. next.by \in Writers /\ next.size \in Nat
  <2>1. begun < Len(scene.writes)
    BY DEF WriteStart
  <2> QED
    BY <2>1, SceneItems DEF BridgeInv, IsWrite
<1>2. /\ call[next.by].at = "out" /\ call' = [call EXCEPT ![next.by] = c]
      /\ UNCHANGED <<q, resetAt, pushed>>
  BY DEF WriteStart, Enter, cursorVars, sinkVars
<1>3. c \in Calls /\ c.at = "entered"
  <2>1. epoch \in Nat
    BY DEF BridgeInv, RingInv, Cursors
  <2> QED
    BY <1>1, <2>1 DEF NoCall, Calls, Places
<1>4. \A w \in Writers : Amount(call'[w]) = Amount(call[w])
  <2>1. call \in [Writers -> Calls]
    BY DEF BridgeInv, RingInv, CallsFit
  <2> HIDE DEF next, c
  <2>2. \A w \in Writers : w # next.by => call'[w] = call[w]
    BY <1>2, <2>1
  <2>3. call'[next.by] = c
    BY <1>1, <1>2, <2>1
  <2>4. Amount(c) = 0 /\ Amount(call[next.by]) = 0
    BY <1>2, <1>3 DEF Amount
  <2> QED
    BY <2>2, <2>3, <2>4
<1>5. q' <= q
  BY <1>2 DEF BridgeInv, DaemonTypes
<1> QED
  BY <1>2, <1>4, <1>5, NoWriteGoesOn

\* The batch that is dealt with leaves nothing but what is still to come, and
\* what was refused or given up.
LEMMA BatchAmount ==
  ASSUME NEW c \in Calls
  PROVE  NextBatch(c) \in Calls /\ Amount(NextBatch(c)) = c.rest + c.refused + c.dropped
<1> DEFINE b == NextBatch(c)
<1>1. /\ b \in Calls /\ b.left + b.rest = c.rest
      /\ b.refused = c.refused /\ b.dropped = c.dropped /\ b.at \in {"pushed", "pushing"}
  BY NextBatchFacts
<1> HIDE DEF b
<1>2. Amount(b) = c.rest + c.refused + c.dropped
  BY <1>1 DEF Amount, Calls
<1> QED
  BY <1>1, <1>2 DEF b

LEMMA AdmitSink ==
  ASSUME BridgeInv, SinkInv, BridgeInv', NEW w \in Writers, WriteAdmit(w)
  PROVE  SinkInv'
<1> DEFINE c == NextBatch(call[w])
<1>1. /\ call[w] \in Calls /\ call[w].at = "entered"
      /\ call[w].size = call[w].rest + call[w].refused + call[w].dropped
  <2>1. call[w].at = "entered" /\ CallFits(call[w], epoch)
    BY DEF WriteAdmit, Begin, BridgeInv, RingInv, CallsFit
  <2> QED
    BY <2>1 DEF CallFits, Calls
<1>2. c \in Calls /\ Amount(c) = call[w].size /\ Amount(call[w]) = 0
  BY <1>1, BatchAmount DEF Amount
<1>3. /\ call' = [call EXCEPT ![w] = c]
      /\ UNCHANGED <<resetAt, pushed>>
      /\ q' = IF SinkOn THEN q + call[w].size ELSE q
  BY DEF WriteAdmit, Begin, cursorVars
<1>4. q \in Nat /\ pushed \in Nat /\ (SinkOn \/ q = 0) /\ call[w].size \in Nat
  BY <1>1 DEF BridgeInv, DaemonTypes, RingInv, Cursors, SinkInv, Calls
<1> HIDE DEF c
<1>5. /\ SinkOn \/ q' = 0
      /\ q' = 0 \/ q' + Amount(call[w]) + pushed <= q + Amount(c) + pushed'
  BY <1>2, <1>3, <1>4
<1> QED
  BY <1>2, <1>3, <1>5, OneWrite

LEMMA EndSink ==
  ASSUME BridgeInv, SinkInv, BridgeInv', NEW w \in Writers, WriteEnd(w)
  PROVE  SinkInv'
<1> DEFINE lost == call[w].refused + call[w].dropped
<1>1. /\ call[w] \in Calls /\ call[w].at = "pushed"
      /\ call[w].left = 0 /\ call[w].rest = 0
  <2>1. call[w].at = "pushed" /\ CallFits(call[w], epoch)
    BY DEF WriteEnd, Leave, BridgeInv, RingInv, CallsFit
  <2> QED
    BY <2>1 DEF CallFits
<1>2. NoCall \in Calls /\ Amount(NoCall) = 0 /\ Amount(call[w]) = lost /\ lost \in Nat
  BY <1>1 DEF Amount, NoCall, Calls, Places
<1>3. /\ call' = [call EXCEPT ![w] = NoCall]
      /\ UNCHANGED <<resetAt, pushed>>
      /\ q' = IF SinkOn THEN Most(q - lost, 0) ELSE q
  BY DEF WriteEnd, Leave, cursorVars
<1>4. q \in Nat /\ pushed \in Nat /\ (SinkOn \/ q = 0)
  BY DEF BridgeInv, DaemonTypes, RingInv, Cursors, SinkInv
<1> HIDE DEF lost
<1>5. /\ SinkOn \/ q' = 0
      /\ q' = 0 \/ q' + Amount(call[w]) + pushed <= q + Amount(NoCall) + pushed'
  BY <1>2, <1>3, <1>4 DEF Most
<1> QED
  BY <1>2, <1>3, <1>5, OneWrite

\* A push changes its own call; the bytes it moves into the ring are no longer
\* owed, and the others still are.
LEMMA PushAmount ==
  ASSUME BridgeInv, NEW w \in Writers, Push(w) \/ WaitExpires(w)
  PROVE  \E c \in Calls : /\ call' = [call EXCEPT ![w] = c]
                          /\ Amount(call[w]) + pushed = Amount(c) + pushed'
<1>1. call[w] \in Calls /\ fill \in Nat /\ fill <= Capacity /\ pushed \in Nat
  BY CallTypes DEF BridgeInv, RingInv, Cursors, RingCounts
<1>n. /\ call[w].left \in Nat /\ call[w].rest \in Nat /\ call[w].refused \in Nat
      /\ call[w].dropped \in Nat /\ call[w].done \in Nat
  BY <1>1 DEF Calls
<1> DEFINE Amounts(c) == c.left + c.rest + c.refused + c.dropped
<1>2. ASSUME call[w].at \in {"pushing", "waiting"}
      PROVE  Amount(call[w]) = Amounts(call[w])
  BY <1>2 DEF Amount
<1>3. CASE PushAbandon(w)
  <2> DEFINE d == [call[w] EXCEPT !.dropped = call[w].dropped + call[w].left]
  <2>1. call' = [call EXCEPT ![w] = NextBatch(d)] /\ call[w].at = "pushing" /\ pushed' = pushed
    BY <1>3 DEF PushAbandon, Pushing, GiveUp, cursorVars
  <2>2. d \in Calls /\ d.rest + d.refused + d.dropped = Amounts(call[w])
    BY <1>1, <1>n DEF Calls
  <2> HIDE DEF d, Amounts
  <2>3. NextBatch(d) \in Calls /\ Amount(NextBatch(d)) = Amount(call[w])
    BY <1>2, <2>1, <2>2, BatchAmount
  <2> QED
    BY <2>1, <2>3
<1>4. CASE PushRefuse(w)
  <2> DEFINE d == [call[w] EXCEPT !.refused = call[w].refused + call[w].left]
  <2>1. call' = [call EXCEPT ![w] = NextBatch(d)] /\ call[w].at = "pushing" /\ pushed' = pushed
    BY <1>4 DEF PushRefuse, Pushing, Refuse, cursorVars
  <2>2. d \in Calls /\ d.rest + d.refused + d.dropped = Amounts(call[w])
    BY <1>1, <1>n DEF Calls
  <2> HIDE DEF d, Amounts
  <2>3. NextBatch(d) \in Calls /\ Amount(NextBatch(d)) = Amount(call[w])
    BY <1>2, <2>1, <2>2, BatchAmount
  <2> QED
    BY <2>1, <2>3
<1>5. CASE PushWait(w)
  <2> DEFINE d == [call[w] EXCEPT !.at = "waiting"]
  <2>1. call' = [call EXCEPT ![w] = d] /\ call[w].at = "pushing" /\ pushed' = pushed
    BY <1>5 DEF PushWait, Pushing, cursorVars
  <2>2. d \in Calls /\ Amount(d) = Amounts(call[w])
    BY <1>1 DEF Calls, Places, Amount
  <2> HIDE DEF d, Amounts
  <2> QED
    BY <1>2, <2>1, <2>2
<1>6. CASE WaitExpires(w)
  <2>1. PICK b \in BOOLEAN : b = (Full /\ Current(w))
    OBVIOUS
  <2> DEFINE d == [call[w] EXCEPT !.at = "pushing", !.expired = b]
  <2>2. call' = [call EXCEPT ![w] = d] /\ call[w].at = "waiting" /\ pushed' = pushed
    BY <1>6, <2>1 DEF WaitExpires, cursorVars
  <2>3. d \in Calls /\ Amount(d) = Amounts(call[w])
    BY <1>1 DEF Calls, Places, Amount
  <2> HIDE DEF d, Amounts
  <2> QED
    BY <1>2, <2>2, <2>3
<1>7. CASE PushChunk(w)
  <2> DEFINE n == Least(call[w].left, Capacity - fill)
             c == [call[w] EXCEPT !.left = call[w].left - n, !.done = call[w].done + n]
             d == [c EXCEPT !.refused = c.refused + c.left]
             e == [c EXCEPT !.at = "waiting"]
  <2>1. /\ call' = [call EXCEPT ![w] = IF c.left = 0 THEN NextBatch(c)
                                       ELSE IF c.expired THEN NextBatch(d) ELSE e]
        /\ call[w].at = "pushing" /\ pushed' = pushed + n
    BY <1>7 DEF PushChunk, Pushing, Refuse
  <2>2. n \in Nat /\ call[w].left - n \in Nat /\ call[w].done + n \in Nat
    BY <1>1, <1>n DEF Least
  <2> HIDE DEF n
  <2>f. /\ c \in Calls /\ c.left = call[w].left - n /\ c.rest = call[w].rest
        /\ c.refused = call[w].refused /\ c.dropped = call[w].dropped
    BY <1>1, <2>2 DEF Calls
  <2> HIDE DEF c
  <2>3. /\ c \in Calls /\ Amounts(c) + n = Amounts(call[w])
        /\ c.left \in Nat /\ c.rest \in Nat /\ c.refused \in Nat /\ c.dropped \in Nat
    BY <1>n, <2>2, <2>f
  <2>4. d \in Calls /\ d.rest + d.refused + d.dropped = Amounts(c)
    BY <2>3 DEF Calls
  <2>5. e \in Calls /\ Amount(e) = Amounts(c)
    BY <2>3 DEF Calls, Places, Amount
  <2>6. c.left = 0 => c.rest + c.refused + c.dropped = Amounts(c)
    BY <2>3
  <2> HIDE DEF d, e, Amounts
  <2> DEFINE g == IF c.left = 0 THEN NextBatch(c) ELSE IF c.expired THEN NextBatch(d) ELSE e
  <2>7. g \in Calls /\ Amount(g) = Amounts(c)
    BY <2>3, <2>4, <2>5, <2>6, BatchAmount
  <2>8. call' = [call EXCEPT ![w] = g]
    BY <2>1
  <2> HIDE DEF g
  <2>9. Amount(g) \in Nat /\ Amount(call[w]) = Amount(g) + n
    BY <1>2, <2>1, <2>3, <2>7, AmountType
  <2>10. Amount(call[w]) + pushed = Amount(g) + pushed'
    BY <1>1, <2>1, <2>2, <2>9
  <2> QED
    BY <2>7, <2>8, <2>10
<1> QED
  BY <1>3, <1>4, <1>5, <1>6, <1>7 DEF Push

LEMMA WriterSink ==
  ASSUME BridgeInv, SinkInv, BridgeInv', NEW w \in Writers, WriterStep(w)
  PROVE  SinkInv'
<1>1. CASE WritePush(w)
  <2>1. PICK c \in Calls : /\ call' = [call EXCEPT ![w] = c]
                           /\ Amount(call[w]) + pushed = Amount(c) + pushed'
    BY <1>1, PushAmount DEF WritePush
  <2>2. UNCHANGED <<q, resetAt>>
    BY <1>1 DEF WritePush, streamVars, daemonVars, sinkVars
  <2>3. /\ Amount(c) \in Nat /\ Amount(call[w]) \in Nat /\ q \in Nat /\ pushed \in Nat
        /\ pushed' \in Nat /\ (SinkOn \/ q = 0)
    BY AmountType, CallTypes DEF BridgeInv, DaemonTypes, RingInv, Cursors, SinkInv
  <2>4. q' + Amount(call[w]) + pushed <= q + Amount(c) + pushed' /\ (SinkOn \/ q' = 0)
    BY <2>1, <2>2, <2>3
  <2> QED
    BY <2>1, <2>2, <2>4, OneWrite
<1> QED
  BY <1>1, AdmitSink, EndSink DEF WriterStep

LEMMA SinkStep ==
  ASSUME BridgeInv, SinkInv, BridgeInv', [Next]_bridgeVars
  PROVE  SinkInv'
<1>1. CASE StreamSide
  BY <1>1, OpSink, WriteStartSink, WriterSink DEF StreamSide, TickStep
<1>2. CASE HttpStep \/ PeerStep
  BY <1>2, HttpSink
<1>3. CASE UNCHANGED bridgeVars
  <2>1. UNCHANGED <<q, resetAt, pushed, call>>
    BY <1>3 DEF bridgeVars, ringVars, cursorVars, callVars, streamVars, daemonVars, sinkVars
  <2> QED
    BY <2>1 DEF SinkInv
<1> QED
  BY <1>1, <1>2, <1>3 DEF Next, PeerStep

LEMMA SinkInit ==
  ASSUME Init
  PROVE  SinkInv
<1>1. q = 0 /\ resetAt = 0 /\ pushed = 0 /\ call = [w \in Writers |-> NoCall]
  BY DEF Init, RingInit, StreamInit
<1>2. Owed(call) = {}
  <2>1. \A w \in Writers : Amount(call[w]) = 0
    BY <1>1 DEF NoCall, Amount
  <2>2. ASSUME NEW p \in Owed(call) PROVE FALSE
    <3>1. p \in Writers \X (Nat \ {0}) /\ p[2] <= Amount(call[p[1]])
      BY <2>2 DEF Owed
    <3>2. p[1] \in Writers /\ p[2] \in Nat \ {0}
      BY <3>1
    <3> QED
      BY <2>1, <3>1, <3>2
  <2> QED
    BY <2>2
<1>3. IsFiniteSet(Owed(call)) /\ Cardinality(Owed(call)) = 0
  BY <1>2, FS_EmptySet
<1> QED
  BY <1>1, <1>3 DEF SinkInv

\* With no writer inside nothing is owed.
LEMMA NothingOwed ==
  ASSUME BridgeInv, inside = {}
  PROVE  Owed(call) = {}
<1>1. \A w \in Writers : Amount(call[w]) = 0
  BY DEF BridgeInv, RingInv, Counted, Amount
<1>2. ASSUME NEW p \in Owed(call) PROVE FALSE
  <2>1. p \in Writers \X (Nat \ {0}) /\ p[2] <= Amount(call[p[1]])
    BY <1>2 DEF Owed
  <2>2. p[1] \in Writers /\ p[2] \in Nat \ {0}
    BY <2>1
  <2> QED
    BY <1>1, <2>1, <2>2
<1> QED
  BY <1>2

-----------------------------------------------------------------------------
(* The theorem.                                                             *)

(* Once the writers have left, the virtual sink claims no more audio than    *)
(* was put into the ring since the sink was last emptied: what a flush, a   *)
(* teardown or the write ceiling kept out of the ring has been taken back,  *)
(* in whatever order the writes and the flushes came.                       *)
THEOREM SinkNeverOverclaims == Spec => []SinkTruth
<1>1. Init => SinkInv
  BY SinkInit
<1>2. BridgeInv /\ SinkInv /\ BridgeInv' /\ [Next]_bridgeVars => SinkInv'
  BY SinkStep
<1>3. BridgeInv /\ SinkInv => SinkTruth
  <2> SUFFICES ASSUME BridgeInv, SinkInv, inside = {} PROVE q <= pushed - resetAt
    BY DEF SinkTruth
  <2>1. Cardinality(Owed(call)) = 0
    BY NothingOwed, FS_EmptySet
  <2>2. pushed \in Nat /\ resetAt \in Nat
    BY DEF BridgeInv, RingInv, Cursors, DaemonTypes
  <2> QED
    BY <2>1, <2>2 DEF SinkInv
<1> QED
  BY <1>1, <1>2, <1>3, BridgeInvariant, PTL DEF Spec

-----------------------------------------------------------------------------
(* The streams under the writers.                                           *)

\* The i-th call of a scene is c on s.
IsCall(sc, i, c, s) == sc.ops[i].call = c /\ sc.ops[i].on = s

\* Among the first n calls of a scene s was connected,
Connected(sc, n, s) == \E i \in 1 .. n : IsCall(sc, i, "connect", s)

\* and another connect followed.
Replaced(sc, n, s) ==
  \E i, j \in 1 .. n : i < j /\ IsCall(sc, i, "connect", s) /\ sc.ops[j].call = "connect"

Freeing == {"unref", "unrefWait"}
Connecting == {"connectMarker", "connectArm", "connectDone"}

\* A writer's stream is the active one, or its teardown is under way and waits
\* for the writer, or another one has taken its place.
Standing(s) ==
  /\ s \in Streams /\ stream[s].state # "freed"
  /\ s = active \/ (op.at \in Freeing /\ op.on = s) \/ Replaced(scene, done, s)

StreamInv ==
  /\ active # None => Connected(scene, done, active)
  /\ op.at \in Connecting =>
       done < Len(scene.ops) /\ IsCall(scene, done + 1, "connect", op.on)
  /\ \A w \in inside : Standing(onto[w].on)

LEMMA CallsAdd ==
  ASSUME NEW sc, NEW s, NEW n \in Nat, NEW m \in Nat, n <= m
  PROVE  /\ Connected(sc, n, s) => Connected(sc, m, s)
         /\ Replaced(sc, n, s) => Replaced(sc, m, s)
<1>1. 1 .. n \subseteq 1 .. m
  OBVIOUS
<1> QED
  BY <1>1 DEF Connected, Replaced

\* A step that frees no stream under a writer and starts no write.
LEMMA StreamsStand ==
  ASSUME DaemonTypes, StreamInv,
         scene' = scene, done' \in Nat, done <= done', active' = active,
         op'.at \in Connecting =>
           done' < Len(scene.ops) /\ IsCall(scene, done' + 1, "connect", op'.on),
         \A w \in inside' : w \in inside /\ onto'[w].on = onto[w].on,
         \/ inside' = {}
         \/ /\ \A s \in Streams : stream[s].state # "freed" => stream'[s].state # "freed"
            /\ op.at \in Freeing => op'.at \in Freeing /\ op'.on = op.on
  PROVE  StreamInv'
<1>1. done \in Nat
  BY DEF DaemonTypes
<1>2. ASSUME NEW w \in inside' PROVE Standing(onto[w].on)'
  <2>1. PICK s : s = onto[w].on
    OBVIOUS
  <2>2. w \in inside /\ onto'[w].on = s
    BY <1>2, <2>1
  <2>3. Standing(s)
    BY <2>1, <2>2 DEF StreamInv
  <2>4. s \in Streams /\ stream'[s].state # "freed"
    BY <1>2, <2>3 DEF Standing
  <2>5. s = active' \/ (op'.at \in Freeing /\ op'.on = s) \/ Replaced(scene', done', s)
    <3>1. Replaced(scene, done, s) => Replaced(scene', done', s)
      BY <1>1, CallsAdd
    <3> QED
      BY <1>2, <2>3, <3>1 DEF Standing
  <2> QED
    BY <2>2, <2>4, <2>5 DEF Standing
<1>3. active' # None => Connected(scene', done', active')
  BY <1>1, CallsAdd DEF StreamInv
<1>4. op'.at \in Connecting =>
        done' < Len(scene'.ops) /\ IsCall(scene', done' + 1, "connect", op'.on)
  OBVIOUS
<1> QED
  BY <1>2, <1>3, <1>4 DEF StreamInv

\* What an update of a stream makes of the state of all.
LEMMA StatesUpdated ==
  ASSUME DaemonTypes, NEW t
  PROVE  /\ \A x : stream' = [stream EXCEPT ![t].state = x] =>
              \A s \in Streams : stream'[s].state = IF s = t THEN x ELSE stream[s].state
         /\ \A b : stream' = [stream EXCEPT ![t].corked = b] =>
              \A s \in Streams : stream'[s].state = stream[s].state
         /\ stream' = [stream EXCEPT ![t].started = TRUE] =>
              \A s \in Streams : stream'[s].state = stream[s].state
         /\ \A n : stream' = [stream EXCEPT ![t].written = @ + n] =>
              \A s \in Streams : stream'[s].state = stream[s].state
<1>1. stream \in [Streams -> StreamRecs]
  BY DEF DaemonTypes
<1> QED
  BY <1>1 DEF StreamRecs

LEMMA WriterStreams ==
  ASSUME BridgeInv, StreamInv, BridgeInv', NEW w \in Writers, WriterStep(w)
  PROVE  StreamInv'
<1> USE DEF BridgeInv
<1>1. UNCHANGED <<scene, done, active, op>> /\ done \in Nat
  BY DEF WriterStep, WriteAdmit, WritePush, WriteEnd, streamVars, daemonVars, opVars, DaemonTypes
<1>2. \A s \in Streams : stream'[s].state = stream[s].state
  <2>1. CASE WritePush(w)
    BY <2>1 DEF WritePush, streamVars, daemonVars
  <2>2. CASE WriteAdmit(w)
    BY <2>2, StatesUpdated DEF WriteAdmit
  <2>3. CASE WriteEnd(w)
    <3>1. stream' = [stream EXCEPT ![onto[w].on].written = @ + call[w].size]
      BY <2>3 DEF WriteEnd
    <3> QED
      BY <3>1, StatesUpdated
  <2> QED
    BY <2>1, <2>2, <2>3 DEF WriterStep
<1>3. \A v \in inside' : v \in inside /\ onto'[v].on = onto[v].on
  <2>1. inside \subseteq Writers /\ onto \in [Writers -> [on : Streams \cup {None}, paced : BOOLEAN]]
    BY DEF RingInv, Counted, DaemonTypes
  <2>2. CASE WritePush(w) \/ WriteAdmit(w)
    BY <2>2 DEF WritePush, WriteAdmit, Push, PushAbandon, PushRefuse, PushWait, PushChunk,
                WaitExpires, Begin, streamVars, daemonVars, writeVars
  <2>3. CASE WriteEnd(w)
    <3>1. inside' = inside \ {w} /\ onto' = [onto EXCEPT ![w] = NoWrite]
      BY <2>3 DEF WriteEnd, Leave
    <3> QED
      BY <2>1, <3>1
  <2> QED
    BY <2>2, <2>3 DEF WriterStep
<1>4. op'.at \in Connecting =>
        done' < Len(scene.ops) /\ IsCall(scene, done' + 1, "connect", op'.on)
  BY <1>1 DEF StreamInv
<1> QED
  BY <1>1, <1>2, <1>3, <1>4, StreamsStand

\* A write starts on the active stream, which is ready.
LEMMA WriteStartStreams ==
  ASSUME BridgeInv, StreamInv, BridgeInv', NEW seen, WriteStart(seen)
  PROVE  StreamInv'
<1> USE DEF BridgeInv
<1>1. UNCHANGED <<scene, done, active, op, stream>> /\ active # None
      /\ stream[active].state = "ready" /\ active \in Streams
  BY DEF WriteStart, opVars, Live, DaemonTypes
<1>2. PICK by \in Writers :
        /\ inside' = inside \cup {by}
        /\ onto'[by].on = active
        /\ \A v \in Writers : v # by => onto'[v].on = onto[v].on
  <2> DEFINE next == scene.writes[begun + 1]
             paced == granted > 0 /\ next.size <= granted + Margin /\ inside = {}
  <2>1. next.by \in Writers
    <3>1. begun < Len(scene.writes)
      BY DEF WriteStart
    <3> QED
      BY <3>1, SceneItems DEF IsWrite
  <2>2. /\ inside' = inside \cup {next.by}
        /\ onto' = [v \in Writers |-> IF v = next.by THEN [on |-> active, paced |-> paced]
                                      ELSE [onto[v] EXCEPT !.paced = FALSE]]
    BY DEF WriteStart, Enter
  <2> HIDE DEF next, paced
  <2>3. \A v \in Writers : [onto[v] EXCEPT !.paced = FALSE].on = onto[v].on
    <3>1. \A v \in Writers : onto[v] \in [on : Streams \cup {None}, paced : BOOLEAN]
      BY DEF DaemonTypes
    <3> QED
      BY <3>1
  <2> QED
    BY <2>1, <2>2, <2>3
<1>3. ASSUME NEW w \in inside' PROVE Standing(onto[w].on)'
  <2>1. inside \subseteq Writers
    BY DEF RingInv, Counted
  <2>2. CASE w = by
    <3>1. onto'[w].on = active' /\ active' \in Streams /\ stream'[active'].state # "freed"
      BY <1>1, <1>2, <2>2
    <3> QED
      BY <3>1 DEF Standing
  <2>3. CASE w # by
    <3>1. w \in inside /\ onto'[w].on = onto[w].on
      BY <1>2, <1>3, <2>1, <2>3
    <3>2. PICK s : s = onto[w].on
      OBVIOUS
    <3>3. Standing(s)
      BY <3>1, <3>2 DEF StreamInv
    <3>4. onto'[w].on = s /\ UNCHANGED <<scene, done, active, op, stream>>
      BY <1>1, <3>1, <3>2
    <3> QED
      BY <3>3, <3>4 DEF Standing
  <2> QED
    BY <2>2, <2>3
<1> QED
  BY <1>1, <1>3 DEF StreamInv

LEMMA OpStepStreams ==
  ASSUME BridgeInv, StreamInv, BridgeInv', OpStep
  PROVE  StreamInv'
<1> USE DEF BridgeInv
<1>1. done \in Nat /\ op \in [at : OpPlaces, on : Streams \cup {None}]
  BY DEF DaemonTypes
<1>2. CASE ConnectMarker \/ ConnectArm
  <2>1. /\ UNCHANGED <<scene, done, active, stream, onto, inside>>
        /\ op.at \in Connecting /\ op.at \notin Freeing /\ op'.on = op.on
    BY <1>2 DEF ConnectMarker, ConnectArm, Goes, ringVars, callVars, writeVars, Connecting,
                Freeing
  <2>2. op'.at \in Connecting =>
          done' < Len(scene.ops) /\ IsCall(scene, done' + 1, "connect", op'.on)
    BY <2>1 DEF StreamInv
  <2> QED
    BY <1>1, <2>1, <2>2, StreamsStand
<1>3. CASE FlushMarker \/ FlushArmed \/ FlushUnarmed \/ FlushKept \/ FlushWindow \/ FlushRaise
  <2>1. /\ UNCHANGED <<scene, active, stream, onto, inside>>
        /\ op.at \notin Freeing /\ op'.at \notin Connecting
        /\ done' = done \/ done' = done + 1
    BY <1>3 DEF FlushMarker, FlushArmed, FlushUnarmed, FlushKept, FlushWindow, FlushRaise, Goes,
                Returns, Idle, ringVars, callVars, writeVars, Connecting, Freeing
  <2>2. done' \in Nat /\ done <= done'
    BY <1>1, <2>1
  <2> QED
    BY <2>1, <2>2, StreamsStand
<1>4. CASE TearDownWake
  <2>1. /\ UNCHANGED <<scene, done, active, stream, onto, inside>>
        /\ op'.at \notin Connecting
        /\ op.at \in Freeing => op'.at \in Freeing
        /\ op'.on = op.on
    BY <1>4 DEF TearDownWake, ReleaseWriters, Goes, callVars, writeVars, Connecting, Freeing
  <2> QED
    BY <1>1, <2>1, StreamsStand
<1>5. CASE TearDownEnds
  <2>1. /\ UNCHANGED <<scene, active>> /\ inside' = {} /\ done' = done + 1
        /\ op'.at \notin Connecting
    BY <1>5 DEF TearDownEnds, Returns, Idle, ringVars, callVars, Connecting
  <2>2. done' \in Nat /\ done <= done'
    BY <1>1, <2>1
  <2> QED
    BY <2>1, <2>2, StreamsStand
<1>6. CASE ConnectDone
  <2>1. /\ UNCHANGED <<scene, onto, inside>>
        /\ op.at \in Connecting /\ op.at \notin Freeing /\ op'.at \notin Connecting
        /\ active' = op.on /\ done' = done + 1
        /\ stream' = [stream EXCEPT ![op.on].state = "ready"]
    BY <1>6 DEF ConnectDone, Returns, Idle, ringVars, callVars, writeVars, Connecting, Freeing
  <2>2. IsCall(scene, done + 1, "connect", op.on)
    BY <2>1 DEF StreamInv
  <2>3. Connected(scene', done', active')
    <3>1. done + 1 \in 1 .. done'
      BY <1>1, <2>1
    <3> QED
      BY <2>1, <2>2, <3>1 DEF Connected
  <2>4. \A s \in Streams : stream[s].state # "freed" => stream'[s].state # "freed"
    BY <2>1, StatesUpdated
  <2>5. ASSUME NEW s, Connected(scene, done, s)
        PROVE  Replaced(scene, done + 1, s)
    <3>1. PICK i \in 1 .. done : IsCall(scene, i, "connect", s)
      BY <2>5 DEF Connected
    <3>2. i \in 1 .. (done + 1) /\ done + 1 \in 1 .. (done + 1) /\ i < done + 1
      BY <1>1
    <3>3. scene.ops[done + 1].call = "connect"
      BY <2>2 DEF IsCall
    <3> QED
      BY <3>1, <3>2, <3>3 DEF Replaced
  <2>6. ASSUME NEW w \in inside' PROVE Standing(onto[w].on)'
    <3>1. PICK s : s = onto[w].on
      OBVIOUS
    <3>2. onto'[w].on = s /\ Standing(s)
      BY <2>1, <3>1, <2>6 DEF StreamInv
    <3>3. s \in Streams /\ stream'[s].state # "freed"
      BY <2>4, <3>2 DEF Standing
    <3>4. Replaced(scene, done + 1, s)
      <4>1. CASE s = active
        <5>1. active # None
          BY <3>3, <4>1
        <5> QED
          BY <2>5, <4>1, <5>1 DEF StreamInv
      <4>2. CASE Replaced(scene, done, s)
        BY <1>1, <4>2, CallsAdd
      <4> QED
        BY <2>1, <3>2, <4>1, <4>2 DEF Standing
    <3>5. Replaced(scene', done', s)
      BY <2>1, <3>4
    <3> QED
      BY <3>2, <3>3, <3>5 DEF Standing
  <2>7. op'.at \notin Connecting
    BY <2>1
  <2> QED
    BY <2>3, <2>6, <2>7 DEF StreamInv
<1> QED
  BY <1>2, <1>3, <1>4, <1>5, <1>6 DEF OpStep

LEMMA NewStreams ==
  ASSUME BridgeInv, StreamInv, BridgeInv', NEW seen,
         New(seen) \/ ConnectRing(seen) \/ Cork(seen) \/ FlushRing(seen)
  PROVE  StreamInv'
<1> USE DEF BridgeInv
<1>1. /\ op = Idle /\ done < Len(scene.ops) /\ done \in Nat
      /\ UNCHANGED <<scene, active, onto, inside>>
  BY DEF New, ConnectRing, Cork, FlushRing, Due, RingFlush, DaemonTypes, ringVars, callVars,
         writeVars
<1>2. op.at \notin Freeing
  BY <1>1 DEF Idle, Freeing
<1>3. /\ done' = done \/ done' = done + 1
      /\ op'.at \in Connecting => done' = done /\ IsCall(scene, done + 1, "connect", op'.on)
  BY DEF New, ConnectRing, Cork, FlushRing, Due, Returns, Goes, Idle, Connecting, IsCall, Item
<1>4. \A s \in Streams : stream[s].state # "freed" => stream'[s].state # "freed"
  <2>1. CASE New(seen)
    <3>1. stream' = [stream EXCEPT ![Item.on].state = "new"]
      BY <2>1 DEF New
    <3> QED
      BY <3>1, StatesUpdated
  <2>2. CASE Cork(seen)
    <3>1. stream' = [stream EXCEPT ![Item.on].corked = Item.corked]
      BY <2>2 DEF Cork
    <3> QED
      BY <3>1, StatesUpdated
  <2>3. CASE ConnectRing(seen) \/ FlushRing(seen)
    BY <2>3 DEF ConnectRing, FlushRing
  <2> QED
    BY <2>1, <2>2, <2>3
<1>5. done' \in Nat /\ done <= done'
  BY <1>1, <1>3
<1> QED
  BY <1>1, <1>2, <1>3, <1>4, <1>5, StreamsStand

\* A stream that is freed at once is neither active nor replaced: nobody writes
\* to it.
LEMMA TearDownStreams ==
  ASSUME BridgeInv, StreamInv, BridgeInv', Orderly(scene), NEW seen, TearDown(seen)
  PROVE  StreamInv'
<1> USE DEF BridgeInv
<1>1. PICK s : s = Item.on
  OBVIOUS
<1>2. PICK c : c = Item.call
  OBVIOUS
<1>3. /\ op = Idle /\ done < Len(scene.ops) /\ done \in Nat /\ Len(scene.ops) \in Nat
      /\ IsCall(scene, done + 1, c, s) /\ c \in {"disconnect", "unref"}
      /\ s \in Streams
  <2>1. op = Idle /\ done < Len(scene.ops) /\ c \in {"disconnect", "unref"}
    BY <1>2 DEF TearDown, Due, Item
  <2>2. s \in Streams
    BY <1>1, <2>1, SceneItems DEF IsOp, Item
  <2>3. Len(scene.ops) \in Nat /\ done \in Nat
    BY SceneAssumption DEF DaemonTypes
  <2> QED
    BY <1>1, <1>2, <2>1, <2>2, <2>3 DEF IsCall, Item
<1>4. /\ UNCHANGED <<scene, onto, inside>>
      /\ active' = IF c = "unref" /\ s = active THEN None ELSE active
      /\ stream' = [stream EXCEPT ![s].state =
                      IF c = "disconnect" THEN "terminated"
                      ELSE IF s = active THEN @ ELSE "freed"]
      /\ IF s = active THEN op' = [at |-> c, on |-> s] /\ done' = done
                       ELSE op' = Idle /\ done' = done + 1
  BY <1>1, <1>2 DEF TearDown, Goes, Returns, ringVars, callVars, writeVars
<1>5. op'.at \notin Connecting /\ op.at \notin Freeing /\ done' \in Nat /\ done <= done'
  BY <1>3, <1>4 DEF Idle, Connecting, Freeing
<1>6. active' # None => Connected(scene', done', active')
  <2>1. active' # None => active' = active
    BY <1>4
  <2> QED
    BY <1>3, <1>4, <1>5, <2>1, CallsAdd DEF StreamInv
<1>7. \A r \in Streams : r # s => stream'[r].state = stream[r].state
  BY <1>4 DEF DaemonTypes
<1>8. c = "disconnect" \/ s = active =>
        (stream[s].state # "freed" => stream'[s].state # "freed")
  BY <1>3, <1>4 DEF DaemonTypes, StreamRecs
<1>9. ASSUME NEW w \in inside' PROVE Standing(onto[w].on)'
  <2>1. PICK r : r = onto[w].on
    OBVIOUS
  <2>2. w \in inside /\ onto'[w].on = r
    BY <1>4, <1>9, <2>1
  <2>3. r \in Streams /\ stream[r].state # "freed" /\ (r = active \/ Replaced(scene, done, r))
    BY <1>5, <2>1, <2>2 DEF StreamInv, Standing
  <2>4. Replaced(scene, done, r) => Replaced(scene', done', r)
    BY <1>3, <1>4, <1>5, CallsAdd
  <2>5. stream'[r].state # "freed"
    <3>1. CASE r # s \/ c = "disconnect" \/ s = active
      BY <1>7, <1>8, <2>3, <3>1
    <3>2. CASE r = s /\ c = "unref" /\ s # active
      <4>1. PICK i, j \in 1 .. done :
              i < j /\ IsCall(scene, i, "connect", s) /\ scene.ops[j].call = "connect"
        BY <2>3, <3>2 DEF Replaced
      <4>2. /\ i \in 1 .. Len(scene.ops) /\ j \in 1 .. Len(scene.ops)
            /\ done + 1 \in 1 .. Len(scene.ops) /\ j < done + 1
        BY <1>3, <4>1
      <4> QED
        BY <1>3, <3>2, <4>1, <4>2 DEF Orderly, IsCall
    <3> QED
      BY <1>3, <3>1, <3>2
  <2>6. r = active' \/ (op'.at \in Freeing /\ op'.on = r) \/ Replaced(scene', done', r)
    BY <1>3, <1>4, <2>3, <2>4 DEF Freeing
  <2> QED
    BY <2>2, <2>3, <2>5, <2>6 DEF Standing
<1> QED
  BY <1>5, <1>6, <1>9 DEF StreamInv

LEMMA HttpStreams ==
  ASSUME BridgeInv, StreamInv, BridgeInv', HttpStep \/ PeerStep \/ TickStep
  PROVE  StreamInv'
<1> USE DEF BridgeInv
<1>1. UNCHANGED <<scene, active, stream, op, done, inside>> /\ \A w \in inside : onto'[w].on = onto[w].on
  <2>1. CASE HttpStep \/ PeerStep
    <3>1. HttpFrame
      <4>1. cap \in Nat
        BY DEF RelayTypes
      <4> QED
        BY <2>1, <4>1, HttpStepParts, ServeFrame, LoopFrame, DrainFrame, PeerFrame
    <3>2. inside' = inside
      BY <3>1, HttpRingMoves DEF HttpFrame, HttpRingMove
    <3> QED
      BY <3>1, <3>2 DEF HttpFrame, daemonVars, writeVars, opVars
  <2>2. CASE TickStep
    BY <2>2 DEF TickStep, AskWritable, SinkPlays, WindowCloses, ArmAges, KeepAges, RingClock,
         HoldAges, GapAges, SuppressLapses, ringVars, callVars, streamVars, daemonVars, writeVars,
         opVars
  <2> QED
    BY <2>1, <2>2
<1>2. op'.at \in Connecting =>
        done' < Len(scene.ops) /\ IsCall(scene, done' + 1, "connect", op'.on)
  BY <1>1 DEF StreamInv
<1>3. done \in Nat
  BY DEF DaemonTypes
<1> QED
  BY <1>1, <1>2, <1>3, StreamsStand

LEMMA StreamStep ==
  ASSUME BridgeInv, StreamInv, BridgeInv', Orderly(scene), [Next]_bridgeVars
  PROVE  StreamInv'
<1>1. CASE StreamSide
  BY <1>1, OpStepStreams, NewStreams, TearDownStreams, WriteStartStreams, WriterStreams, HttpStreams
     DEF StreamSide, OpStart, TickStep
<1>2. CASE HttpStep \/ PeerStep
  BY <1>2, HttpStreams
<1>3. CASE UNCHANGED bridgeVars
  <2>1. UNCHANGED <<scene, active, stream, op, done, inside, onto>>
    BY <1>3 DEF bridgeVars, ringVars, callVars, streamVars, daemonVars, writeVars, opVars
  <2> QED
    BY <2>1 DEF StreamInv, Standing
<1> QED
  BY <1>1, <1>2, <1>3 DEF Next, PeerStep

(* No stream is freed under a writer that is still inside pa_stream_write    *)
(* on it, for every daemon that frees a stream before it connects the next: *)
(* the teardown of the active stream waits until writers_in is 0, and one   *)
(* that is freed at once was never written to.  (The code keeps the promise *)
(* for the active stream only; a daemon that frees a stream it has replaced *)
(* is outside it.)                                                          *)
THEOREM NeverFreedUnderWriter ==
  ASSUME \A s \in Scenes : Orderly(s)
  PROVE  Spec => []NoWriterAfterFree
<1>1. Init => StreamInv
  BY DEF Init, RingInit, StreamInit, StreamInv, Idle, Connecting
<1>2. BridgeInv /\ StreamInv /\ BridgeInv' /\ [Next]_bridgeVars => StreamInv'
  <2>1. BridgeInv => Orderly(scene)
    BY DEF BridgeInv, DaemonTypes
  <2> QED
    BY <2>1, StreamStep
<1>3. StreamInv => NoWriterAfterFree
  BY DEF StreamInv, Standing, NoWriterAfterFree
<1> QED
  BY <1>1, <1>2, <1>3, BridgeInvariant, PTL DEF Spec

=============================================================================
