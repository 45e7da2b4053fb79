---------------------------- MODULE PcmRingProofs ----------------------------
(***************************************************************************)
(* The ring of the PCM bridge for any number of writers, any capacity and   *)
(* any batch.  The invariant has three parts that the actions disturb one    *)
(* at a time: the counters with the hold (Cursors), the calls in progress   *)
(* (CallsFit) and the set of counted writers (Counted).                     *)
(***************************************************************************)
EXTENDS PcmRing, TLAPS

USE RingAssumption DEF RingAssumption

Cursors ==
  /\ fill \in Nat /\ pushed \in Nat /\ popped \in Nat /\ lastEmpty \in Positions
  /\ drops \in Nat /\ flushedAway \in Nat /\ epoch \in Nat
  /\ fired \in BOOLEAN /\ told \in BOOLEAN /\ connected \in BOOLEAN
  /\ holdAt \in Positions /\ holdOld \in BOOLEAN
  /\ emptyValid \in BOOLEAN /\ emptyLong \in BOOLEAN
  /\ suppress \in BOOLEAN /\ suppressOver \in BOOLEAN
  /\ expiredAt \in Positions
  /\ RingCounts
  /\ HoldFrozen

\* What holds of a call of epoch at most e.
CallFits(c, e) ==
  /\ c \in Calls
  /\ c.size = c.left + c.rest + c.done + c.refused + c.dropped
  /\ c.epoch <= e
  /\ c.at \in {"pushing", "waiting"} => c.left > 0
  /\ c.at = "pushed" => c.left = 0 /\ c.rest = 0
  /\ c.at \in {"out", "entered"} => c.left = 0 /\ c.done = 0
  /\ c.dropped > 0 => c.epoch < e

CallsFit ==
  /\ call \in [Writers -> Calls]
  /\ \A w \in Writers : CallFits(call[w], epoch)
  /\ NoLostWakeup

Counted ==
  /\ inside \subseteq Writers
  /\ \A w \in Writers : w \in inside <=> call[w].at # "out"

RingInv == Cursors /\ CallsFit /\ Counted

-----------------------------------------------------------------------------
(* The parts of the invariant.                                              *)

LEMMA InvMeans ==
  ASSUME RingInv
  PROVE  RingTypeOK /\ RingCounts /\ HoldFrozen /\ WritesAccounted /\ NoLostWakeup
<1>1. WritesAccounted
  BY DEF RingInv, CallsFit, Counted, CallFits, WritesAccounted
<1>2. RingTypeOK
  BY DEF RingInv, Cursors, CallsFit, Counted, RingTypeOK
<1> QED
  BY <1>1, <1>2 DEF RingInv, Cursors, CallsFit

LEMMA NoCallFits ==
  ASSUME NEW e \in Nat
  PROVE  CallFits(NoCall, e)
<1>1. NoCall \in Calls
  BY DEF NoCall, Calls, Places
<1> QED
  BY <1>1 DEF NoCall, CallFits

\* The next batch comes out of the rest and is not empty as long as there is one.
LEMMA NextBatchFacts ==
  ASSUME NEW c \in Calls
  PROVE  LET b == NextBatch(c) IN
         /\ b \in Calls
         /\ b.left + b.rest = c.rest
         /\ b.size = c.size /\ b.done = c.done /\ b.epoch = c.epoch
         /\ b.refused = c.refused /\ b.dropped = c.dropped
         /\ b.at \in {"pushed", "pushing"}
         /\ b.at = "pushed" => b.left = 0 /\ b.rest = 0
         /\ b.at = "pushing" => b.left > 0
<1> DEFINE n == Least(c.rest, Batch)
           a == IF c.rest = 0 THEN "pushed" ELSE "pushing"
<1>1. c.rest \in Nat /\ n \in Nat /\ c.rest - n \in Nat /\ (c.rest = 0 => n = 0)
      /\ (c.rest > 0 => n > 0)
  BY DEF Calls, Least
<1>2. a \in Places
  BY DEF Places
<1>3. NextBatch(c) = [c EXCEPT !.left = n, !.rest = c.rest - n, !.at = a]
  BY DEF NextBatch
<1>4. NextBatch(c) \in Calls
  BY <1>1, <1>2, <1>3 DEF Calls
<1>5. /\ NextBatch(c).left = n /\ NextBatch(c).rest = c.rest - n /\ NextBatch(c).at = a
      /\ NextBatch(c).size = c.size /\ NextBatch(c).done = c.done
      /\ NextBatch(c).epoch = c.epoch /\ NextBatch(c).refused = c.refused
      /\ NextBatch(c).dropped = c.dropped
  BY <1>3 DEF Calls
<1> QED
  BY <1>1, <1>4, <1>5

\* A call whose batch is dealt with fits when its bytes are all accounted for.
LEMMA NextBatchFits ==
  ASSUME NEW c \in Calls, NEW e \in Nat, c.epoch <= e,
         c.size = c.rest + c.done + c.refused + c.dropped,
         c.dropped > 0 => c.epoch < e
  PROVE  /\ CallFits(NextBatch(c), e)
         /\ NextBatch(c).at \notin {"waiting", "out"}
         /\ NextBatch(c).done = c.done
         /\ NextBatch(c).epoch = c.epoch
<1> DEFINE b == NextBatch(c)
<1>1. /\ b \in Calls
      /\ b.left + b.rest = c.rest
      /\ b.size = c.size /\ b.done = c.done /\ b.epoch = c.epoch
      /\ b.refused = c.refused /\ b.dropped = c.dropped
      /\ b.at \in {"pushed", "pushing"}
      /\ b.at = "pushed" => b.left = 0 /\ b.rest = 0
      /\ b.at = "pushing" => b.left > 0
  BY NextBatchFacts
<1> HIDE DEF b
<1>2. /\ b.left \in Nat /\ b.rest \in Nat /\ b.done \in Nat /\ b.refused \in Nat
      /\ b.dropped \in Nat /\ b.size \in Nat /\ c.rest \in Nat
  BY <1>1 DEF Calls
<1>3. CallFits(b, e)
  BY <1>1, <1>2 DEF CallFits
<1> QED
  BY <1>1, <1>3 DEF b

\* One call changes; a writer that waits still has reason to.
LEMMA OneCall ==
  ASSUME CallsFit, epoch' = epoch, NEW w \in Writers, NEW c,
         call' = [call EXCEPT ![w] = c],
         CallFits(c, epoch),
         c.at = "waiting" => fill' = Capacity /\ c.epoch = epoch,
         fill' = fill \/ fill # Capacity
  PROVE  CallsFit'
<1>1. call' \in [Writers -> Calls]
  BY DEF CallsFit, CallFits
<1>2. \A v \in Writers : call'[v] = IF v = w THEN c ELSE call[v]
  BY DEF CallsFit
<1>3. \A v \in Writers : CallFits(call'[v], epoch')
  BY <1>2 DEF CallsFit
<1>4. ASSUME NEW v \in Writers, call'[v].at = "waiting"
      PROVE  fill' = Capacity /\ call'[v].epoch = epoch'
  <2>1. CASE v = w
    BY <2>1, <1>2, <1>4
  <2>2. CASE v # w
    <3>1. call[v].at = "waiting" /\ call'[v] = call[v]
      BY <2>2, <1>2, <1>4
    <3>2. fill = Capacity /\ call[v].epoch = epoch
      BY <3>1 DEF CallsFit, NoLostWakeup, Full, Current
    <3> QED
      BY <3>1, <3>2
  <2> QED
    BY <2>1, <2>2
<1>5. NoLostWakeup'
  BY <1>4 DEF NoLostWakeup, Full, Current
<1> QED
  BY <1>1, <1>3, <1>5 DEF CallsFit

\* The broadcast leaves nobody waiting and moves no byte.
LEMMA WokenFits ==
  ASSUME CallsFit, epoch \in Nat, epoch' \in Nat, epoch <= epoch', call' = Woken
  PROVE  /\ CallsFit'
         /\ \A w \in Writers : /\ call'[w].at = "out" <=> call[w].at = "out"
                               /\ call'[w].done = call[w].done
<1> DEFINE woken(w) == [call[w] EXCEPT !.at = "pushing"]
<1>1. ASSUME NEW w \in Writers
      PROVE  /\ CallFits(call'[w], epoch')
             /\ call'[w].at # "waiting"
             /\ call'[w].at = "out" <=> call[w].at = "out"
             /\ call'[w].done = call[w].done
  <2>1. call[w] \in Calls /\ CallFits(call[w], epoch)
    BY DEF CallsFit
  <2>2. CASE call[w].at = "waiting"
    <3>1. call'[w] = woken(w)
      BY <2>2 DEF Woken
    <3>2. /\ woken(w).at = "pushing" /\ woken(w).size = call[w].size
          /\ woken(w).left = call[w].left /\ woken(w).rest = call[w].rest
          /\ woken(w).done = call[w].done /\ woken(w).refused = call[w].refused
          /\ woken(w).dropped = call[w].dropped /\ woken(w).epoch = call[w].epoch
          /\ woken(w) \in Calls
      BY <2>1 DEF Calls, Places
    <3>3. call[w].epoch \in Nat
      BY <2>1 DEF Calls
    <3> HIDE DEF woken
    <3>4. CallFits(woken(w), epoch')
      BY <2>1, <2>2, <3>2, <3>3 DEF CallFits
    <3> QED
      BY <2>2, <3>1, <3>2, <3>4
  <2>3. CASE call[w].at # "waiting"
    <3>1. call'[w] = call[w]
      BY <2>3 DEF Woken
    <3>2. call[w].epoch \in Nat
      BY <2>1 DEF Calls
    <3>3. CallFits(call[w], epoch')
      BY <2>1, <3>2 DEF CallFits
    <3> QED
      BY <2>3, <3>1, <3>3
  <2> QED
    BY <2>2, <2>3
<1>2. call' \in [Writers -> Calls]
  <2>1. DOMAIN call' = Writers /\ call' = [w \in Writers |-> call'[w]]
    BY DEF Woken
  <2> QED
    BY <1>1, <2>1 DEF CallFits
<1>3. NoLostWakeup'
  BY <1>1 DEF NoLostWakeup
<1> QED
  BY <1>1, <1>2, <1>3 DEF CallsFit

\* Nothing of the calls or their reasons to wait changes.
LEMMA CallsStay ==
  ASSUME CallsFit, UNCHANGED <<call, epoch, fill>>
  PROVE  CallsFit'
BY DEF CallsFit, NoLostWakeup, Full, Current

-----------------------------------------------------------------------------
(* Every action keeps the invariant, lets no late byte in and moves the      *)
(* positions as the queue does.                                             *)

NoLateByte == \A w \in Writers : call'[w].done > call[w].done => call[w].epoch = epoch
QueueMove == [Fifo!Next]_<<pushed, popped>>
Sound == RingInv' /\ NoLateByte /\ QueueMove

\* A writer's step that leaves the ring alone.
LEMMA QuietCall ==
  ASSUME RingInv, UNCHANGED <<cursorVars, epoch, connected, holdVars>>,
         drops' \in Nat, flushedAway' \in Nat, fired' \in BOOLEAN, told' \in BOOLEAN,
         NEW w \in Writers, NEW c,
         call' = [call EXCEPT ![w] = c],
         CallFits(c, epoch),
         c.done <= call[w].done,
         c.at = "waiting" => Full /\ c.epoch = epoch,
         inside' \subseteq Writers,
         \A v \in Writers \ {w} : v \in inside' <=> v \in inside,
         w \in inside' <=> c.at # "out"
  PROVE  Sound
<1>1. Cursors'
  BY DEF RingInv, Cursors, RingCounts, HoldFrozen, cursorVars, holdVars, emptyVars, suppressVars
<1>2. CallsFit'
  BY OneCall DEF RingInv, cursorVars, Full
<1>3. \A v \in Writers : call'[v] = IF v = w THEN c ELSE call[v]
  BY DEF RingInv, CallsFit
<1>4. Counted'
  BY <1>3 DEF RingInv, Counted
<1>5. NoLateByte
  <2>1. c.done \in Nat /\ \A v \in Writers : call[v].done \in Nat
    BY DEF RingInv, CallsFit, CallFits, Calls
  <2> QED
    BY <1>3, <2>1 DEF NoLateByte
<1>6. QueueMove
  BY DEF QueueMove, cursorVars
<1> QED
  BY <1>1, <1>2, <1>4, <1>5, <1>6 DEF RingInv, Sound

LEMMA CallTypes ==
  ASSUME RingInv, NEW w \in Writers
  PROVE  LET c == call[w] IN
         /\ c \in Calls /\ CallFits(c, epoch)
         /\ c.left \in Nat /\ c.rest \in Nat /\ c.done \in Nat /\ c.refused \in Nat
         /\ c.dropped \in Nat /\ c.size \in Nat /\ c.epoch \in Nat
         /\ c.at \in Places /\ c.expired \in BOOLEAN
BY DEF RingInv, CallsFit, CallFits, Calls

LEMMA CountTypes ==
  ASSUME RingInv
  PROVE  /\ fill \in Nat /\ pushed \in Nat /\ popped \in Nat /\ drops \in Nat
         /\ flushedAway \in Nat /\ epoch \in Nat
         /\ fired \in BOOLEAN /\ told \in BOOLEAN
         /\ inside \subseteq Writers
         /\ \A v \in Writers : v \in inside <=> call[v].at # "out"
BY DEF RingInv, Cursors, Counted

LEMMA EnterSound ==
  ASSUME RingInv, NEW w \in Writers, NEW n \in Nat, Enter(w, n)
  PROVE  Sound
<1> DEFINE c == [NoCall EXCEPT !.at = "entered", !.size = n, !.rest = n, !.epoch = epoch]
<1>1. /\ NoCall \in Calls /\ epoch \in Nat
      /\ NoCall.left = 0 /\ NoCall.done = 0 /\ NoCall.refused = 0 /\ NoCall.dropped = 0
  BY NoCallFits, CountTypes DEF NoCall, CallFits
<1>2. call' = [call EXCEPT ![w] = c]
  BY DEF Enter
<1>3. /\ c \in Calls /\ c.at = "entered" /\ c.size = n /\ c.left = 0 /\ c.rest = n
      /\ c.done = 0 /\ c.refused = 0 /\ c.dropped = 0 /\ c.epoch = epoch
  BY <1>1 DEF Calls, Places
<1> HIDE DEF c
<1>4. CallFits(c, epoch) /\ c.at = "entered" /\ c.done = 0
  BY <1>1, <1>3 DEF CallFits
<1>5. 0 <= call[w].done
  BY CallTypes
<1>6. /\ drops' \in Nat /\ flushedAway' \in Nat /\ fired' \in BOOLEAN /\ told' \in BOOLEAN
      /\ inside' = inside \cup {w}
      /\ UNCHANGED <<cursorVars, epoch, connected, holdVars>>
  BY CountTypes DEF Enter, countVars, edgeVars
<1> QED
  BY <1>2, <1>4, <1>5, <1>6, CountTypes, QuietCall

\* The part of QuietCall that the steps inside a call share: the call goes on.
LEMMA QuietStep ==
  ASSUME RingInv, UNCHANGED <<cursorVars, epoch, connected, holdVars, inside>>,
         drops' \in Nat, flushedAway' \in Nat, fired' \in BOOLEAN, told' \in BOOLEAN,
         NEW w \in Writers, NEW c, call[w].at # "out", c.at # "out",
         call' = [call EXCEPT ![w] = c],
         CallFits(c, epoch),
         c.done = call[w].done,
         c.at = "waiting" => Full /\ c.epoch = epoch
  PROVE  Sound
<1>1. c.done <= call[w].done
  BY CallTypes
<1> QED
  BY <1>1, CountTypes, QuietCall

LEMMA BeginSound ==
  ASSUME RingInv, NEW w \in Writers, Begin(w)
  PROVE  Sound
<1> DEFINE c == call[w]
           b == NextBatch(c)
<1>1. /\ c.at = "entered" /\ c \in Calls /\ CallFits(c, epoch) /\ c.left = 0
      /\ c.size = c.rest + c.done + c.refused + c.dropped
  BY CallTypes DEF Begin, CallFits
<1>2. CallFits(b, epoch) /\ b.at \notin {"waiting", "out"} /\ b.done = c.done
  BY <1>1, CountTypes, NextBatchFits DEF CallFits
<1>3. call' = [call EXCEPT ![w] = b]
  BY DEF Begin
<1>4. /\ drops' \in Nat /\ flushedAway' \in Nat /\ fired' \in BOOLEAN /\ told' \in BOOLEAN
      /\ UNCHANGED <<cursorVars, epoch, connected, holdVars, inside>>
  BY CountTypes DEF Begin, countVars, edgeVars
<1> HIDE DEF b
<1> QED
  BY <1>1, <1>2, <1>3, <1>4, QuietStep

LEMMA PushAbandonSound ==
  ASSUME RingInv, NEW w \in Writers, PushAbandon(w)
  PROVE  Sound
<1> DEFINE c == call[w]
           d == [c EXCEPT !.dropped = c.dropped + c.left]
           b == NextBatch(d)
<1>1. /\ c \in Calls /\ CallFits(c, epoch) /\ c.at = "pushing" /\ c.epoch # epoch
      /\ c.left > 0
  BY CallTypes DEF PushAbandon, Pushing, Current
<1>2. /\ c.left \in Nat /\ c.rest \in Nat /\ c.done \in Nat /\ c.refused \in Nat
      /\ c.dropped \in Nat /\ c.size \in Nat /\ c.epoch \in Nat /\ epoch \in Nat
  BY CallTypes, CountTypes
<1>3. /\ d \in Calls /\ d.epoch = c.epoch /\ d.size = c.size /\ d.rest = c.rest
      /\ d.done = c.done /\ d.refused = c.refused /\ d.dropped = c.dropped + c.left
  BY <1>1, <1>2 DEF Calls
<1>4. call' = [call EXCEPT ![w] = b]
  BY DEF PushAbandon, GiveUp
<1> HIDE DEF d
<1>5. c.epoch < epoch /\ c.size = c.rest + c.done + c.refused + (c.dropped + c.left)
  <2>1. c.epoch <= epoch /\ c.size = c.left + c.rest + c.done + c.refused + c.dropped
    BY <1>1 DEF CallFits
  <2> HIDE DEF c
  <2> QED
    BY <1>1, <1>2, <2>1
<1>6. CallFits(b, epoch) /\ b.at \notin {"waiting", "out"} /\ b.done = c.done
  BY <1>2, <1>3, <1>5, NextBatchFits
<1>7. /\ drops' \in Nat /\ flushedAway' \in Nat /\ fired' \in BOOLEAN /\ told' \in BOOLEAN
      /\ UNCHANGED <<cursorVars, epoch, connected, holdVars, inside>>
  BY <1>2, CountTypes DEF PushAbandon, Rearm
<1> HIDE DEF b
<1> QED
  BY <1>1, <1>4, <1>6, <1>7, QuietStep

LEMMA RefuseFits ==
  ASSUME NEW c \in Calls, NEW e \in Nat, c.epoch = e,
         c.size = c.left + c.rest + c.done + c.refused + c.dropped,
         c.dropped > 0 => c.epoch < e
  PROVE  /\ CallFits(Refuse(c), e)
         /\ Refuse(c).at \notin {"waiting", "out"}
         /\ Refuse(c).done = c.done
<1> DEFINE d == [c EXCEPT !.refused = c.refused + c.left]
<1>1. /\ c.left \in Nat /\ c.rest \in Nat /\ c.done \in Nat /\ c.refused \in Nat
      /\ c.dropped \in Nat /\ c.size \in Nat /\ c.epoch \in Nat
  BY DEF Calls
<1>2. /\ d \in Calls /\ d.epoch = c.epoch /\ d.size = c.size /\ d.rest = c.rest
      /\ d.done = c.done /\ d.refused = c.refused + c.left /\ d.dropped = c.dropped
  BY <1>1 DEF Calls
<1>3. Refuse(c) = NextBatch(d)
  BY DEF Refuse
<1> HIDE DEF d
<1>4. c.size = c.rest + c.done + (c.refused + c.left) + c.dropped
  BY <1>1
<1> QED
  BY <1>1, <1>2, <1>3, <1>4, NextBatchFits

LEMMA PushRefuseSound ==
  ASSUME RingInv, NEW w \in Writers, PushRefuse(w)
  PROVE  Sound
<1> DEFINE c == call[w]
           b == Refuse(c)
<1>1. /\ c \in Calls /\ CallFits(c, epoch) /\ c.at = "pushing" /\ c.epoch = epoch
      /\ c.left \in Nat
  BY CallTypes DEF PushRefuse, Pushing, Current
<1>2. CallFits(b, epoch) /\ b.at \notin {"waiting", "out"} /\ b.done = c.done
  BY <1>1, CountTypes, RefuseFits DEF CallFits
<1>3. call' = [call EXCEPT ![w] = b]
  BY DEF PushRefuse
<1>4. /\ drops' \in Nat /\ flushedAway' \in Nat /\ fired' \in BOOLEAN /\ told' \in BOOLEAN
      /\ UNCHANGED <<cursorVars, epoch, connected, holdVars, inside>>
  BY <1>1, CountTypes DEF PushRefuse, Rearm
<1> HIDE DEF b
<1> QED
  BY <1>1, <1>2, <1>3, <1>4, QuietStep

\* Only where a call stands changes.
LEMMA MovedCall ==
  ASSUME NEW c, NEW e \in Nat, CallFits(c, e), NEW x \in BOOLEAN,
         c.at \in {"pushing", "waiting"}, NEW a \in {"pushing", "waiting"}
  PROVE  LET d == [c EXCEPT !.at = a, !.expired = x]
             f == [c EXCEPT !.at = a] IN
         /\ CallFits(d, e) /\ d.at = a /\ d.done = c.done /\ d.epoch = c.epoch
         /\ CallFits(f, e) /\ f.at = a /\ f.done = c.done /\ f.epoch = c.epoch
<1>1. c \in Calls
  BY DEF CallFits
<1>2. a \in Places
  BY DEF Places
<1> DEFINE d == [c EXCEPT !.at = a, !.expired = x]
           f == [c EXCEPT !.at = a]
<1>3. /\ d \in Calls /\ d.epoch = c.epoch /\ d.size = c.size /\ d.left = c.left
      /\ d.rest = c.rest /\ d.done = c.done /\ d.refused = c.refused
      /\ d.dropped = c.dropped /\ d.at = a
  BY <1>1, <1>2 DEF Calls
<1>4. /\ f \in Calls /\ f.epoch = c.epoch /\ f.size = c.size /\ f.left = c.left
      /\ f.rest = c.rest /\ f.done = c.done /\ f.refused = c.refused
      /\ f.dropped = c.dropped /\ f.at = a
  BY <1>1, <1>2 DEF Calls
<1> HIDE DEF d, f
<1>5. CallFits(d, e)
  BY <1>3 DEF CallFits
<1>6. CallFits(f, e)
  BY <1>4 DEF CallFits
<1> QED
  BY <1>3, <1>4, <1>5, <1>6 DEF d, f

LEMMA PushWaitSound ==
  ASSUME RingInv, NEW w \in Writers, PushWait(w)
  PROVE  Sound
<1> DEFINE c == call[w]
           b == [c EXCEPT !.at = "waiting"]
<1>1. CallFits(c, epoch) /\ c.at = "pushing" /\ c.epoch = epoch /\ Full
  BY CallTypes DEF PushWait, Pushing, Current
<1>2. CallFits(b, epoch) /\ b.at = "waiting" /\ b.done = c.done /\ b.epoch = c.epoch
  BY <1>1, CountTypes, MovedCall
<1>3. call' = [call EXCEPT ![w] = b]
  BY DEF PushWait
<1>4. /\ drops' \in Nat /\ flushedAway' \in Nat /\ fired' \in BOOLEAN /\ told' \in BOOLEAN
      /\ UNCHANGED <<cursorVars, epoch, connected, holdVars, inside>>
  BY CountTypes DEF PushWait, countVars, edgeVars
<1> HIDE DEF b
<1> QED
  BY <1>1, <1>2, <1>3, <1>4, QuietStep

LEMMA WaitExpiresSound ==
  ASSUME RingInv, NEW w \in Writers, WaitExpires(w)
  PROVE  Sound
<1> DEFINE c == call[w]
           x == Full /\ Current(w)
           b == [c EXCEPT !.at = "pushing", !.expired = x]
<1>1. CallFits(c, epoch) /\ c.at = "waiting"
  BY CallTypes DEF WaitExpires
<1>2. x \in BOOLEAN
  OBVIOUS
<1>4. call' = [call EXCEPT ![w] = b]
  BY DEF WaitExpires
<1> HIDE DEF x
<1>3. CallFits(b, epoch) /\ b.at = "pushing" /\ b.done = c.done
  BY <1>1, <1>2, CountTypes, MovedCall
<1>5. /\ drops' \in Nat /\ flushedAway' \in Nat /\ fired' \in BOOLEAN /\ told' \in BOOLEAN
      /\ UNCHANGED <<cursorVars, epoch, connected, holdVars, inside>>
  BY CountTypes DEF WaitExpires, countVars, edgeVars
<1> HIDE DEF b
<1> QED
  BY <1>1, <1>3, <1>4, <1>5, QuietStep

LEMMA LeaveSound ==
  ASSUME RingInv, NEW w \in Writers, Leave(w)
  PROVE  Sound
<1>1. /\ call' = [call EXCEPT ![w] = NoCall] /\ inside' = inside \ {w}
      /\ drops' \in Nat /\ flushedAway' \in Nat /\ fired' \in BOOLEAN /\ told' \in BOOLEAN
      /\ UNCHANGED <<cursorVars, epoch, connected, holdVars>>
  BY CountTypes DEF Leave, countVars, edgeVars
<1>2. NoCall.done = 0 /\ NoCall.at = "out"
  BY DEF NoCall
<1>3. CallFits(NoCall, epoch) /\ NoCall.done <= call[w].done
  BY <1>2, NoCallFits, CountTypes, CallTypes
<1> QED
  BY <1>1, <1>2, <1>3, CountTypes, QuietCall


\* The chunk that goes in leaves room or fills the ring up; only then is a
\* rest of the batch left to wait.
LEMMA PushChunkSound ==
  ASSUME RingInv, NEW w \in Writers, PushChunk(w)
  PROVE  Sound
<1> DEFINE k == call[w]
           n == Least(k.left, Capacity - fill)
           c == [k EXCEPT !.left = k.left - n, !.done = k.done + n]
           d == IF c.left = 0 THEN NextBatch(c) ELSE IF c.expired THEN Refuse(c)
                ELSE [c EXCEPT !.at = "waiting"]
<1>1. /\ k \in Calls /\ CallFits(k, epoch) /\ k.at = "pushing" /\ k.epoch = epoch
      /\ k.left > 0 /\ fill # Capacity
  BY CallTypes DEF PushChunk, Pushing, Current, Full
<1>2. /\ k.left \in Nat /\ k.rest \in Nat /\ k.done \in Nat /\ k.refused \in Nat
      /\ k.dropped \in Nat /\ k.size \in Nat /\ k.epoch \in Nat /\ k.expired \in BOOLEAN
  BY CallTypes
<1>3. /\ fill \in Nat /\ pushed \in Nat /\ popped \in Nat /\ drops \in Nat /\ epoch \in Nat
      /\ pushed - popped = fill /\ fill <= Capacity
  BY CountTypes DEF RingInv, Cursors, RingCounts
<1> HIDE DEF k
<1>4. /\ n \in Nat /\ n > 0 /\ n <= k.left /\ fill + n <= Capacity
      /\ n < k.left => fill + n = Capacity
  BY <1>1, <1>2, <1>3 DEF Least
<1> HIDE DEF n
<1>5. /\ c \in Calls /\ c.at = "pushing" /\ c.left = k.left - n /\ c.done = k.done + n
      /\ c.rest = k.rest /\ c.refused = k.refused /\ c.dropped = k.dropped
      /\ c.size = k.size /\ c.epoch = epoch /\ c.expired \in BOOLEAN
  <2>1. k.left - n \in Nat /\ k.done + n \in Nat
    BY <1>2, <1>4
  <2> QED
    BY <2>1, <1>1, <1>2 DEF Calls
<1>6. k.size = k.left + k.rest + k.done + k.refused + k.dropped /\ k.dropped = 0
  BY <1>1, <1>2, <1>3 DEF CallFits
<1>7. call' = [call EXCEPT ![w] = d] /\ fill' = fill + n /\ pushed' = pushed + n
  BY DEF PushChunk, k, n
<1>d. drops' = IF c.left > 0 /\ c.expired THEN drops + c.left ELSE drops
  BY DEF PushChunk, k, n
<1> HIDE DEF c
<1>8. c.left \in Nat /\ c.size = c.left + c.rest + c.done + c.refused + c.dropped /\ c.dropped = 0
  BY <1>2, <1>4, <1>5, <1>6
<1>9. /\ CallFits(d, epoch) /\ d.at # "out"
      /\ d.at = "waiting" => fill' = Capacity /\ d.epoch = epoch
  <2>1. CASE c.left = 0
    <3>1. d = NextBatch(c) /\ c.size = c.rest + c.done + c.refused + c.dropped
      BY <2>1, <1>2, <1>5, <1>8
    <3> HIDE DEF d
    <3>2. CallFits(NextBatch(c), epoch) /\ NextBatch(c).at \notin {"waiting", "out"}
      BY <3>1, <1>3, <1>5, <1>8, NextBatchFits
    <3> QED
      BY <3>1, <3>2
  <2>2. CASE c.left # 0 /\ c.expired
    <3>1. d = Refuse(c)
      BY <2>2
    <3> HIDE DEF d
    <3>2. CallFits(Refuse(c), epoch) /\ Refuse(c).at \notin {"waiting", "out"}
      BY <1>3, <1>5, <1>8, RefuseFits
    <3> QED
      BY <3>1, <3>2
  <2>3. CASE c.left # 0 /\ ~c.expired
    <3>1. d = [c EXCEPT !.at = "waiting"]
      BY <2>3
    <3>2. CallFits(c, epoch)
      BY <2>3, <1>3, <1>5, <1>8 DEF CallFits
    <3> HIDE DEF d
    <3>3. CallFits(d, epoch) /\ d.at = "waiting" /\ d.epoch = c.epoch
      BY <3>1, <3>2, <1>3, <1>5, MovedCall
    <3>4. fill' = Capacity
      BY <2>3, <1>2, <1>4, <1>5, <1>7
    <3> QED
      BY <3>3, <3>4, <1>5
  <2> QED
    BY <2>1, <2>2, <2>3
<1> HIDE DEF d
<1>10. CallsFit'
  BY <1>1, <1>7, <1>9, OneCall DEF RingInv, PushChunk
<1>11. Counted'
  <2>1. \A v \in Writers : call'[v] = IF v = w THEN d ELSE call[v]
    BY <1>7 DEF RingInv, CallsFit
  <2>2. inside' = inside
    BY DEF PushChunk
  <2> QED
    BY <2>1, <2>2, <1>1, <1>9 DEF RingInv, Counted, k
<1>12. Cursors'
  <2>1. /\ fill' \in Nat /\ pushed' \in Nat /\ fill' <= Capacity /\ pushed' - popped' = fill'
        /\ popped' = popped /\ fill' > 0 /\ pushed \in Positions
        /\ drops' \in Nat
    BY <1>3, <1>4, <1>7, <1>8, <1>d DEF PushChunk, Positions
  <2>2. lastEmpty' \in Positions /\ lastEmpty' <= pushed'
    BY <2>1, <1>3, <1>4, <1>7 DEF RingInv, Cursors, RingCounts, Positions, PushChunk
  <2>3. /\ suppress' \in BOOLEAN /\ suppressOver' \in BOOLEAN /\ fired' \in BOOLEAN
        /\ emptyValid' = FALSE /\ emptyLong' = FALSE /\ told' = FALSE
        /\ UNCHANGED <<popped, flushedAway, epoch, connected, holdOld, expiredAt>>
    <3>1. fired' = (fired /\ fill + n = 0) \/ fired' = fired
      BY DEF PushChunk, Rearm, n, k
    <3>2. suppress' = (suppress /\ ~GapSeen) /\ suppressOver' = (suppressOver /\ ~GapSeen)
      BY DEF PushChunk
    <3>3. suppress \in BOOLEAN /\ suppressOver \in BOOLEAN /\ fired \in BOOLEAN
      BY DEF RingInv, Cursors
    <3> QED
      BY <3>1, <3>2, <3>3 DEF PushChunk
  <2>4. holdAt' \in Positions /\ (holdAt' # -1 => popped' = holdAt' /\ connected')
    <3>1. CASE GapSeen /\ ~Suppressed
      <4>1. holdAt' = pushed /\ fill = 0 /\ connected
        BY <3>1 DEF PushChunk, GapSeen
      <4> QED
        BY <4>1, <2>1, <2>3, <1>3
    <3>2. CASE ~(GapSeen /\ ~Suppressed)
      <4>1. holdAt' = holdAt
        BY <3>2 DEF PushChunk
      <4> QED
        BY <4>1, <2>1, <2>3 DEF RingInv, Cursors, HoldFrozen
    <3> QED
      BY <3>1, <3>2
  <2>5. HoldFrozen'
    BY <2>3, <2>4 DEF HoldFrozen
  <2> QED
    BY <2>1, <2>2, <2>3, <2>4, <2>5 DEF RingInv, Cursors, RingCounts
<1>13. NoLateByte
  <2>1. \A v \in Writers \ {w} : call'[v] = call[v]
    BY <1>7 DEF RingInv, CallsFit
  <2>2. \A v \in Writers : call[v].done \in Nat
    BY CallTypes
  <2>3. ASSUME NEW v \in Writers, call'[v].done > call[v].done
        PROVE  call[v].epoch = epoch
    <3>1. CASE v = w
      BY <3>1, <1>1 DEF k
    <3>2. CASE v # w
      BY <3>2, <2>1, <2>2, <2>3
    <3> QED
      BY <3>1, <3>2
  <2> QED
    BY <2>3 DEF NoLateByte
<1>14. QueueMove
  <2>1. pushed' \in (pushed + 1) .. (popped + Capacity) /\ popped' = popped
    BY <1>3, <1>4, <1>7 DEF PushChunk
  <2> QED
    BY <2>1 DEF QueueMove, Fifo!Next, Fifo!Put
<1> QED
  BY <1>10, <1>11, <1>12, <1>13, <1>14 DEF RingInv, Sound

LEMMA PushSound ==
  ASSUME RingInv, NEW w \in Writers, Push(w)
  PROVE  Sound
BY PushAbandonSound, PushRefuseSound, PushWaitSound, PushChunkSound DEF Push

\* What a broadcast does to the calls.
LEMMA WokenSound ==
  ASSUME RingInv, epoch' \in Nat, epoch <= epoch', call' = Woken, UNCHANGED inside
  PROVE  CallsFit' /\ Counted' /\ NoLateByte
<1>1. epoch \in Nat /\ \A w \in Writers : call[w].done \in Nat
  BY CountTypes, CallTypes
<1>2. /\ CallsFit'
      /\ \A w \in Writers : /\ call'[w].at = "out" <=> call[w].at = "out"
                            /\ call'[w].done = call[w].done
  BY <1>1, WokenFits DEF RingInv
<1>3. Counted'
  BY <1>2 DEF RingInv, Counted
<1>4. NoLateByte
  BY <1>1, <1>2 DEF NoLateByte
<1> QED
  BY <1>2, <1>3, <1>4

\* A pop takes something only from a ring whose read position no hold keeps.
LEMMA PopSound ==
  ASSUME RingInv, NEW most \in Nat, Pop(most)
  PROVE  Sound
<1> DEFINE n == Takes(most)
<1>1. /\ fill \in Nat /\ pushed \in Nat /\ popped \in Nat /\ holdAt \in Positions
      /\ pushed - popped = fill /\ fill <= Capacity /\ epoch \in Nat
      /\ connected \in BOOLEAN /\ emptyValid \in BOOLEAN /\ emptyLong \in BOOLEAN
      /\ holdAt # -1 => popped = holdAt
      /\ emptyValid => fill = 0
  BY DEF RingInv, Cursors, RingCounts, HoldFrozen
<1>2. n > 0 /\ fill' = fill - n /\ popped' = popped + n /\ pushed' = pushed
  BY DEF Pop
<1>3. holdAt = -1 /\ n \in Nat /\ n <= fill
  <2>1. CASE holdAt = -1
    BY <2>1, <1>1 DEF Takes, Least
  <2>2. CASE holdAt # -1
    <3>1. n = 0
      BY <2>2, <1>1 DEF Takes, Least, Most
    <3> QED
      BY <3>1, <1>2
  <2> QED
    BY <2>1, <2>2
<1> HIDE DEF n
<1>4. CallsFit' /\ Counted' /\ NoLateByte
  BY <1>1, WokenSound DEF Pop
<1>5. fill' \in Nat /\ popped' \in Nat /\ pushed' - popped' = fill' /\ fill' <= Capacity
  BY <1>1, <1>2, <1>3
<1>6. ~emptyValid
  BY <1>1, <1>2, <1>3
<1>7. /\ emptyValid' \in BOOLEAN /\ emptyLong' \in BOOLEAN
      /\ emptyValid' => fill' = 0 /\ connected'
      /\ UNCHANGED <<pushed, lastEmpty, countVars, epoch, edgeVars, connected, holdAt, holdOld,
                     suppressVars, expiredAt>>
  <2>1. /\ emptyValid' = (emptyValid \/ (fill' = 0 /\ connected))
        /\ emptyLong' = (emptyLong /\ ~(fill' = 0 /\ connected))
        /\ UNCHANGED <<pushed, lastEmpty, countVars, epoch, edgeVars, connected, holdAt, holdOld,
                       suppressVars, expiredAt>>
    BY DEF Pop
  <2> QED
    BY <2>1, <1>1, <1>6
<1>8. Cursors'
  BY <1>2, <1>3, <1>5, <1>7 DEF RingInv, Cursors, RingCounts, HoldFrozen, countVars, edgeVars, suppressVars
<1>9. QueueMove
  <2>1. popped' \in (popped + 1) .. pushed
    BY <1>1, <1>2, <1>3
  <2> QED
    BY <2>1, <1>2 DEF QueueMove, Fifo!Next, Fifo!Take
<1> QED
  BY <1>4, <1>8, <1>9 DEF RingInv, Sound

LEMMA RingFlushSound ==
  ASSUME RingInv, RingFlush
  PROVE  Sound
<1>1. /\ fill \in Nat /\ pushed \in Nat /\ popped \in Nat /\ epoch \in Nat
      /\ pushed - popped = fill
  BY DEF RingInv, Cursors, RingCounts
<1>2. /\ popped' = popped + fill /\ fill' = 0 /\ lastEmpty' = -1 /\ epoch' = epoch + 1
      /\ fired' = FALSE /\ told' = FALSE /\ holdAt' = -1 /\ holdOld' = FALSE
      /\ emptyValid' = FALSE /\ emptyLong' = FALSE /\ expiredAt' = -1
      /\ UNCHANGED <<pushed, countVars, connected, suppressVars, inside>>
  BY DEF RingFlush, HoldEnds
<1>3. CallsFit' /\ Counted' /\ NoLateByte
  <2>1. epoch' \in Nat /\ epoch <= epoch'
    BY <1>1, <1>2
  <2> QED
    BY <2>1, <1>2, WokenSound DEF RingFlush
<1>4. /\ popped' = pushed' /\ epoch' \in Nat /\ pushed' \in Nat /\ lastEmpty' <= pushed'
      /\ pushed' - popped' = 0 /\ -1 \in Positions
  BY <1>1, <1>2 DEF Positions
<1>5. Cursors'
  <2>1. HoldFrozen'
    BY <1>2 DEF HoldFrozen
  <2>2. RingCounts'
    BY <1>2, <1>4 DEF RingCounts
  <2> QED
    BY <2>1, <2>2, <1>2, <1>4 DEF RingInv, Cursors, countVars, suppressVars
<1>6. QueueMove
  <2>1. CASE fill = 0
    BY <2>1, <1>1, <1>2 DEF QueueMove
  <2>2. CASE fill # 0
    <3>1. popped' \in (popped + 1) .. pushed
      BY <2>2, <1>1, <1>2
    <3> QED
      BY <3>1, <1>2 DEF QueueMove, Fifo!Next, Fifo!Take
  <2> QED
    BY <2>1, <2>2
<1> QED
  BY <1>3, <1>5, <1>6 DEF RingInv, Sound

LEMMA ReleaseWritersSound ==
  ASSUME RingInv, ReleaseWriters
  PROVE  Sound
<1>1. epoch \in Nat /\ epoch' = epoch + 1 /\ call' = Woken
      /\ UNCHANGED <<cursorVars, countVars, edgeVars, connected, holdVars, inside>>
  BY CountTypes DEF ReleaseWriters
<1>2. epoch' \in Nat /\ epoch <= epoch'
  BY <1>1
<1>3. CallsFit' /\ Counted' /\ NoLateByte
  BY <1>1, <1>2, WokenSound
<1>4. Cursors'
  BY <1>1, <1>2 DEF RingInv, Cursors, RingCounts, HoldFrozen, cursorVars, countVars, edgeVars,
                    holdVars, emptyVars, suppressVars
<1>5. QueueMove
  BY <1>1 DEF QueueMove, cursorVars
<1> QED
  BY <1>3, <1>4, <1>5 DEF RingInv, Sound

\* The steps that move no byte and no call.
LEMMA HoldSound ==
  ASSUME RingInv,
         UNCHANGED <<cursorVars, countVars, epoch, callVars>>,
         fired' \in BOOLEAN, told' \in BOOLEAN, connected' \in BOOLEAN,
         holdAt' \in Positions, holdOld' \in BOOLEAN, expiredAt' \in Positions,
         emptyValid' \in BOOLEAN, emptyLong' \in BOOLEAN,
         suppress' \in BOOLEAN, suppressOver' \in BOOLEAN,
         HoldFrozen'
  PROVE  Sound
<1>1. Cursors'
  BY DEF RingInv, Cursors, RingCounts, cursorVars, countVars
<1>2. CallsFit' /\ Counted'
  BY CallsStay DEF RingInv, Counted, cursorVars, callVars
<1>3. NoLateByte
  <2>1. \A w \in Writers : call[w].done \in Nat
    BY CallTypes
  <2> QED
    BY <2>1 DEF NoLateByte, callVars
<1>4. QueueMove
  BY DEF QueueMove, cursorVars
<1> QED
  BY <1>1, <1>2, <1>3, <1>4 DEF RingInv, Sound

\* The end of a hold, the events of a client and the clocks.
HoldStep ==
  \/ \E b \in BOOLEAN : SetClient(b)
  \/ HoldTimeout \/ HoldRelease \/ ForgetExpired \/ SuppressHold \/ Underrun
  \/ HoldAges \/ GapAges \/ SuppressLapses

LEMMA HoldStepSound ==
  ASSUME RingInv, HoldStep
  PROVE  Sound
<1> USE DEF cursorVars, countVars, callVars, holdVars, edgeVars, emptyVars, suppressVars
<1>1. -1 \in Positions
  BY DEF Positions
<1>2. /\ fired \in BOOLEAN /\ told \in BOOLEAN /\ connected \in BOOLEAN
      /\ holdAt \in Positions /\ holdOld \in BOOLEAN /\ expiredAt \in Positions
      /\ emptyValid \in BOOLEAN /\ emptyLong \in BOOLEAN
      /\ suppress \in BOOLEAN /\ suppressOver \in BOOLEAN
      /\ HoldFrozen
  BY DEF RingInv, Cursors
<1>3. CASE \E b \in BOOLEAN : SetClient(b)
  BY <1>1, <1>2, <1>3, HoldSound DEF SetClient, HoldEnds, HoldFrozen
<1>4. CASE HoldTimeout
  BY <1>1, <1>2, <1>4, HoldSound DEF HoldTimeout, HoldEnds, HoldFrozen
<1>5. CASE HoldRelease
  BY <1>1, <1>2, <1>5, HoldSound DEF HoldRelease, HoldEnds, HoldFrozen
<1>6. CASE ForgetExpired
  BY <1>1, <1>2, <1>6, HoldSound DEF ForgetExpired, HoldFrozen
<1>7. CASE SuppressHold
  BY <1>1, <1>2, <1>7, HoldSound DEF SuppressHold, HoldFrozen
<1>8. CASE Underrun
  BY <1>1, <1>2, <1>8, HoldSound DEF Underrun, HoldFrozen
<1>9. CASE HoldAges
  BY <1>1, <1>2, <1>9, HoldSound DEF HoldAges, HoldFrozen
<1>10. CASE GapAges
  BY <1>1, <1>2, <1>10, HoldSound DEF GapAges, HoldFrozen
<1>11. CASE SuppressLapses
  BY <1>1, <1>2, <1>11, HoldSound DEF SuppressLapses, HoldFrozen
<1> QED
  BY <1>3, <1>4, <1>5, <1>6, <1>7, <1>8, <1>9, <1>10, <1>11 DEF HoldStep

LEMMA StutterSound ==
  ASSUME RingInv, UNCHANGED ringVars
  PROVE  Sound
<1>1. /\ fired \in BOOLEAN /\ told \in BOOLEAN /\ connected \in BOOLEAN
      /\ holdAt \in Positions /\ holdOld \in BOOLEAN /\ expiredAt \in Positions
      /\ emptyValid \in BOOLEAN /\ emptyLong \in BOOLEAN
      /\ suppress \in BOOLEAN /\ suppressOver \in BOOLEAN
      /\ HoldFrozen
  BY DEF RingInv, Cursors
<1> QED
  BY <1>1, HoldSound DEF ringVars, cursorVars, countVars, callVars, holdVars, edgeVars,
                         emptyVars, suppressVars, HoldFrozen

-----------------------------------------------------------------------------
LEMMA InitSound == RingInit => RingInv
<1> SUFFICES ASSUME RingInit PROVE RingInv
  OBVIOUS
<1>1. NoCall.at = "out" /\ NoCall \in Calls /\ CallFits(NoCall, 0)
  BY NoCallFits DEF NoCall, CallFits
<1>2. call = [w \in Writers |-> NoCall] /\ epoch = 0 /\ inside = {}
  BY DEF RingInit
<1>3. CallsFit /\ Counted
  BY <1>1, <1>2 DEF CallsFit, Counted, NoLostWakeup
<1>4. Cursors
  <2>1. HoldFrozen
    BY DEF RingInit, HoldFrozen
  <2>2. RingCounts
    BY DEF RingInit, RingCounts
  <2> QED
    BY <2>1, <2>2 DEF RingInit, Cursors, Positions
<1> QED
  BY <1>3, <1>4 DEF RingInv

LEMMA StepSound == RingInv /\ [RingNext]_ringVars => Sound
<1> SUFFICES ASSUME RingInv, [RingNext]_ringVars PROVE Sound
  OBVIOUS
<1>1. CASE \E w \in Writers : \/ \E n \in Nat : Enter(w, n)
                              \/ Begin(w) \/ Push(w) \/ WaitExpires(w) \/ Leave(w)
  BY <1>1, EnterSound, BeginSound, PushSound, WaitExpiresSound, LeaveSound
<1>2. CASE \E most \in Nat : Pop(most)
  BY <1>2, PopSound
<1>3. CASE RingFlush \/ ReleaseWriters
  BY <1>3, RingFlushSound, ReleaseWritersSound
<1>4. CASE HoldStep
  BY <1>4, HoldStepSound
<1>5. CASE UNCHANGED ringVars
  BY <1>5, StutterSound
<1> QED
  BY <1>1, <1>2, <1>3, <1>4, <1>5 DEF RingNext, HoldStep

LEMMA RingInvariant == RingSpec => []RingInv
<1>1. RingInv /\ [RingNext]_ringVars => RingInv'
  BY StepSound DEF Sound
<1> QED
  BY <1>1, InitSound, PTL DEF RingSpec

\* The positions of the stream never go back.
LEMMA Onward ==
  ASSUME RingInv, [RingNext]_ringVars
  PROVE  /\ RingInv' /\ popped <= popped' /\ pushed <= pushed'
         /\ popped \in Nat /\ pushed \in Nat /\ popped' \in Nat /\ pushed' \in Nat
         /\ popped <= pushed /\ popped' <= pushed'
<1>1. RingInv' /\ QueueMove
  BY StepSound DEF Sound
<1>2. /\ popped \in Nat /\ pushed \in Nat /\ popped' \in Nat /\ pushed' \in Nat
      /\ fill \in Nat /\ fill' \in Nat
      /\ pushed - popped = fill /\ pushed' - popped' = fill'
  BY <1>1 DEF RingInv, Cursors, RingCounts
<1>3. popped <= popped' /\ pushed <= pushed'
  <2>1. CASE pushed' \in (pushed + 1) .. (popped + Capacity) /\ popped' = popped
    BY <2>1, <1>2
  <2>2. CASE popped' \in (popped + 1) .. pushed /\ pushed' = pushed
    BY <2>2, <1>2
  <2>3. CASE UNCHANGED <<pushed, popped>>
    BY <2>3, <1>2
  <2> QED
    <3>1. Fifo!Put \/ Fifo!Take \/ UNCHANGED <<pushed, popped>>
      BY <1>1 DEF QueueMove, Fifo!Next
    <3>2. CASE Fifo!Put
      BY <3>2, <2>1 DEF Fifo!Put
    <3>3. CASE Fifo!Take
      BY <3>3, <2>2 DEF Fifo!Take
    <3> QED
      BY <3>1, <3>2, <3>3, <2>3
<1>4. popped <= pushed /\ popped' <= pushed'
  <2>1. ASSUME NEW a \in Nat, NEW b \in Nat, NEW c \in Nat, a - b = c
        PROVE  b <= a
    BY <2>1
  <2>2. popped <= pushed
    BY <2>1, <1>2, Zenon
  <2>3. popped' <= pushed'
    BY <2>1, <1>2, Zenon
  <2> QED
    BY <2>2, <2>3
<1>5. RingInv'
  BY <1>1
<1>6. /\ popped \in Nat /\ pushed \in Nat /\ popped' \in Nat /\ pushed' \in Nat
  BY <1>2
<1> QED
  BY <1>3, <1>4, <1>5, <1>6, Zenon

-----------------------------------------------------------------------------
(* The theorems of the ring by itself.                                      *)

\* Every variable of the ring stays of its type (ring_buffer_t, ring_write_t).
THEOREM RingTypeCorrect == RingSpec => []RingTypeOK
<1>1. RingInv => RingTypeOK
  BY InvMeans
<1> QED
  BY <1>1, RingInvariant, PTL

\* The counters of pushes and pops differ by what the ring holds, for any
\* number of writers and any capacity (_ring_push, _ring_pop_timed, _ring_flush).
THEOREM RingCountsHold == RingSpec => []RingCounts
<1>1. RingInv => RingCounts
  BY InvMeans
<1> QED
  BY <1>1, RingInvariant, PTL

\* While a hold stands, the read position stays at the old title's end
\* (_ring_pop_timed, _hold_release_locked).
THEOREM RingHoldFrozen == RingSpec => []HoldFrozen
<1>1. RingInv => HoldFrozen
  BY InvMeans
<1> QED
  BY <1>1, RingInvariant, PTL

\* No byte of a write is lost or counted twice (_ring_push, pa_stream_write).
THEOREM RingWritesAccounted == RingSpec => []WritesAccounted
<1>1. RingInv => WritesAccounted
  BY InvMeans
<1> QED
  BY <1>1, RingInvariant, PTL

\* No writer sleeps without a reason (space_avail).
THEOREM RingNoLostWakeup == RingSpec => []NoLostWakeup
<1>1. RingInv => NoLostWakeup
  BY InvMeans
<1> QED
  BY <1>1, RingInvariant, PTL

\* No write puts a byte into the ring after a flush that came after its start
\* (flush_epoch).
THEOREM RingStaleWriteSilent == RingSpec => StaleWriteSilent
<1>1. RingInv /\ [RingNext]_ringVars => [NoLateByte]_ringVars
  BY StepSound DEF Sound
<1>2. [NoLateByte]_ringVars =>
        [\A w \in Writers : call'[w].done > call[w].done => call[w].epoch = epoch]_ringVars
  BY DEF NoLateByte
<1> QED
  BY <1>1, <1>2, RingInvariant, PTL DEF RingSpec, StaleWriteSilent

\* The ring implements the bounded queue that the bridge promises: pushes enter
\* while there is room, pops leave in order, a flush takes everything.
THEOREM RingIsQueue == RingSpec => FifoSpec
<1>1. RingInit => Fifo!Init
  BY DEF RingInit, Fifo!Init
<1>2. RingInv /\ [RingNext]_ringVars => [Fifo!Next]_(Fifo!fifoVars)
  BY StepSound DEF Sound, QueueMove, Fifo!fifoVars
<1> QED
  BY <1>1, <1>2, RingInvariant, PTL DEF RingSpec, FifoSpec, Fifo!Spec

=============================================================================
