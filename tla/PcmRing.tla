------------------------------- MODULE PcmRing -------------------------------
(***************************************************************************)
(* The ring of the PCM bridge (fake-libpulse.c): the daemon's writer        *)
(* threads push converted audio, the HTTP thread pops it, a flush discards  *)
(* it.  Everything here happens under g_ring.lock, so each critical section *)
(* is one action; the places where a thread gives the lock away (a wait for *)
(* room, a batch of samples, the end of a write) are separate actions.      *)
(*                                                                          *)
(* A byte is its position in the stream: the ring holds the positions from  *)
(* total_popped up to total_pushed.  One unit stands for a block of bytes.  *)
(* A deadline that has passed is a flag that a clock action raises.         *)
(***************************************************************************)
EXTENDS Integers, FiniteSets

CONSTANTS
  Writers,      \* threads that may be inside pa_stream_write
  Capacity,     \* RING_CAPACITY
  Batch         \* bytes converted and pushed under one hold of the lock

ASSUME RingAssumption == Capacity \in Nat \ {0} /\ Batch \in Nat \ {0}

VARIABLES
  fill,         \* bytes held
  pushed,       \* total_pushed
  popped,       \* total_popped
  lastEmpty,    \* last_empty_pushed: where an empty ring was last refilled, or -1
  drops,        \* drops_total: bytes refused at the write ceiling
  flushedAway,  \* flushed_away: bytes a write gave up because of a flush
  epoch,        \* flush_epoch
  fired,        \* g_ring_underrun_fired: this empty streak was signalled
  told,         \* history: nothing was pushed and nothing flushed since the last signal
  connected,    \* client_connected
  holdAt,       \* hold_at: end of the old title while a gap hold stands, or -1
  holdOld,      \* the hold has stood for hold_max_ms
  emptyValid,   \* the ring was emptied by a pop of an attached client ...
  emptyLong,    \* ... at least hold_gap_ms ago
  suppress,     \* suppress_valid: the next hold is not armed ...
  suppressOver, \* ... unless hold_suppress_until_ms has passed
  expiredAt,    \* hold_expired_at: the hold of this client that timed out, or -1
  inside,       \* the threads counted by writers_in
  call          \* ring_write_t of each writer's pa_stream_write, and its progress

cursorVars == <<fill, pushed, popped, lastEmpty>>
countVars == <<drops, flushedAway>>
emptyVars == <<emptyValid, emptyLong>>
suppressVars == <<suppress, suppressOver>>
edgeVars == <<fired, told>>
holdVars == <<holdAt, holdOld, emptyVars, suppressVars, expiredAt>>
callVars == <<inside, call>>
ringVars == <<cursorVars, countVars, epoch, edgeVars, connected, holdVars, callVars>>

Least(a, b) == IF a < b THEN a ELSE b
Most(a, b) == IF a > b THEN a ELSE b

Places == {"out", "entered", "pushing", "waiting", "pushed"}

\* A pa_stream_write in progress: `left' of the current batch and `rest' of the
\* later ones are not yet in the ring, `done' are, `refused' found no room until
\* the ceiling and `dropped' were given up after a flush.
Calls == [at: Places, size: Nat, left: Nat, rest: Nat, done: Nat, refused: Nat,
          dropped: Nat, epoch: Nat, expired: BOOLEAN]

NoCall == [at |-> "out", size |-> 0, left |-> 0, rest |-> 0, done |-> 0,
           refused |-> 0, dropped |-> 0, epoch |-> 0, expired |-> FALSE]

RingInit ==
  /\ fill = 0 /\ pushed = 0 /\ popped = 0 /\ lastEmpty = -1
  /\ drops = 0 /\ flushedAway = 0
  /\ epoch = 0
  /\ fired = FALSE /\ told = FALSE
  /\ connected = FALSE
  /\ holdAt = -1 /\ holdOld = FALSE
  /\ emptyValid = FALSE /\ emptyLong = FALSE
  /\ suppress = FALSE /\ suppressOver = FALSE
  /\ expiredAt = -1
  /\ inside = {}
  /\ call = [w \in Writers |-> NoCall]

-----------------------------------------------------------------------------
(* pa_stream_write and _ring_push.                                          *)

\* The write registers and notes the flush epoch it belongs to.
Enter(w, n) ==
  /\ call[w].at = "out"
  /\ inside' = inside \cup {w}
  /\ call' = [call EXCEPT ![w] = [NoCall EXCEPT !.at = "entered", !.size = n,
                                                !.rest = n, !.epoch = epoch]]
  /\ UNCHANGED <<cursorVars, countVars, epoch, edgeVars, connected, holdVars>>

\* What is left of a call once its current batch is dealt with.
NextBatch(c) ==
  [c EXCEPT !.left = Least(c.rest, Batch),
            !.rest = c.rest - Least(c.rest, Batch),
            !.at = IF c.rest = 0 THEN "pushed" ELSE "pushing"]

\* _convert_and_push begins with the first batch.
Begin(w) ==
  /\ call[w].at = "entered"
  /\ call' = [call EXCEPT ![w] = NextBatch(call[w])]
  /\ UNCHANGED <<cursorVars, countVars, epoch, edgeVars, connected, holdVars, inside>>

Pushing(w) == call[w].at = "pushing" /\ call[w].left > 0

Current(w) == call[w].epoch = epoch
Full == fill = Capacity

\* Mutant: what a flush makes a write give up is not counted for its take-back.
GiveUpUncounted(c) == NextBatch(c)

GiveUp(c) == NextBatch([c EXCEPT !.dropped = c.dropped + c.left])
Refuse(c) == NextBatch([c EXCEPT !.refused = c.refused + c.left])

\* Mutant: the edge is never armed again.
RearmNever(f) == UNCHANGED fired

\* At the end of a batch: with audio in the ring a later empty ring is a new edge.
Rearm(f) == fired' = (fired /\ f = 0)

\* The ring was flushed, or the stream torn down, since the write began: the
\* rest of the batch is the old title's and is given up.
PushAbandon(w) ==
  /\ Pushing(w) /\ ~Current(w)
  /\ flushedAway' = flushedAway + call[w].left
  /\ call' = [call EXCEPT ![w] = GiveUp(call[w])]
  /\ Rearm(fill) /\ UNCHANGED told
  /\ UNCHANGED <<cursorVars, drops, epoch, connected, holdVars, inside>>

\* The ceiling was hit earlier in this call and there is still no room.
PushRefuse(w) ==
  /\ Pushing(w) /\ Current(w) /\ Full
  /\ call[w].expired
  /\ drops' = drops + call[w].left
  /\ call' = [call EXCEPT ![w] = Refuse(call[w])]
  /\ Rearm(fill) /\ UNCHANGED told
  /\ UNCHANGED <<cursorVars, flushedAway, epoch, connected, holdVars, inside>>

\* A full ring never discards: the writer waits on space_avail, without the lock.
PushWait(w) ==
  /\ Pushing(w) /\ Current(w) /\ Full
  /\ ~call[w].expired
  /\ call' = [call EXCEPT ![w] = [call[w] EXCEPT !.at = "waiting"]]
  /\ UNCHANGED <<cursorVars, countVars, epoch, edgeVars, connected, holdVars, inside>>

\* Mutant: every wait has a deadline of its own and the write goes back to sleep.
WaitExpiresEach(w) ==
  /\ call[w].at = "waiting"
  /\ call' = [call EXCEPT ![w] = [call[w] EXCEPT !.at = "pushing"]]
  /\ UNCHANGED <<cursorVars, countVars, epoch, edgeVars, connected, holdVars, inside>>

\* The deadline of the call passes while it waits.
WaitExpires(w) ==
  /\ call[w].at = "waiting"
  /\ call' = [call EXCEPT ![w] = [call[w] EXCEPT !.at = "pushing",
                                                 !.expired = (Full /\ Current(w))]]
  /\ UNCHANGED <<cursorVars, countVars, epoch, edgeVars, connected, holdVars, inside>>

\* The ring is refilled after a gap as long as a natural title end leaves, with
\* the client that emptied it still attached.
GapSeen == fill = 0 /\ connected /\ emptyValid /\ emptyLong /\ holdAt = -1

Suppressed == suppress /\ ~suppressOver

\* As much of the batch as there is room for goes in.  The first push into an
\* empty ring notes where the old content ended and, after a gap, arms a hold
\* there.  What finds no room waits, or is refused once the ceiling was hit.
PushChunk(w) ==
  LET n == Least(call[w].left, Capacity - fill)
      c == [call[w] EXCEPT !.left = call[w].left - n, !.done = call[w].done + n] IN
  /\ Pushing(w) /\ Current(w) /\ ~Full
  /\ fill' = fill + n
  /\ pushed' = pushed + n
  /\ lastEmpty' = IF fill = 0 THEN pushed ELSE lastEmpty
  /\ holdAt' = IF GapSeen /\ ~Suppressed THEN pushed ELSE holdAt
  /\ suppress' = (suppress /\ ~GapSeen)
  /\ suppressOver' = (suppressOver /\ ~GapSeen)
  /\ emptyValid' = FALSE /\ emptyLong' = FALSE
  /\ call' = [call EXCEPT ![w] = IF c.left = 0 THEN NextBatch(c)
                                 ELSE IF c.expired THEN Refuse(c)
                                 ELSE [c EXCEPT !.at = "waiting"]]
  /\ drops' = IF c.left > 0 /\ c.expired THEN drops + c.left ELSE drops
  /\ IF c.left > 0 /\ ~c.expired THEN UNCHANGED fired ELSE Rearm(fill + n)
  /\ told' = FALSE
  /\ UNCHANGED <<popped, flushedAway, epoch, connected, holdOld, expiredAt, inside>>

Push(w) == PushAbandon(w) \/ PushRefuse(w) \/ PushWait(w) \/ PushChunk(w)

\* The last access to the stream is over: the write is no longer counted.
Leave(w) ==
  /\ call[w].at = "pushed"
  /\ inside' = inside \ {w}
  /\ call' = [call EXCEPT ![w] = NoCall]
  /\ UNCHANGED <<cursorVars, countVars, epoch, edgeVars, connected, holdVars>>

\* pthread_cond_broadcast(&space_avail)
Woken == [w \in Writers |->
            IF call[w].at = "waiting" THEN [call[w] EXCEPT !.at = "pushing"] ELSE call[w]]

-----------------------------------------------------------------------------
(* _ring_pop_timed.                                                         *)

\* While a hold stands no pop takes a byte at or past the old title's end.
Takes(most) ==
  LET room == IF holdAt = -1 THEN most ELSE Least(most, Most(holdAt - popped, 0))
  IN  Least(room, fill)

\* A pop of an attached client that empties the ring starts the empty clock.
Pop(most) ==
  LET n == Takes(most) IN
  /\ n > 0
  /\ fill' = fill - n
  /\ popped' = popped + n
  /\ emptyValid' = (emptyValid \/ (fill' = 0 /\ connected))
  /\ emptyLong' = (emptyLong /\ ~(fill' = 0 /\ connected))
  /\ call' = Woken
  /\ UNCHANGED <<pushed, lastEmpty, countVars, epoch, edgeVars, connected, holdAt, holdOld,
                 suppressVars, expiredAt, inside>>

-----------------------------------------------------------------------------
(* _ring_flush, the teardown, and the ends of a hold.                       *)

\* _hold_release_locked: also ends any empty streak.
HoldEnds ==
  /\ holdAt' = -1 /\ holdOld' = FALSE
  /\ emptyValid' = FALSE /\ emptyLong' = FALSE

\* Mutant: the stream positions start again.
RingFlushRestarts ==
  /\ popped' = 0 /\ pushed' = 0
  /\ fill' = 0
  /\ lastEmpty' = -1
  /\ epoch' = epoch + 1
  /\ fired' = FALSE /\ told' = FALSE
  /\ HoldEnds
  /\ expiredAt' = -1
  /\ call' = Woken
  /\ UNCHANGED <<countVars, connected, suppressVars, inside>>

\* Everything held is discarded: total_popped moves on, so that the positions
\* stay those of the bytes that follow.
RingFlush ==
  /\ popped' = popped + fill
  /\ fill' = 0
  /\ lastEmpty' = -1
  /\ epoch' = epoch + 1
  /\ fired' = FALSE /\ told' = FALSE
  /\ HoldEnds
  /\ expiredAt' = -1
  /\ call' = Woken
  /\ UNCHANGED <<pushed, countVars, connected, suppressVars, inside>>

\* Mutant: a teardown does not broadcast space_avail.
ReleaseWritersQuietly ==
  /\ epoch' = epoch + 1
  /\ UNCHANGED <<cursorVars, countVars, edgeVars, connected, holdVars, callVars>>

\* _ring_release_writers_and_wait, up to its wait for writers_gone.
ReleaseWriters ==
  /\ epoch' = epoch + 1
  /\ call' = Woken
  /\ UNCHANGED <<cursorVars, countVars, edgeVars, connected, holdVars, inside>>

\* Mutant: the next client inherits the hold.
SetClientHeld(b) ==
  /\ connected' = b
  /\ expiredAt' = -1
  /\ UNCHANGED <<cursorVars, countVars, epoch, edgeVars, holdAt, holdOld, emptyVars,
                 suppressVars, callVars>>

\* _ring_set_client: a hold never outlives its client.
SetClient(b) ==
  /\ connected' = b
  /\ HoldEnds
  /\ expiredAt' = -1
  /\ UNCHANGED <<cursorVars, countVars, epoch, edgeVars, suppressVars, callVars>>

\* _hold_timeout_check, when the hold is due.
HoldTimeout ==
  /\ holdAt # -1 /\ holdOld
  /\ HoldEnds
  /\ expiredAt' = holdAt
  /\ UNCHANGED <<cursorVars, countVars, epoch, edgeVars, connected, suppressVars, callVars>>

\* A control request ends the hold that stands.
HoldRelease ==
  /\ holdAt # -1
  /\ HoldEnds
  /\ UNCHANGED <<cursorVars, countVars, epoch, edgeVars, connected, suppressVars, expiredAt, callVars>>

\* POST /boundary without a hold takes note of the one that timed out.
ForgetExpired ==
  /\ holdAt = -1
  /\ expiredAt' = -1
  /\ UNCHANGED <<cursorVars, countVars, epoch, edgeVars, connected, holdAt, holdOld, emptyVars,
                 suppressVars, callVars>>

\* POST /hold-release without a hold suppresses the next one for a while.
SuppressHold ==
  /\ holdAt = -1
  /\ suppress' = TRUE /\ suppressOver' = FALSE
  /\ UNCHANGED <<cursorVars, countVars, epoch, edgeVars, connected, holdAt, holdOld, emptyVars,
                 expiredAt, callVars>>

\* The drain loop signals an empty ring, once per empty streak.
Underrun ==
  /\ fill = 0 /\ ~fired
  /\ fired' = TRUE /\ told' = TRUE
  /\ UNCHANGED <<cursorVars, countVars, epoch, connected, holdVars, callVars>>

-----------------------------------------------------------------------------
(* The clock.                                                               *)

HoldAges ==
  /\ holdAt # -1 /\ ~holdOld /\ holdOld' = TRUE
  /\ UNCHANGED <<cursorVars, countVars, epoch, edgeVars, connected, holdAt, emptyVars,
                 suppressVars, expiredAt, callVars>>

GapAges ==
  /\ emptyValid /\ ~emptyLong /\ emptyLong' = TRUE
  /\ UNCHANGED <<cursorVars, countVars, epoch, edgeVars, connected, holdAt, holdOld, emptyValid,
                 suppressVars, expiredAt, callVars>>

SuppressLapses ==
  /\ suppress /\ ~suppressOver /\ suppressOver' = TRUE
  /\ UNCHANGED <<cursorVars, countVars, epoch, edgeVars, connected, holdAt, holdOld, emptyVars,
                 suppress, expiredAt, callVars>>

-----------------------------------------------------------------------------
RingNext ==
  \/ \E w \in Writers :
       \/ \E n \in Nat : Enter(w, n)
       \/ Begin(w) \/ Push(w) \/ WaitExpires(w) \/ Leave(w)
  \/ \E most \in Nat : Pop(most)
  \/ RingFlush \/ ReleaseWriters
  \/ \E b \in BOOLEAN : SetClient(b)
  \/ HoldTimeout \/ HoldRelease \/ ForgetExpired \/ SuppressHold \/ Underrun
  \/ HoldAges \/ GapAges \/ SuppressLapses

RingSpec == RingInit /\ [][RingNext]_ringVars

-----------------------------------------------------------------------------
Positions == Nat \cup {-1}

RingTypeOK ==
  /\ fill \in Nat /\ pushed \in Nat /\ popped \in Nat /\ lastEmpty \in Positions
  /\ drops \in Nat /\ flushedAway \in Nat /\ epoch \in Nat
  /\ fired \in BOOLEAN /\ told \in BOOLEAN /\ connected \in BOOLEAN
  /\ holdAt \in Positions /\ holdOld \in BOOLEAN
  /\ emptyValid \in BOOLEAN /\ emptyLong \in BOOLEAN
  /\ suppress \in BOOLEAN /\ suppressOver \in BOOLEAN
  /\ expiredAt \in Positions
  /\ inside \subseteq Writers
  /\ call \in [Writers -> Calls]

(* What a reader gets is never more than a writer put in: the two counters  *)
(* differ by what the ring holds, through pops and flushes alike, and the   *)
(* drain anchor of POST /boundary lies inside the stream (the invariant the *)
(* comment of _ring_flush asks for).                                        *)
RingCounts ==
  /\ pushed - popped = fill
  /\ fill <= Capacity
  /\ lastEmpty <= pushed

(* A standing hold keeps the read position exactly at the old title's end,  *)
(* with the client of that title attached; the empty clock runs only over   *)
(* an empty ring (_ring_push, _ring_pop_timed, _hold_release_locked).       *)
HoldFrozen ==
  /\ holdAt # -1 => popped = holdAt /\ connected /\ ~emptyValid
  /\ emptyValid => fill = 0 /\ connected

(* Every byte of a write in progress is in exactly one place: still to come,*)
(* in the ring's past, refused at the ceiling or given up; a writer counted *)
(* by writers_in is inside its call (_ring_push, pa_stream_write).          *)
WritesAccounted ==
  \A w \in Writers :
    LET c == call[w] IN
    /\ c.size = c.left + c.rest + c.done + c.refused + c.dropped
    /\ c.epoch <= epoch
    /\ w \in inside <=> c.at # "out"
    /\ c.at \in {"pushing", "waiting"} => c.left > 0
    /\ c.at = "pushed" => c.left = 0 /\ c.rest = 0
    /\ c.at \in {"out", "entered"} => c.left = 0 /\ c.done = 0
    /\ c.dropped > 0 => c.epoch < epoch

(* No writer sleeps although there is room or its ring was flushed: every    *)
(* pop, flush and teardown wakes the writers, and only a full ring of the   *)
(* write's own epoch lets one wait (_ring_push, space_avail).               *)
NoLostWakeup == \A w \in Writers : call[w].at = "waiting" => Full /\ Current(w)

(* A write that began before a flush or a teardown puts nothing more into   *)
(* the ring after it (flush_epoch in _ring_push).                           *)
StaleWriteSilent ==
  [][\A w \in Writers : call'[w].done > call[w].done => call[w].epoch = epoch]_ringVars

Fifo == INSTANCE PcmFifo WITH Size <- Capacity, in <- pushed, out <- popped
FifoSpec == Fifo!Spec
==============================================================================
