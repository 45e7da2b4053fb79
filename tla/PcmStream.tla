------------------------------ MODULE PcmStream ------------------------------
(***************************************************************************)
(* The daemon's side of the PCM bridge (fake-libpulse.c): the pa_stream     *)
(* calls of the daemon, the virtual sink behind them, and the atomics a     *)
(* flush shares with the HTTP thread.  One thread of the daemon makes the   *)
(* calls that change the stream (`op' is the one in progress); its writer   *)
(* threads are those of PcmRing.  A scene says which calls are made.        *)
(***************************************************************************)
EXTENDS PcmRing, Sequences

CONSTANTS
  Streams,      \* the streams the daemon creates
  None,         \* no stream
  SinkSize,     \* bytes the virtual sink holds (T), 0 = off
  Margin,       \* RING_WRITE_MARGIN
  ArmMax        \* SEEK_FLUSH_ARMED_MAX

ASSUME StreamAssumption ==
  /\ None \notin Streams
  /\ SinkSize \in Nat /\ Margin \in Nat /\ ArmMax \in Nat \ {0}

VARIABLES
  scene,        \* what the daemon, its server and the player do (constant)
  active,       \* g_active_stream
  stream,       \* the streams
  q,            \* g_vsink.q_out
  running,      \* g_vsink.running
  granted,      \* g_last_writable_reported
  onto,         \* the stream each write is for, and whether it keeps to `granted'
  op,           \* the call of the daemon in progress
  done,         \* calls of the scene that have returned
  begun,        \* writes of the scene that were started
  flag,         \* g_flush_disconnect
  window,       \* the decision window: no deadline, before it, after it
  armed,        \* g_seek_flush_armed
  armOld,       \* SEEK_ARM_TTL_MS have passed since the last arm
  keepPending,  \* g_flush_keep_pending
  keepFresh,    \* less than SEEK_KEEP_ARM_WINDOW_MS since g_flush_keep_at
  browseKeep,   \* g_browse_keep
  boundary,     \* g_boundary_at_pushed
  resetAt       \* history: total_pushed when the sink was last emptied

sinkVars == <<q, running, resetAt>>
writeVars == <<granted, onto, begun>>
opVars == <<op, done>>
flushVars == <<flag, window, armed, armOld, keepPending, keepFresh>>
daemonVars == <<scene, active, stream, sinkVars, writeVars, opVars>>
sharedVars == <<flushVars, browseKeep, boundary>>
streamVars == <<daemonVars, sharedVars>>

NoStream == [state |-> "none", corked |-> FALSE, started |-> FALSE, written |-> 0]
Idle == [at |-> "idle", on |-> None]
NoWrite == [on |-> None, paced |-> FALSE]

StreamInit ==
  /\ active = None
  /\ stream = [s \in Streams |-> NoStream]
  /\ q = 0 /\ running = FALSE /\ resetAt = 0
  /\ granted = 0
  /\ onto = [w \in Writers |-> NoWrite]
  /\ op = Idle /\ done = 0
  /\ begun = 0
  /\ flag = FALSE /\ window = "none"
  /\ armed = 0 /\ armOld = FALSE
  /\ keepPending = FALSE /\ keepFresh = FALSE
  /\ browseKeep = FALSE
  /\ boundary = -1

\* What an item of the scene waits for has happened; `seen' counts it.
Met(item, seen) == \A k \in DOMAIN item.needs : seen[k] >= item.needs[k]

-----------------------------------------------------------------------------
(* The virtual sink.                                                        *)

SinkOn == SinkSize > 0

\* _vsink_reset_locked
SinkReset == q' = 0 /\ resetAt' = pushed

\* _vsink_settle_locked: the sink plays while the stream is uncorked.
SinkPlays ==
  /\ running /\ q > 0
  /\ q' = q - 1
  /\ UNCHANGED <<ringVars, scene, active, stream, running, resetAt, writeVars, opVars, sharedVars>>

\* Mutant: no reserve.
WritableAll ==
  LET free == Capacity - fill IN
  IF SinkOn THEN Least(free, Most(SinkSize - q, 0)) ELSE free

\* pa_stream_writable_size: never more than the room in the ring, short of the
\* margin, and in the sink.
Writable ==
  LET free == Most(Capacity - fill - Margin, 0) IN
  IF SinkOn THEN Least(free, Most(SinkSize - q, 0)) ELSE free

Live == active # None /\ stream[active].state = "ready"

AskWritable ==
  /\ Live /\ op = Idle /\ inside = {}
  /\ "ask" \in scene.may /\ begun < Len(scene.writes)
  /\ granted' = Writable
  /\ UNCHANGED <<ringVars, scene, active, stream, sinkVars, onto, begun, opVars, sharedVars>>

-----------------------------------------------------------------------------
(* pa_stream_write.                                                         *)

\* The next write of the scene, on the live stream; the daemon starts none while
\* its own flush or teardown call runs.  It paces itself if it writes once per
\* answer of pa_stream_writable_size, no more than that and the reserve.
WriteStart(seen) ==
  LET next == scene.writes[begun + 1] IN
  /\ Live /\ op = Idle
  /\ begun < Len(scene.writes)
  /\ Met(next, seen)
  /\ Enter(next.by, next.size)
  /\ begun' = begun + 1
  /\ granted' = 0
  /\ LET paced == granted > 0 /\ next.size <= granted + Margin /\ inside = {} IN
     onto' = [v \in Writers |->
                IF v = next.by THEN [on |-> active, paced |-> paced]
                ELSE [onto[v] EXCEPT !.paced = FALSE]]
  /\ UNCHANGED <<scene, active, stream, sinkVars, opVars, sharedVars>>

\* The started callback runs once; the sink counts the bytes before they land.
WriteAdmit(w) ==
  /\ Begin(w)
  /\ stream' = [stream EXCEPT ![onto[w].on].started = TRUE]
  /\ q' = IF SinkOn THEN q + call[w].size ELSE q
  /\ UNCHANGED <<scene, active, running, resetAt, writeVars, opVars, sharedVars>>

WritePush(w) == (Push(w) \/ WaitExpires(w)) /\ UNCHANGED streamVars

\* Mutant: the sink keeps the bytes a flush made the write give up.
WriteEndUnpaid(w) ==
  /\ Leave(w)
  /\ q' = IF SinkOn THEN Most(q - call[w].refused, 0) ELSE q
  /\ stream' = [stream EXCEPT ![onto[w].on].written = @ + call[w].size]
  /\ onto' = [onto EXCEPT ![w] = NoWrite]
  /\ UNCHANGED <<scene, active, running, resetAt, granted, begun, opVars, sharedVars>>

\* What the ring did not take is taken back from the sink; the write counts as
\* written and leaves.
WriteEnd(w) ==
  LET lost == call[w].refused + call[w].dropped IN
  /\ Leave(w)
  /\ q' = IF SinkOn THEN Most(q - lost, 0) ELSE q
  /\ stream' = [stream EXCEPT ![onto[w].on].written = @ + call[w].size]
  /\ onto' = [onto EXCEPT ![w] = NoWrite]
  /\ UNCHANGED <<scene, active, running, resetAt, granted, begun, opVars, sharedVars>>

-----------------------------------------------------------------------------
(* The calls of the daemon, in the order of the scene.                      *)

\* The next call of the scene is c, and what it waits for has happened.
Due(c, seen) ==
  /\ op = Idle
  /\ done < Len(scene.ops)
  /\ scene.ops[done + 1].call = c
  /\ Met(scene.ops[done + 1], seen)

Item == scene.ops[done + 1]

Returns == op' = Idle /\ done' = done + 1
Goes(at, s) == op' = [at |-> at, on |-> s] /\ UNCHANGED done

New(seen) ==
  LET s == Item.on IN
  /\ Due("new", seen)
  /\ stream[s].state = "none"
  /\ stream' = [stream EXCEPT ![s].state = "new"]
  /\ Returns
  /\ UNCHANGED <<ringVars, scene, active, sinkVars, writeVars, sharedVars>>

\* pa_stream_connect_playback flushes what an earlier stream left,
ConnectRing(seen) ==
  /\ Due("connect", seen)
  /\ stream[Item.on].state = "new"
  /\ RingFlush /\ SinkReset
  /\ Goes("connectMarker", Item.on)
  /\ UNCHANGED <<scene, active, stream, running, writeVars, sharedVars>>

\* drops the marker of an earlier session,
ConnectMarker ==
  /\ op.at = "connectMarker"
  /\ boundary' = -1
  /\ Goes("connectArm", op.on)
  /\ UNCHANGED <<ringVars, scene, active, stream, sinkVars, writeVars, flushVars, browseKeep>>

\* Mutant: an arm is taken that was never raised.
ConnectArmBlind ==
  /\ op.at = "connectArm"
  /\ armed' = armed - 1
  /\ Goes("connectDone", op.on)
  /\ UNCHANGED <<ringVars, scene, active, stream, sinkVars, writeVars, flag, window, armOld,
                 keepPending, keepFresh, browseKeep, boundary>>

\* and takes an arm: this was the flush the arm waited for.
ConnectArm ==
  /\ op.at = "connectArm"
  /\ armed' = Most(armed - 1, 0)
  /\ Goes("connectDone", op.on)
  /\ UNCHANGED <<ringVars, scene, active, stream, sinkVars, writeVars, flag, window, armOld,
                 keepPending, keepFresh, browseKeep, boundary>>

ConnectDone ==
  /\ op.at = "connectDone"
  /\ active' = op.on
  /\ running' = ~stream[op.on].corked
  /\ stream' = [stream EXCEPT ![op.on].state = "ready"]
  /\ Returns
  /\ UNCHANGED <<ringVars, scene, q, resetAt, writeVars, sharedVars>>

Cork(seen) ==
  LET s == Item.on
      b == Item.corked IN
  /\ Due("cork", seen)
  /\ stream' = [stream EXCEPT ![s].corked = b]
  /\ running' = IF s = active THEN ~b ELSE running
  /\ Returns
  /\ UNCHANGED <<ringVars, scene, active, q, resetAt, writeVars, sharedVars>>

\* pa_stream_flush empties ring and sink under one lock, then drops the marker.
FlushRing(seen) ==
  /\ Due("flush", seen)
  /\ RingFlush /\ SinkReset
  /\ Goes("flushMarker", Item.on)
  /\ UNCHANGED <<scene, active, stream, running, writeVars, sharedVars>>

FlushMarker ==
  /\ op.at = "flushMarker"
  /\ boundary' = -1
  /\ Goes("flushArm", op.on)
  /\ UNCHANGED <<ringVars, scene, active, stream, sinkVars, writeVars, flushVars, browseKeep>>

\* One arm is taken and the client stays ...
FlushArmed ==
  /\ op.at = "flushArm" /\ armed > 0
  /\ armed' = armed - 1
  /\ Returns
  /\ UNCHANGED <<ringVars, scene, active, stream, sinkVars, writeVars, flag, window, armOld,
                 keepPending, keepFresh, browseKeep, boundary>>

FlushUnarmed ==
  /\ op.at = "flushArm" /\ armed = 0
  /\ Goes("flushKeep", op.on)
  /\ UNCHANGED <<ringVars, scene, active, stream, sinkVars, writeVars, sharedVars>>

\* ... or browse keep is set and it stays too; an arm sent for this flush may
\* still be queued unread, so the HTTP thread is told to look ...
FlushKept ==
  /\ op.at = "flushKeep" /\ browseKeep
  /\ keepPending' = TRUE /\ keepFresh' = TRUE
  /\ Returns
  /\ UNCHANGED <<ringVars, scene, active, stream, sinkVars, writeVars, flag, window, armed,
                 armOld, browseKeep, boundary>>

\* ... or a decision window opens (with window 0 there is none),
FlushWindow ==
  /\ op.at = "flushKeep" /\ ~browseKeep
  /\ window' = IF scene.window THEN "open" ELSE "none"
  /\ Goes("flushRaise", op.on)
  /\ UNCHANGED <<ringVars, scene, active, stream, sinkVars, writeVars, flag, armed, armOld,
                 keepPending, keepFresh, browseKeep, boundary>>

\* and the client is to be disconnected unless the window decides otherwise.
FlushRaise ==
  /\ op.at = "flushRaise"
  /\ flag' = TRUE
  /\ Returns
  /\ UNCHANGED <<ringVars, scene, active, stream, sinkVars, writeVars, window, armed, armOld,
                 keepPending, keepFresh, browseKeep, boundary>>

\* pa_stream_disconnect and pa_stream_unref: a stream that is not the active one
\* is done with at once; the active one loses its sink,
TearDown(seen) ==
  LET s == Item.on
      c == Item.call IN
  /\ Due("disconnect", seen) \/ Due("unref", seen)
  /\ active' = IF c = "unref" /\ s = active THEN None ELSE active
  /\ stream' = [stream EXCEPT ![s].state =
                  IF c = "disconnect" THEN "terminated"
                  ELSE IF s = active THEN @ ELSE "freed"]
  /\ IF s = active
       THEN SinkReset /\ running' = FALSE /\ Goes(c, s)
       ELSE UNCHANGED sinkVars /\ Returns
  /\ UNCHANGED <<ringVars, scene, writeVars, sharedVars>>

\* its writers are woken,
TearDownWake ==
  /\ op.at \in {"disconnect", "unref"}
  /\ ReleaseWriters
  /\ Goes(IF op.at = "unref" THEN "unrefWait" ELSE "disconnectWait", op.on)
  /\ UNCHANGED <<scene, active, stream, sinkVars, writeVars, sharedVars>>

\* Mutant: the call does not wait for the writers.
TearDownEndsAtOnce ==
  /\ op.at \in {"disconnectWait", "unrefWait"}
  /\ stream' = [stream EXCEPT ![op.on].state =
                  IF op.at = "unrefWait" THEN "freed" ELSE @]
  /\ Returns
  /\ UNCHANGED <<ringVars, scene, active, sinkVars, writeVars, sharedVars>>

\* and the call returns, or frees the stream, once they have left.
TearDownEnds ==
  /\ op.at \in {"disconnectWait", "unrefWait"}
  /\ inside = {}
  /\ stream' = [stream EXCEPT ![op.on].state =
                  IF op.at = "unrefWait" THEN "freed" ELSE @]
  /\ Returns
  /\ UNCHANGED <<ringVars, scene, active, sinkVars, writeVars, sharedVars>>

\* A writer thread keeps going once it is inside pa_stream_write; a call of the
\* daemon keeps going once it has begun.
WriterStep(w) == WriteAdmit(w) \/ WritePush(w) \/ WriteEnd(w)

OpStep ==
  \/ ConnectMarker \/ ConnectArm \/ ConnectDone
  \/ FlushMarker \/ FlushArmed \/ FlushUnarmed \/ FlushKept \/ FlushWindow \/ FlushRaise
  \/ TearDownWake \/ TearDownEnds

OpStart(seen) ==
  \/ New(seen) \/ ConnectRing(seen) \/ Cork(seen)
  \/ FlushRing(seen) \/ TearDown(seen)

-----------------------------------------------------------------------------
(* The clocks of the flush protocol.                                        *)

WindowCloses ==
  /\ "window" \in scene.may
  /\ window = "open" /\ window' = "over"
  /\ UNCHANGED <<ringVars, daemonVars, flag, armed, armOld, keepPending, keepFresh, browseKeep,
                 boundary>>

ArmAges ==
  /\ "ttl" \in scene.may
  /\ armed > 0 /\ ~armOld /\ armOld' = TRUE
  /\ UNCHANGED <<ringVars, daemonVars, flag, window, armed, keepPending, keepFresh, browseKeep,
                 boundary>>

KeepAges ==
  /\ "keep" \in scene.may
  /\ keepFresh /\ keepFresh' = FALSE
  /\ UNCHANGED <<ringVars, daemonVars, flag, window, armed, armOld, keepPending, browseKeep,
                 boundary>>

RingClock == (HoldAges \/ GapAges \/ SuppressLapses) /\ "hold" \in scene.may
             /\ UNCHANGED streamVars
==============================================================================
