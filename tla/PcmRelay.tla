------------------------------ MODULE PcmRelay ------------------------------
(***************************************************************************)
(* The HTTP thread of the PCM bridge (fake-libpulse.c, _http_thread_fn): it *)
(* feeds the ring to the one streaming client, and serves control requests  *)
(* (POST /boundary, /seek-arm, /hold-release, /browse-keep, /seek-keep)     *)
(* that arrive meanwhile.  `pc' is the place in its loop; a request that is *)
(* being served (`todo') goes before anything else the thread does.         *)
(***************************************************************************)
EXTENDS PcmStream

CONSTANTS
  Chunk,        \* HTTP_DRAIN_CHUNK
  Backlog,      \* connections the kernel queues for the listen socket
  DrainReach    \* how far back a drain anchor may lie (2 s of audio)

ASSUME RelayAssumption == Chunk \in Nat \ {0} /\ Backlog \in Nat \ {0} /\ DrainReach \in Nat

VARIABLES
  pc,           \* place in the loop
  back,         \* where the backlog pass returns to
  client,       \* a streaming client is attached (client_fd)
  clientGen,    \* g_client_generation
  departed,     \* g_departed_client_generation
  boundaryGen,  \* g_boundary_client_generation
  slot,         \* the pending connection
  listen,       \* the listen backlog
  todo,         \* control requests being served, in order
  half,         \* how far the first of them is
  cap,          \* pop_max
  chunk,        \* the audio popped for the client, and whether it ends at a marker
  posted,       \* connections of the scene that were made
  answered      \* control requests that were answered

clientVars == <<client, clientGen, departed, boundaryGen>>
connVars == <<slot, listen>>
serveVars == <<todo, half, answered>>
chunkVars == <<cap, chunk>>
relayVars == <<pc, back, clientVars, connVars, serveVars, chunkVars, posted>>

NoGen == -1   \* NO_CLIENT_GENERATION
NoConn == [kind |-> "none", local |-> FALSE, head |-> "none"]
NoChunk == [lo |-> 0, hi |-> 0, end |-> FALSE]

Controls == {"boundary", "drain", "arm", "release", "keepOn", "keepOff", "seekKeep"}

\* `head': not sent yet, never to be sent, in the socket, read by the thread, or
\* the peer is gone.
Conns == [kind: Controls \cup {"get"}, local: BOOLEAN,
          head: {"silent", "dying", "sent", "read", "gone"}] \cup {NoConn}

RelayInit ==
  /\ pc = "top" /\ back = "keep"
  /\ client = FALSE /\ clientGen = 0
  /\ departed = NoGen /\ boundaryGen = NoGen
  /\ slot = NoConn /\ listen = <<>>
  /\ todo = <<>> /\ half = "none" /\ answered = 0
  /\ cap = 0 /\ chunk = NoChunk
  /\ posted = 0

-----------------------------------------------------------------------------
(* The peers.                                                               *)

\* What the daemon, its server and the player can have seen happen: calls and
\* writes that returned, connections made, requests answered, streams begun and
\* ended, bytes that left the ring.
Seen == [calls |-> done, writes |-> begun - Cardinality(inside), posts |-> posted,
         answers |-> answered, streams |-> clientGen, read |-> popped,
         ended |-> IF client THEN clientGen - 1 ELSE clientGen]

\* The next connection of the scene.
Post ==
  /\ posted < Len(scene.net)
  /\ Len(listen) < Backlog
  /\ LET c == scene.net[posted + 1] IN
     /\ Met(c, Seen)
     /\ listen' = Append(listen, [kind |-> c.kind, local |-> c.local, head |-> c.head])
  /\ posted' = posted + 1
  /\ UNCHANGED <<ringVars, streamVars, pc, back, clientVars, slot, serveVars, chunkVars>>

\* A peer that only connected sends its head, or goes away.
Waits(c) == c.head \in {"silent", "dying"}
Turned(c) == [c EXCEPT !.head = IF c.head = "silent" THEN "sent" ELSE "gone"]

PeerActs ==
  /\ \/ Waits(slot) /\ slot' = Turned(slot) /\ UNCHANGED listen
     \/ \E i \in DOMAIN listen : /\ Waits(listen[i])
                                 /\ listen' = [listen EXCEPT ![i] = Turned(listen[i])]
                                 /\ UNCHANGED slot
  /\ UNCHANGED <<ringVars, streamVars, pc, back, clientVars, serveVars, chunkVars, posted>>

-----------------------------------------------------------------------------
(* The pending slot.                                                        *)

\* _pending_try_read: one read that does not block.
TryRead(c) ==
  CASE c.head = "sent" -> [c EXCEPT !.head = "read"]
    [] c.head = "gone" -> NoConn
    [] OTHER -> c

\* _pending_is_control
IsControl(c) == c.head = "read" /\ c.kind \in Controls
IsStream(c) == c.head = "read" /\ c.kind = "get"

\* Mutant: the occupant of the slot is closed without a look at what it asked.
AcceptedFreely(c) ==
  LET new == TryRead(c) IN
  IF slot = NoConn THEN [slot |-> c, serve |-> <<>>]
  ELSE IF new = NoConn THEN [slot |-> slot, serve |-> <<>>]
  ELSE IF IsControl(new) THEN [slot |-> TryRead(slot), serve |-> <<new>>]
  ELSE [slot |-> new, serve |-> <<>>]

\* _pending_accept with the slot taken: a control newcomer is served in place,
\* after an earlier control request; any other newcomer takes the slot, and the
\* occupant is served if it is a control request and closed if not.
Accepted(c) ==
  LET new == TryRead(c)
      old == TryRead(slot) IN
  IF slot = NoConn THEN [slot |-> c, serve |-> <<>>]
  ELSE IF new = NoConn THEN [slot |-> slot, serve |-> <<>>]
  ELSE IF IsControl(new)
       THEN IF IsControl(old) THEN [slot |-> NoConn, serve |-> <<old, new>>]
            ELSE [slot |-> old, serve |-> <<new>>]
  ELSE [slot |-> new, serve |-> IF IsControl(old) THEN <<old>> ELSE <<>>]

\* A request that is complete leaves the slot to be served.
Settled(c, serve, kinds) ==
  IF IsControl(c) /\ c.kind \in kinds
  THEN slot' = NoConn /\ todo' = Append(serve, c)
  ELSE slot' = c /\ todo' = serve

\* A head that does not come in time (HTTP_REQUEST_TIMEOUT_MS).
HeadTimeout ==
  /\ todo = <<>> /\ pc \in {"dispatch", "write"}
  /\ "head" \in scene.may
  /\ Waits(slot)
  /\ slot' = NoConn
  /\ UNCHANGED <<ringVars, streamVars, pc, back, clientVars, listen, serveVars, chunkVars, posted>>

-----------------------------------------------------------------------------
(* Control requests.                                                        *)

Serving(kinds) == todo # <<>> /\ Head(todo).local /\ Head(todo).kind \in kinds

Replies == todo' = Tail(todo) /\ half' = "none" /\ answered' = answered + 1

\* Only the local machine may control the stream (403).
ServeForeign ==
  /\ todo # <<>> /\ ~Head(todo).local
  /\ Replies
  /\ UNCHANGED <<ringVars, streamVars, pc, back, clientVars, connVars, chunkVars, posted>>

FlushPending == flag /\ client

\* _serve_boundary: with a disconnect pending this is the skip, and it ends the
\* decision window;
ServeBoundary ==
  /\ Serving({"boundary", "drain"}) /\ half = "none"
  /\ half' = IF FlushPending THEN "skip" ELSE "plan"
  /\ window' = IF FlushPending /\ window = "open" THEN "none" ELSE window
  /\ UNCHANGED <<ringVars, daemonVars, flag, armed, armOld, keepPending, keepFresh, browseKeep,
                 boundary, pc, back, clientVars, connVars, todo, answered, chunkVars, posted>>

\* Mutant: the drain anchor may lie behind what was already popped.
PlantBoundaryBehind ==
  LET drain == Head(todo).kind = "drain" /\ half = "plan" /\ client
      near == lastEmpty # -1 /\ pushed - lastEmpty <= DrainReach IN
  /\ half \in {"plan", "skip"}
  /\ boundary' = IF drain /\ holdAt # -1 THEN holdAt
                 ELSE IF drain /\ near THEN lastEmpty ELSE pushed
  /\ HoldRelease \/ ForgetExpired
  /\ half' = "planted"
  /\ UNCHANGED <<daemonVars, flushVars, browseKeep, pc, back, clientVars, connVars, todo, answered,
                 chunkVars, posted>>

\* the marker goes to the write position, or for a natural end to where the old
\* title ended: at the hold, else where the empty ring was last refilled;
PlantBoundary ==
  LET drain == Head(todo).kind = "drain" /\ half = "plan" /\ client
      near == lastEmpty # -1 /\ pushed - lastEmpty <= DrainReach IN
  /\ half \in {"plan", "skip"}
  /\ boundary' = IF drain /\ holdAt # -1 THEN holdAt
                 ELSE IF drain /\ near THEN Most(lastEmpty, popped)
                 ELSE pushed
  /\ HoldRelease \/ ForgetExpired
  /\ half' = "planted"
  /\ UNCHANGED <<daemonVars, flushVars, browseKeep, pc, back, clientVars, connVars, todo, answered,
                 chunkVars, posted>>

\* Mutant: an arm that leaked stays.
MarkBoundaryLeaks ==
  /\ half = "planted"
  /\ boundaryGen' = IF client THEN clientGen ELSE departed
  /\ departed' = IF client THEN departed ELSE NoGen
  /\ Replies
  /\ UNCHANGED <<ringVars, daemonVars, flushVars, browseKeep, boundary, pc, back, client, clientGen,
                 connVars, chunkVars, posted>>

\* it is for the attached client, else for the one that departed, else for
\* whoever comes; and an arm that is still pending is stale.
MarkBoundary ==
  /\ half = "planted"
  /\ boundaryGen' = IF client THEN clientGen ELSE departed
  /\ departed' = IF client THEN departed ELSE NoGen
  /\ armed' = 0
  /\ Replies
  /\ UNCHANGED <<ringVars, daemonVars, flag, window, armOld, keepPending, keepFresh, browseKeep,
                 boundary, pc, back, client, clientGen, connVars, chunkVars, posted>>

\* _serve_seek_arm: an arm read after its flush belongs to that flush,
ArmIsLate == FlushPending \/ (client /\ keepFresh /\ keepPending)

ServeLateArm ==
  /\ Serving({"arm"}) /\ half = "none"
  /\ ArmIsLate
  /\ IF FlushPending
       THEN flag' = FALSE /\ window' = "none" /\ UNCHANGED keepPending
       ELSE keepPending' = FALSE /\ UNCHANGED <<flag, window>>
  /\ Replies
  /\ UNCHANGED <<ringVars, daemonVars, armed, armOld, keepFresh, browseKeep, boundary, pc, back,
                 clientVars, connVars, chunkVars, posted>>

\* any other arms the next one.
ServeArm ==
  /\ Serving({"arm"}) /\ half = "none"
  /\ ~ArmIsLate
  /\ half' = "arm"
  /\ UNCHANGED <<ringVars, streamVars, pc, back, clientVars, connVars, todo, answered, chunkVars,
                 posted>>

RaiseArm ==
  /\ half = "arm"
  /\ armed' = Least(armed + 1, ArmMax) /\ armOld' = FALSE
  /\ Replies
  /\ UNCHANGED <<ringVars, daemonVars, flag, window, keepPending, keepFresh, browseKeep, boundary,
                 pc, back, clientVars, connVars, chunkVars, posted>>

ServeRelease ==
  /\ Serving({"release"})
  /\ HoldRelease \/ SuppressHold
  /\ Replies
  /\ UNCHANGED <<streamVars, pc, back, clientVars, connVars, chunkVars, posted>>

ServeBrowseKeep ==
  /\ Serving({"keepOn", "keepOff"})
  /\ browseKeep' = (Head(todo).kind = "keepOn")
  /\ Replies
  /\ UNCHANGED <<ringVars, daemonVars, flushVars, boundary, pc, back, clientVars, connVars,
                 chunkVars, posted>>

\* _serve_seek_keep: the client stays if the decision is still open.
ServeSeekKeep ==
  /\ Serving({"seekKeep"})
  /\ IF FlushPending /\ window = "open"
       THEN flag' = FALSE /\ window' = "none"
       ELSE UNCHANGED <<flag, window>>
  /\ Replies
  /\ UNCHANGED <<ringVars, daemonVars, armed, armOld, keepPending, keepFresh, browseKeep, boundary,
                 pc, back, clientVars, connVars, chunkVars, posted>>

Serve ==
  \/ ServeForeign \/ ServeBoundary \/ PlantBoundary \/ MarkBoundary
  \/ ServeLateArm \/ ServeArm \/ RaiseArm
  \/ ServeRelease \/ ServeBrowseKeep \/ ServeSeekKeep

-----------------------------------------------------------------------------
(* The loop, from its top to the poll.                                      *)

At(p) == pc = p /\ todo = <<>>

\* _flush_backlog_pass: what is queued is looked at before a client is closed.
PassBegins(to) ==
  /\ Settled(TryRead(slot), <<>>, {"arm", "seekKeep"})
  /\ pc' = "pass" /\ back' = to
  /\ UNCHANGED <<ringVars, streamVars, clientVars, listen, half, answered, chunkVars, posted>>

Goto(p) ==
  /\ pc' = p
  /\ UNCHANGED <<ringVars, streamVars, back, clientVars, connVars, serveVars, chunkVars, posted>>

Top ==
  /\ At("top")
  /\ IF FlushPending THEN PassBegins("keep") ELSE Goto("keep")

PassAccepts ==
  /\ At("pass")
  /\ flag \/ keepPending
  /\ listen # <<>>
  /\ LET a == Accepted(Head(listen)) IN
     Settled(TryRead(a.slot), a.serve, {"arm", "seekKeep"})
  /\ listen' = Tail(listen)
  /\ UNCHANGED <<ringVars, streamVars, pc, back, clientVars, half, answered, chunkVars, posted>>

PassEnds ==
  /\ At("pass")
  /\ listen = <<>> \/ ~(flag \/ keepPending)
  /\ Goto(back)

\* A flush that browse keep kept gets its pass too, and its claim on an arm ends.
KeepPass ==
  /\ At("keep")
  /\ IF keepPending /\ client /\ ~flag THEN PassBegins("clear")
     ELSE Goto(IF keepPending THEN "clear" ELSE "decide")

KeepClear ==
  /\ At("clear")
  /\ keepPending' = FALSE
  /\ pc' = "decide"
  /\ UNCHANGED <<ringVars, daemonVars, flag, window, armed, armOld, keepFresh, browseKeep, boundary,
                 back, clientVars, connVars, serveVars, chunkVars, posted>>

Decide ==
  /\ At("decide")
  /\ Goto(IF FlushPending /\ window # "open" THEN "close" ELSE "poll")

\* The client goes: recorded as departed, it inherits the marker that follows.
Departs ==
  /\ client' = FALSE
  /\ departed' = clientGen
  /\ SetClient(FALSE)
  /\ UNCHANGED <<clientGen, boundaryGen>>

CloseFlushed ==
  /\ At("close")
  /\ Departs
  /\ window' = "none"
  /\ pc' = "closed"
  /\ UNCHANGED <<daemonVars, flag, armed, armOld, keepPending, keepFresh, browseKeep, boundary, back,
                 connVars, serveVars, chunkVars, posted>>

Closed ==
  /\ At("closed")
  /\ flag' = FALSE
  /\ boundary' = -1
  /\ pc' = "poll"
  /\ UNCHANGED <<ringVars, daemonVars, window, armed, armOld, keepPending, keepFresh, browseKeep,
                 back, clientVars, connVars, serveVars, chunkVars, posted>>

Poll ==
  /\ At("poll")
  /\ IF listen = <<>>
       THEN slot' = TryRead(slot) /\ UNCHANGED <<listen, todo>>
       ELSE LET a == Accepted(Head(listen)) IN
            /\ slot' = IF a.slot = slot THEN TryRead(slot) ELSE a.slot
            /\ todo' = a.serve
            /\ listen' = Tail(listen)
  /\ pc' = "dispatch"
  /\ UNCHANGED <<ringVars, streamVars, back, clientVars, half, answered, chunkVars, posted>>

DispatchControl ==
  /\ At("dispatch") /\ IsControl(slot)
  /\ slot' = NoConn /\ todo' = <<slot>>
  /\ pc' = "top"
  /\ UNCHANGED <<ringVars, streamVars, back, clientVars, listen, half, answered, chunkVars, posted>>

DispatchNothing ==
  /\ At("dispatch")
  /\ ~IsControl(slot) /\ ~IsStream(slot)
  /\ Goto("drain")

\* A complete stream request takes over: the old client is closed,
Takeover ==
  /\ At("dispatch") /\ IsStream(slot)
  /\ client' = FALSE
  /\ IF client THEN SetClient(FALSE) ELSE UNCHANGED ringVars
  /\ pc' = "attach"
  /\ UNCHANGED <<streamVars, back, clientGen, departed, boundaryGen, connVars, serveVars, chunkVars,
                 posted>>

\* the new one is promoted; a marker for nobody that it has already passed goes,
Attach ==
  /\ At("attach")
  /\ client' = TRUE
  /\ clientGen' = clientGen + 1
  /\ departed' = NoGen
  /\ boundary' = IF boundaryGen = NoGen /\ boundary <= popped THEN -1 ELSE boundary
  /\ SetClient(TRUE)
  /\ slot' = NoConn
  /\ pc' = "attached"
  /\ UNCHANGED <<daemonVars, flushVars, browseKeep, back, boundaryGen, listen, serveVars, chunkVars,
                 posted>>

\* and the old client's pending disconnect with it.
Attached ==
  /\ At("attached")
  /\ flag' = FALSE /\ window' = "none"
  /\ pc' = "drain"
  /\ UNCHANGED <<ringVars, daemonVars, armed, armOld, keepPending, keepFresh, browseKeep, boundary,
                 back, clientVars, connVars, serveVars, chunkVars, posted>>

\* Or the new one is gone before its response header.
AttachFails ==
  /\ At("attach")
  /\ "vanish" \in scene.may
  /\ slot' = NoConn
  /\ pc' = "drain"
  /\ UNCHANGED <<ringVars, streamVars, back, clientVars, listen, serveVars, chunkVars, posted>>

-----------------------------------------------------------------------------
(* The drain: audio to the client.                                          *)

\* Once per tick a leaked arm expires and a hold that was never confirmed ends.
Drain ==
  /\ At("drain")
  /\ IF client
       THEN /\ armed' = IF armOld THEN 0 ELSE armed
            /\ IF holdAt # -1 /\ holdOld THEN HoldTimeout ELSE UNCHANGED ringVars
            /\ pc' = "gate"
       ELSE UNCHANGED <<ringVars, armed>> /\ pc' = "top"
  /\ UNCHANGED <<daemonVars, flag, window, armOld, keepPending, keepFresh, browseKeep, boundary,
                 back, clientVars, connVars, serveVars, chunkVars, posted>>

\* While an arm or a disconnect is pending nothing is popped.
GateShut ==
  /\ At("gate") /\ (armed > 0 \/ flag)
  /\ Goto("edge")

\* The marker is for the attached client.
Applies == boundary # -1 /\ boundaryGen \in {NoGen, clientGen}

EndsAtMarker ==
  /\ Departs
  /\ boundary' = -1
  /\ pc' = "top"
  /\ UNCHANGED <<daemonVars, flushVars, browseKeep, back, connVars, serveVars, chunkVars, posted>>

\* The client has got all of its title.
GateEnds ==
  /\ At("gate") /\ armed = 0 /\ ~flag
  /\ Applies /\ boundary <= popped
  /\ EndsAtMarker

GateOpen ==
  /\ At("gate") /\ armed = 0 /\ ~flag
  /\ ~(Applies /\ boundary <= popped)
  /\ cap' = IF Applies THEN Least(Chunk, boundary - popped) ELSE Chunk
  /\ pc' = "pop"
  /\ UNCHANGED <<ringVars, streamVars, back, clientVars, connVars, serveVars, chunk, posted>>

\* _ring_pop_timed comes back empty: nothing arrived in time, or a disconnect
\* was raised meanwhile, or the hold keeps the audio back.
PopNothing ==
  /\ At("pop")
  /\ flag \/ Takes(cap) = 0
  /\ Goto("edge")

\* Mutant: a disconnect raised since the gate is not looked at.
PopChunkAnyway ==
  /\ At("pop")
  /\ Pop(cap)
  /\ chunk' = [lo |-> popped, hi |-> popped', end |-> FALSE]
  /\ pc' = "trim"
  /\ UNCHANGED <<streamVars, back, clientVars, connVars, serveVars, cap, posted>>

PopChunk ==
  /\ At("pop") /\ ~flag
  /\ Pop(cap)
  /\ chunk' = [lo |-> popped, hi |-> popped', end |-> FALSE]
  /\ pc' = "trim"
  /\ UNCHANGED <<streamVars, back, clientVars, connVars, serveVars, cap, posted>>

\* Bytes past the marker are the next title's.
Trim ==
  LET n == chunk.hi - chunk.lo
      reached == boundary # -1 /\ popped >= boundary
      usable == Most(boundary - (popped - n), 0) IN
  /\ At("trim")
  /\ chunk' = IF reached /\ Applies
              THEN [chunk EXCEPT !.hi = chunk.lo + usable, !.end = TRUE] ELSE chunk
  /\ boundary' = IF reached /\ ~Applies THEN -1 ELSE boundary
  /\ pc' = "write"
  /\ UNCHANGED <<ringVars, daemonVars, flushVars, browseKeep, back, clientVars, connVars, serveVars,
                 cap, posted>>

\* _http_write_client: the client takes the chunk; the drain goes on until the
\* budget of the tick is used up.
WriteDone ==
  /\ At("write") /\ ~chunk.end
  /\ \E p \in {"gate", "edge"} : Goto(p)

WriteDoneEnds ==
  /\ At("write") /\ chunk.end
  /\ EndsAtMarker

InHand == chunk.hi > chunk.lo

\* The client hung up, or took nothing for the orphan bound.
WriteFails ==
  /\ At("write") /\ InHand
  /\ "hangup" \in scene.may
  /\ Departs
  /\ pc' = "top"
  /\ UNCHANGED <<streamVars, back, connVars, serveVars, chunkVars, posted>>

\* While the client takes nothing, a connection is accepted and read, and a
\* control request is served.
WriteTick ==
  /\ At("write") /\ InHand
  /\ LET came == slot = NoConn /\ listen # <<>>
         c == TryRead(IF came THEN Head(listen) ELSE slot) IN
     /\ came \/ c # slot
     /\ Settled(c, <<>>, Controls)
     /\ listen' = IF came THEN Tail(listen) ELSE listen
  /\ UNCHANGED <<ringVars, streamVars, pc, back, clientVars, half, answered, chunkVars, posted>>

\* A decided disconnect or a waiting takeover ends the write; the chunk is lost.
WriteDeferred ==
  /\ At("write") /\ InHand
  /\ (flag /\ window # "open") \/ IsStream(slot)
  /\ Goto("edge")

\* The end of a tick: an empty ring, with the sink empty too, is signalled to
\* the daemon once per empty streak.
EdgeSeen ==
  /\ At("edge") /\ ~keepPending
  /\ active # None
  /\ q = 0
  /\ Underrun
  /\ pc' = "call"
  /\ UNCHANGED <<streamVars, back, clientVars, connVars, serveVars, chunkVars, posted>>

NoEdge ==
  /\ At("edge")
  /\ keepPending \/ active = None \/ q > 0 \/ fill > 0 \/ fired
  /\ Goto("top")

\* The callback runs under the lock of the main loop, which the daemon holds
\* during its own calls; g_active_stream is read again for the lock and for the
\* callback.
TakeLoop == At("call") /\ Goto(IF active = None THEN "crashed" ELSE "calling")

Call ==
  /\ At("calling") /\ op = Idle
  /\ Goto(IF active = None THEN "crashed" ELSE "top")

HttpStep ==
  \/ Serve
  \/ Top \/ PassAccepts \/ PassEnds \/ KeepPass \/ KeepClear \/ Decide
  \/ CloseFlushed \/ Closed
  \/ Poll \/ HeadTimeout \/ DispatchControl \/ DispatchNothing
  \/ Takeover \/ Attach \/ Attached \/ AttachFails
  \/ Drain \/ GateShut \/ GateEnds \/ GateOpen \/ PopNothing \/ PopChunk \/ Trim
  \/ WriteDone \/ WriteDoneEnds \/ WriteFails \/ WriteTick \/ WriteDeferred
  \/ EdgeSeen \/ NoEdge \/ TakeLoop \/ Call
==============================================================================
