------------------------------ MODULE PcmBridge ------------------------------
(***************************************************************************)
(* The PCM bridge as a whole (fake-libpulse.c): the daemon's calls and       *)
(* writer threads (PcmStream), the ring between them (PcmRing), the HTTP     *)
(* thread (PcmRelay), the peers that connect and the clocks.  Each thread    *)
(* goes on by itself; they meet in g_ring.lock, in the atomics of a flush    *)
(* and in the lock of the main loop.                                         *)
(***************************************************************************)
EXTENDS PcmRelay

CONSTANT Scenes    \* what daemon, server and player may do: one of these

\* The daemon's calls and writes, and the connections of a scene, in their order.
IsOp(c) == c.on \in Streams /\ c.corked \in BOOLEAN
IsWrite(c) == c.by \in Writers /\ c.size \in Nat
IsPeer(c) == /\ c.kind \in Controls \cup {"get"} /\ c.local \in BOOLEAN
             /\ c.head \in {"silent", "dying", "sent"}

ASSUME SceneAssumption ==
  \A s \in Scenes :
    /\ {Len(s.ops), Len(s.writes), Len(s.net)} \subseteq Nat
    /\ \A i \in 1..Len(s.ops) : IsOp(s.ops[i])
    /\ \A i \in 1..Len(s.writes) : IsWrite(s.writes[i])
    /\ \A i \in 1..Len(s.net) : IsPeer(s.net[i])

\* A daemon that frees a stream does so before it connects the next one.
Orderly(s) ==
  \A i, j, k \in 1..Len(s.ops) :
    /\ i < j /\ j < k
    /\ s.ops[i].call = "connect" /\ s.ops[j].call = "connect" /\ s.ops[k].call = "unref"
    => s.ops[k].on # s.ops[i].on

\* A server sends a control request with its connection, or late if no other
\* connection follows and the head is waited for.
Prompt(s) ==
  \A i \in 1..Len(s.net) :
    s.net[i].kind \in Controls =>
      \/ s.net[i].head = "sent"
      \/ s.net[i].head = "silent" /\ i = Len(s.net) /\ "head" \notin s.may

bridgeVars == <<ringVars, streamVars, relayVars>>

Init ==
  /\ scene \in Scenes
  /\ RingInit /\ StreamInit /\ RelayInit

StreamSide ==
  /\ \/ OpStart(Seen) \/ OpStep
     \/ WriteStart(Seen) \/ AskWritable
     \/ \E w \in Writers : WriterStep(w)
     \/ SinkPlays \/ WindowCloses \/ ArmAges \/ KeepAges \/ RingClock
  /\ UNCHANGED relayVars

Next == StreamSide \/ HttpStep \/ Post \/ PeerActs

\* Threads run on (each waits with a bound), the daemon and its server do what
\* the scene says, a peer that connected sends or goes, and time passes.
Fairness ==
  /\ WF_bridgeVars(HttpStep)
  /\ \A w \in Writers : WF_bridgeVars(WriterStep(w) /\ UNCHANGED relayVars)
  /\ WF_bridgeVars(OpStep /\ UNCHANGED relayVars)
  /\ WF_bridgeVars(OpStart(Seen) /\ UNCHANGED relayVars)
  /\ WF_bridgeVars(WriteStart(Seen) /\ UNCHANGED relayVars)
  /\ WF_bridgeVars(Post)
  /\ WF_bridgeVars(PeerActs)
  /\ WF_bridgeVars(SinkPlays /\ UNCHANGED relayVars)
  /\ WF_bridgeVars(WindowCloses /\ UNCHANGED relayVars)
  /\ WF_bridgeVars(ArmAges /\ UNCHANGED relayVars)
  /\ WF_bridgeVars(RingClock /\ UNCHANGED relayVars)

Spec == Init /\ [][Next]_bridgeVars /\ Fairness

-----------------------------------------------------------------------------
TypeOK ==
  /\ RingTypeOK
  /\ scene \in Scenes
  /\ active \in Streams \cup {None}
  /\ \A s \in Streams : stream[s].state \in {"none", "new", "ready", "terminated", "freed"}
  /\ q \in Nat /\ granted \in Nat /\ resetAt \in Nat
  /\ armed \in 0..ArmMax
  /\ window \in {"none", "open", "over"}
  /\ boundary \in Positions
  /\ slot \in Conns
  /\ Len(listen) <= Backlog
  /\ chunk.lo <= chunk.hi

(* While its disconnect is pending the old client never gets a byte that    *)
(* was written after the flush: a chunk popped earlier is of the old title, *)
(* and none is popped meanwhile (the drain gate and the check inside         *)
(* _ring_pop_timed; harness: "the departing client gets no byte of the next *)
(* title").                                                                 *)
NoNewTitle ==
  flag /\ client /\ pc \in {"trim", "write"} => chunk.hi <= resetAt

(* A client bounded by a marker gets all bytes before it and none past it:  *)
(* the chunk it is about to be sent ends at the marker or before it (the    *)
(* pop cap and the trim after the pop; harness: "closes the client with a   *)
(* real EOF exactly at the marker").                                        *)
NothingPastMarker ==
  pc = "write" /\ Applies /\ chunk.hi > chunk.lo => chunk.hi <= boundary

(* No request gets lost between the listen backlog, the pending slot and    *)
(* the thread: a control request that was sent is queued, being served or   *)
(* answered (_pending_accept, _pending_settle, _flush_backlog_pass, the     *)
(* stalled write).                                                          *)
Sent(n) == Cardinality({i \in 1..n : scene.net[i].kind \in Controls})
Queued == Cardinality({i \in DOMAIN listen : listen[i].kind \in Controls})
          + (IF slot.kind \in Controls THEN 1 ELSE 0)
NoControlLost == Sent(posted) = Queued + Len(todo) + answered

(* A stream is never freed under a writer that is still inside              *)
(* pa_stream_write on it (writers_in, _ring_release_writers_and_wait).      *)
NoWriterAfterFree == \A w \in inside : stream[onto[w].on].state # "freed"

(* A daemon that writes a chunk only after pa_stream_writable_size said      *)
(* there is room never waits inside the bridge (RING_WRITE_MARGIN;          *)
(* harness: "a daemon that stops at writable_size 0 never waits").          *)
PacedNeverWaits == \A w \in Writers : onto[w].paced => call[w].at # "waiting"

(* The sink never claims more audio than was written since it was last      *)
(* emptied, so a flush does not leave the daemon believing in audio that    *)
(* is gone (q_out, the take-back of refused bytes in pa_stream_write).      *)
SinkTruth == inside = {} => q <= pushed - resetAt

(* The verdict of every harness cell, in every interleaving: all requests    *)
(* are answered, also while a write stalls; the client that is to be kept   *)
(* is attached in the end and has got all there was, with no hold, arm or   *)
(* disconnect in its way; one that is to be closed is gone and stays gone.  *)
Verdict ==
  /\ scene.ends = "kept" => client /\ fill = 0
  /\ scene.ends = "closed" => ~client
  /\ answered = Sent(Len(scene.net))

CellVerdict == <>[]Verdict

(* The daemon gets out of the bridge again: a write that waits for room, a   *)
(* flush, and a teardown that waits for the writers all return (the write   *)
(* ceiling, space_avail, writers_gone).                                     *)
LetsGo == []<>(op = Idle /\ inside = {})

(* As long as a client is attached, the daemon is told that ring and sink    *)
(* are dry, and again after every write (the underrun edge and its re-arm;  *)
(* harness: "underrun edge survives push/flush hammering").                 *)
StarvedTold ==
  (client /\ fill = 0 /\ q = 0 /\ active # None) ~>
     (told \/ fill > 0 \/ q > 0 \/ ~client \/ active = None)

=============================================================================
