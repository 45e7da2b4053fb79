------------------------------- MODULE PcmCells -------------------------------
(***************************************************************************)
(* The cells of the bridge's own test harness (fake-libpulse.c, the part    *)
(* under FAKE_LIBPULSE_TEST_MAIN), as scenes for PcmBridge.  A cell is a     *)
(* script: calls, writes and connections, each of which waits for what the  *)
(* harness waits for and not for a time of day, and a verdict on the last   *)
(* client.  The harness runs one schedule of it; the model runs them all.   *)
(***************************************************************************)
EXTENDS PcmBridge

CONSTANTS Main, Other, Feeder, Second    \* two streams, two writer threads

ASSUME CellAssumption == {Main, Other} \subseteq Streams /\ {Feeder, Second} \subseteq Writers

-----------------------------------------------------------------------------
(* What a script is made of.                                                *)

On(s, c, needs) == [call |-> c, on |-> s, corked |-> FALSE, needs |-> needs]
Do(c, needs) == On(Main, c, needs)
Writes(n, needs) == [by |-> Feeder, size |-> n, needs |-> needs]
Asks(kind, needs) == [kind |-> kind, local |-> TRUE, head |-> "sent", needs |-> needs]
Silent(kind, needs) == [Asks(kind, needs) EXCEPT !.head = "silent"]
Dying(kind, needs) == [Asks(kind, needs) EXCEPT !.head = "dying"]
Foreign(kind, needs) == [Asks(kind, needs) EXCEPT !.local = FALSE]

\* The harness has one stream, connected before the cells begin.
Cell(ops, writes, net, ends) ==
  [ops |-> <<Do("new", <<>>), Do("connect", <<>>)>> \o ops, writes |-> writes, net |-> net,
   window |-> FALSE, may |-> {}, ends |-> ends]

May(cell, what) == [cell EXCEPT !.may = what]
Windowed(cell) == [cell EXCEPT !.window = TRUE]

Ready == [calls |-> 2]
Attached1 == [calls |-> 2, streams |-> 1]
Attaches == Asks("get", Ready)
Flushes(needs) == <<Do("flush", needs)>>

\* _test_hold_open: a client gets the old title, and the ring is dry.
OldTitle == Writes(1, Attached1)
TitleOut == [writes |-> 1, read |-> 1]

-----------------------------------------------------------------------------
(* hold: the gap between two titles.                                        *)

HoldCell(ops, writes, net, ends) ==
  May(Cell(ops, <<OldTitle>> \o writes, <<Attaches>> \o net, ends), {"hold"})

HoldTimesOut == HoldCell(<<>>, <<Writes(2, TitleOut)>>, <<>>, "kept")

HoldFlushArmed ==
  HoldCell(Flushes([answers |-> 1]), <<Writes(1, TitleOut), Writes(1, [calls |-> 3])>>,
           <<Asks("arm", [writes |-> 2])>>, "kept")

HoldFlushUnarmed ==
  HoldCell(Flushes([writes |-> 2]), <<Writes(2, TitleOut)>>, <<>>, "closed")

HoldFreshClient ==
  HoldCell(<<>>, <<Writes(1, [read |-> 1, streams |-> 2])>>, <<Asks("get", TitleOut)>>, "kept")

HoldSteady ==
  Cell(<<>>, <<OldTitle, Writes(1, TitleOut), Writes(1, [writes |-> 2])>>, <<Attaches>>, "kept")

HoldReleased ==
  HoldCell(<<>>, <<Writes(2, TitleOut)>>, <<Asks("release", [writes |-> 2])>>, "kept")

HoldReleasedEarly ==
  HoldCell(<<>>, <<Writes(2, [answers |-> 1])>>, <<Asks("release", TitleOut)>>, "kept")

HoldPlainPost ==
  HoldCell(<<>>, <<Writes(1, TitleOut)>>, <<Asks("boundary", [writes |-> 2])>>, "closed")

HoldForeign ==
  HoldCell(<<>>, <<Writes(1, TitleOut)>>, <<Foreign("release", [writes |-> 2])>>, "kept")

HoldNegativeClock ==
  HoldCell(<<>>, <<Writes(1, TitleOut)>>, <<Asks("drain", [writes |-> 2])>>, "closed")

-----------------------------------------------------------------------------
(* browse: POST /browse-keep.                                               *)

KeepOn == Asks("keepOn", TitleOut)

BrowseCell(ops, writes, net, ends) ==
  Cell(ops, <<OldTitle>> \o writes, <<Attaches, KeepOn>> \o net, ends)

BrowseKeepFlush ==
  BrowseCell(Flushes([answers |-> 1]), <<Writes(1, TitleOut), Writes(1, [calls |-> 3])>>, <<>>,
             "kept")

BrowseKeepOff ==
  BrowseCell(Flushes([answers |-> 2]), <<>>, <<Asks("keepOff", [answers |-> 1])>>, "closed")

BrowseKeepDrain ==
  May(BrowseCell(<<>>, <<Writes(1, [answers |-> 1])>>, <<Asks("drain", [writes |-> 2])>>, "closed"),
      {"hold"})

BrowseKeepTakeover ==
  BrowseCell(<<>>, <<Writes(1, [streams |-> 2])>>, <<Asks("get", [answers |-> 1])>>, "kept")

BrowseKeepArmed ==
  BrowseCell(Flushes([answers |-> 2]), <<Writes(1, [calls |-> 3])>>,
             <<Asks("arm", [answers |-> 1])>>, "kept")

-----------------------------------------------------------------------------
(* connect: the decision window of an unarmed flush.                        *)

Flushed == [calls |-> 3]
NewTitle == Writes(1, Flushed)

ConnectCell(net, ends) ==
  Windowed(Cell(Flushes(TitleOut), <<OldTitle, NewTitle>>, <<Attaches>> \o net, ends))

ConnectKept == ConnectCell(<<Asks("seekKeep", Flushed)>>, "kept")

ConnectSkipped == ConnectCell(<<Asks("boundary", Flushed)>>, "closed")

ConnectDeadline == May(ConnectCell(<<>>, "closed"), {"window"})

ConnectKeepAfterSkip ==
  ConnectCell(<<Asks("boundary", Flushed), Asks("seekKeep", [answers |-> 1])>>, "closed")

ConnectKeepTooEarly ==
  May(Windowed(Cell(Flushes([answers |-> 1]), <<OldTitle, NewTitle>>,
                    <<Attaches, Asks("seekKeep", TitleOut)>>, "closed")), {"window"})

ConnectNoWindow ==
  Cell(Flushes(TitleOut), <<OldTitle>>, <<Attaches, Asks("seekKeep", Flushed)>>, "closed")

ConnectStalled ==
  Windowed(Cell(Flushes([writes |-> 1, read |-> 1]), <<Writes(2, Attached1), Writes(2, Flushed)>>,
                <<Attaches, Asks("seekKeep", [writes |-> 2])>>, "kept"))

ConnectBrowse ==
  Windowed(BrowseCell(Flushes([answers |-> 1]), <<NewTitle>>, <<>>, "kept"))

ConnectWaitingGet ==
  Windowed(Cell(<<>>, <<Writes(1, [streams |-> 1])>>,
                <<Silent("get", Ready), Asks("seekKeep", Ready)>>, "kept"))

ConnectLateArm == ConnectCell(<<Asks("arm", Flushed)>>, "kept")

ConnectTakeover ==
  May(Windowed(Cell(Flushes(TitleOut), <<OldTitle, Writes(1, [calls |-> 3, streams |-> 2])>>,
                    <<Attaches, Asks("get", Flushed)>>, "kept")), {"window"})

ConnectForeign == May(ConnectCell(<<Foreign("seekKeep", Flushed)>>, "closed"), {"window"})

-----------------------------------------------------------------------------
(* runaway: markers planted while nobody is attached.                       *)

First == Writes(1, Ready)
Bounded == Asks("boundary", [writes |-> 1])

RunawayCell(ops, writes, net, ends) == Cell(ops, <<First>> \o writes, net, ends)

RunawayDeparted ==
  RunawayCell(<<>>, <<Writes(1, [answers |-> 2])>>,
              <<Bounded, Asks("get", [answers |-> 1]),
                Asks("boundary", [streams |-> 1, ended |-> 1]), Asks("get", [writes |-> 2])>>, "kept")

RunawayOrphan ==
  Cell(<<>>, <<Writes(1, [answers |-> 1])>>,
       <<Asks("boundary", Ready), Asks("get", [writes |-> 1])>>, "kept")

RunawayInherited ==
  RunawayCell(<<>>, <<>>, <<Bounded, Asks("get", [answers |-> 1])>>, "closed")

\* _test_rw_client_ends_prepop: a client comes, gets its bytes and ends at a marker.
Ended == <<Asks("get", [writes |-> 1]), Asks("boundary", [streams |-> 1])>>
AfterEnd == [ended |-> 1, answers |-> 1]

RunawayOneShot ==
  RunawayCell(<<>>, <<>>,
              Ended \o <<Asks("boundary", AfterEnd), Asks("boundary", [answers |-> 2])>>, "closed")

RunawayLive ==
  RunawayCell(<<>>, <<>>,
              Ended \o <<Asks("get", AfterEnd), Asks("boundary", [streams |-> 2])>>, "closed")

RunawaySkip ==
  RunawayCell(Flushes([writes |-> 2]),
              <<Writes(1, AfterEnd), Writes(1, Flushed), Writes(1, [answers |-> 2])>>,
              Ended \o <<Asks("boundary", [writes |-> 3]), Asks("get", [writes |-> 4])>>, "kept")

RunawayCost ==
  RunawayCell(<<>>, <<Writes(1, AfterEnd), Writes(1, [answers |-> 2])>>,
              Ended \o <<Asks("boundary", [writes |-> 2]), Asks("get", [writes |-> 3])>>, "kept")

-----------------------------------------------------------------------------
(* pending: a request whose head comes late.                                *)

PendingEmpty ==
  May(Cell(<<>>, <<>>, <<Asks("boundary", Ready), Asks("arm", [answers |-> 1]),
                         Silent("get", [posts |-> 2])>>, "kept"), {"ttl"})

PendingUnread ==
  May(Cell(<<>>, <<>>, <<Attaches, Asks("arm", Attached1), Silent("get", [posts |-> 2])>>, "kept"),
      {"ttl"})

PendingReset ==
  Cell(<<>>, <<>>, <<Attaches, Dying("get", Attached1), Silent("get", [posts |-> 2])>>, "kept")

PendingHalf ==
  May(Cell(<<>>, <<>>, <<Attaches, Silent("get", Attached1), Asks("arm", [posts |-> 2])>>, "kept"),
      {"ttl"})

-----------------------------------------------------------------------------
(* skiparm: an arm and the flush that browse keep keeps.                    *)

SkipCell(ops, net) ==
  Cell(ops, <<OldTitle, Writes(1, [calls |-> Len(ops) + 2])>>, <<Attaches, KeepOn>> \o net, "kept")

KeptOnce == [answers |-> 1]

SkipArmRead == SkipCell(Flushes([answers |-> 2]), <<Asks("arm", KeptOnce)>>)

SkipArmUnread == May(SkipCell(Flushes([posts |-> 3]), <<Asks("arm", KeptOnce)>>), {"ttl"})

SkipArmNext ==
  SkipCell(Flushes(KeptOnce) \o Flushes([answers |-> 2]), <<Asks("arm", Flushed)>>)

SkipArmInside ==
  May(SkipCell(Flushes(KeptOnce) \o Flushes([answers |-> 2]), <<Asks("arm", Flushed)>>), {"keep"})

SkipGetQueued == SkipCell(Flushes([posts |-> 3]), <<Asks("get", KeptOnce)>>)

StalledTitle == Writes(2, Attached1)

SkipArmStalled ==
  May(Cell(Flushes([posts |-> 3]), <<StalledTitle, Writes(1, Flushed)>>,
           <<Attaches, Asks("keepOn", Attached1), Silent("arm", [read |-> 1, answers |-> 1])>>,
           "kept"), {"ttl"})

SkipArmLapsed ==
  May(Cell(Flushes([read |-> 1, answers |-> 1]), <<StalledTitle, Writes(1, Flushed)>>,
           <<Attaches, Asks("keepOn", Attached1), Asks("arm", Flushed)>>, "kept"), {"ttl", "keep"})

-----------------------------------------------------------------------------
(* The cells inside main(): markers, arms and clients.                      *)

StreamCell(ops, writes, net, ends) ==
  Cell(ops, <<OldTitle>> \o writes, <<Attaches>> \o net, ends)

IdlePending ==
  May(StreamCell(<<>>, <<Writes(1, [posts |-> 2])>>, <<Dying("get", TitleOut)>>, "kept"), {"head"})

Reattach ==
  StreamCell(Flushes(TitleOut), <<NewTitle>>, <<Asks("get", [ended |-> 1])>>, "kept")

SkipInStall ==
  Cell(Flushes([writes |-> 1, read |-> 1]), <<StalledTitle>>, <<Attaches, Asks("drain", Flushed)>>,
       "closed")

ServedInStall ==
  Cell(<<>>, <<StalledTitle, Writes(2, [read |-> 1])>>,
       <<Attaches, Asks("boundary", [writes |-> 2])>>, "closed")

Superseded ==
  StreamCell(<<>>, <<Writes(1, [streams |-> 2])>>,
             <<Asks("boundary", [posts |-> 1]), Asks("get", [posts |-> 2])>>, "none")

StillBounded ==
  StreamCell(<<>>, <<Writes(1, [streams |-> 2])>>,
             <<Asks("get", TitleOut), Asks("boundary", [streams |-> 2])>>, "closed")

DepartedAbruptly ==
  May(StreamCell(<<>>, <<Writes(1, TitleOut), Writes(1, [answers |-> 1])>>,
                 <<Asks("boundary", [writes |-> 2]), Asks("get", [writes |-> 3])>>, "none"), {"hangup"})

QueuedBoundary ==
  StreamCell(Flushes([posts |-> 2]), <<NewTitle>>, <<Asks("boundary", TitleOut)>>, "closed")

SeekArmed ==
  StreamCell(Flushes([writes |-> 2]), <<Writes(1, [answers |-> 1]), NewTitle>>,
             <<Asks("arm", TitleOut)>>, "kept")

QueuedArm ==
  May(StreamCell(Flushes([posts |-> 2]), <<NewTitle>>, <<Asks("arm", TitleOut)>>, "none"), {"ttl"})

BacklogArm == StreamCell(Flushes(TitleOut), <<NewTitle>>, <<Silent("arm", [posts |-> 1])>>, "none")

ArmBesideGet ==
  StreamCell(Flushes([answers |-> 1, streams |-> 2]), <<Writes(1, TitleOut), NewTitle>>,
             <<Asks("arm", TitleOut), Asks("get", [posts |-> 2])>>, "kept")

SkipDeparted ==
  StreamCell(Flushes(TitleOut), <<Writes(1, [calls |-> 3, ended |-> 1]), Writes(1, [answers |-> 1])>>,
             <<Asks("boundary", [writes |-> 2]), Asks("get", [writes |-> 3])>>, "kept")

LeakedArm ==
  StreamCell(<<>>, <<Writes(1, [answers |-> 1])>>,
             <<Asks("arm", TitleOut), Asks("boundary", [writes |-> 2])>>, "closed")

RapidSkip ==
  Cell(<<>>, <<First, Writes(1, [answers |-> 1]), Writes(1, [answers |-> 2])>>,
       <<Bounded, Asks("boundary", [writes |-> 2]), Asks("get", [writes |-> 3])>>, "closed")

ArmedTakeover ==
  StreamCell(Flushes([writes |-> 2]), <<Writes(1, [streams |-> 2]), NewTitle>>,
             <<Asks("arm", TitleOut), Asks("get", [answers |-> 1])>>, "kept")

DoubleArm ==
  StreamCell(Flushes([answers |-> 2]) \o Flushes(<<>>), <<Writes(1, [answers |-> 1]), Writes(1, [calls |-> 4])>>,
             <<Asks("arm", TitleOut), Asks("arm", TitleOut)>>, "kept")

Hammer ==
  May(Cell(Flushes(<<>>), <<Writes(1, Ready), Writes(1, Ready)>>,
           <<Attaches, Asks("get", [posts |-> 1])>>, "none"), {"vanish"})

-----------------------------------------------------------------------------
(* The cells inside main(): a full ring, the virtual sink, the teardown.    *)

FullRing == Cell(<<>>, <<Writes(2, Ready), Writes(3, Ready)>>, <<Asks("get", [writes |-> 1])>>, "kept")

FlushReleases ==
  Cell(Flushes(<<>>), <<Writes(3, Ready), Writes(2, Ready), Writes(1, Flushed)>>, <<>>, "none")

Ceiling ==
  Cell(<<>>, <<Writes(3, Ready), [Writes(2, Ready) EXCEPT !.by = Second], Writes(1, Ready)>>, <<>>,
       "none")

Paced ==
  May(Cell(<<>>, <<Writes(1, Ready), Writes(1, Ready), Writes(2, Ready)>>, <<>>, "none"), {"ask"})

OverCapacity == Cell(<<>>, <<Writes(5, Ready)>>, <<>>, "none")

CorkedSink ==
  May(Cell(<<[Do("cork", Ready) EXCEPT !.corked = TRUE], Do("cork", [writes |-> 1])>>,
           <<Writes(2, [calls |-> 3]), Writes(1, Ready)>>, <<Attaches>>, "kept"), {"ask"})

SinkFlushed ==
  May(Cell(Flushes(<<>>), <<Writes(2, Ready), Writes(1, Ready)>>, <<>>, "none"), {"ask"})

SinkUnderflow == Cell(<<>>, <<Writes(2, Attached1)>>, <<Attaches>>, "kept")

WriterStays == Cell(<<>>, <<StalledTitle, Writes(3, [read |-> 1])>>, <<Attaches>>, "kept")

WriterFlushed == Cell(Flushes([read |-> 1]), <<StalledTitle>>, <<Attaches>>, "closed")

StalledTakeover ==
  Cell(<<>>, <<StalledTitle, Writes(2, Attached1)>>, <<Attaches, Asks("get", [read |-> 1])>>, "kept")

OrphanBound ==
  May(Cell(<<>>, <<StalledTitle, Writes(1, Attached1)>>, <<Attaches>>, "none"), {"hangup"})

StalledHead ==
  May(Cell(<<>>, <<StalledTitle, Writes(1, Attached1)>>, <<Attaches, Dying("get", [read |-> 1])>>,
           "kept"), {"head"})

SecondStream == <<On(Other, "new", <<>>), On(Other, "connect", <<>>)>>

TearDownWaits ==
  Cell(SecondStream \o <<On(Other, "unref", [writes |-> 1])>>,
       <<Writes(3, [calls |-> 4]), [Writes(1, [writes |-> 1]) EXCEPT !.by = Second]>>, <<>>, "none")

OtherFreed ==
  Cell(<<On(Other, "new", <<>>), On(Other, "unref", <<>>)>>,
       <<Writes(2, Ready), Writes(2, Ready)>>, <<Attaches>>, "kept")

\* The end of a session as pa_stream_disconnect sees it, with a client attached.
Disconnected ==
  Cell(<<Do("disconnect", TitleOut)>>, <<OldTitle, Writes(2, TitleOut), Writes(1, TitleOut)>>,
       <<Attaches>>, "none")
==============================================================================
