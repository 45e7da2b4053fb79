----------------------------- MODULE MCPcmBridge -----------------------------
(***************************************************************************)
(* Model-checking instance of PcmBridge: every cell of PcmCells, on a ring  *)
(* of three blocks.                                                         *)
(***************************************************************************)
EXTENDS PcmCells

MCScenes == {
  HoldTimesOut, HoldFlushArmed, HoldFlushUnarmed, HoldFreshClient, HoldSteady, HoldReleased,
  HoldReleasedEarly, HoldPlainPost, HoldForeign, HoldNegativeClock, BrowseKeepFlush,
  BrowseKeepOff, BrowseKeepDrain, BrowseKeepTakeover, BrowseKeepArmed, ConnectKept,
  ConnectSkipped, ConnectDeadline, ConnectKeepAfterSkip, ConnectKeepTooEarly, ConnectNoWindow,
  ConnectStalled, ConnectBrowse, ConnectWaitingGet, ConnectLateArm, ConnectTakeover,
  ConnectForeign, RunawayDeparted, RunawayOrphan, RunawayInherited, RunawayOneShot,
  RunawayLive, RunawaySkip, RunawayCost, PendingEmpty, PendingUnread, PendingReset,
  PendingHalf, SkipArmRead, SkipArmUnread, SkipArmNext, SkipArmInside, SkipGetQueued,
  SkipArmStalled, SkipArmLapsed, IdlePending, Reattach, SkipInStall, ServedInStall,
  Superseded, StillBounded, DepartedAbruptly, QueuedBoundary, ArmBesideGet, LeakedArm,
  RapidSkip, ArmedTakeover, DoubleArm, Hammer, FullRing, FlushReleases, Ceiling, Paced,
  CorkedSink, SinkFlushed, SinkUnderflow, StalledTakeover, OrphanBound, StalledHead,
  TearDownWaits, OtherFreed, Disconnected, SeekArmed, QueuedArm, BacklogArm, SkipDeparted,
  OverCapacity, WriterStays, WriterFlushed}

\* What PcmDaemonProofs and PcmRequestProofs suppose of daemon and server.
ASSUME MCSceneAssumption == \A s \in MCScenes : Orderly(s) /\ Prompt(s)
==============================================================================
