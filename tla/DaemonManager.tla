--------------------------- MODULE DaemonManager ---------------------------
(***************************************************************************)
(* The life of the Soloist daemon processes: Unified/DaemonManager.pm      *)
(* (start, stop, 60 s watchdog, 5 s crash poll, sync and client events),   *)
(* Unified/SoloistDaemon.pm (stop, stopForSync, start) and                 *)
(* Unified/ProcStop.pm (the non-blocking TERM-then-KILL chain).            *)
(*                                                                         *)
(* One action is one timer callback or one event of the LMS process, or a  *)
(* daemon process exiting.  What a handler does to one player is an        *)
(* operator on that player's record st[p]; the handlers apply it to every  *)
(* player they visit.  Time is abstract: a timer that is set may fire, and *)
(* the backoff and the crash incident end in steps of their own.  The      *)
(* bookkeeping of binary generations is module Generation's.               *)
(***************************************************************************)
EXTENDS Naturals, FiniteSets

CONSTANTS
  Players,
  Procs,          \* process ids a player's daemons draw from, positive numbers
  LongCount,      \* first crash number whose backoff outlives the login deadline
  RollbackCrashes,\* SWITCH_ROLLBACK_CRASHES
  LastStep,       \* the step of @STEPS that gives up
  MaxEvents,      \* bound on crashes, health stops and events from outside
  SpawnMayFail,   \* a launch may fail
  World           \* what may happen from outside, a subset of Happenings

\* Players come and go, join groups and are renamed; health ticks stop daemons;
\* binary, key or build change or are lost; the plugin restarts, LMS stops; a
\* process survives SIGKILL.
Happenings == {"client", "sync", "rename", "health", "binary", "prereqs",
               "restart", "shutdown", "stuck"}

ASSUME DaemonManagerAssumption ==
  /\ IsFiniteSet(Players)
  /\ Procs \subseteq Nat \ {0} /\ IsFiniteSet(Procs)
  /\ LongCount \in Nat \ {0}
  /\ RollbackCrashes \in 1 .. LongCount
  /\ LastStep \in Nat \ {0}
  /\ MaxEvents \in Nat
  /\ SpawnMayFail \in BOOLEAN
  /\ World \subseteq Happenings

VARIABLES
  st,         \* per player: its helper, its processes, its crash state
  connected,  \* players LMS knows
  slaves,     \* players that follow a sync master
  ready,      \* backendPrereqState is soloist_ready
  poll,       \* _streamAlivePoll is armed
  soon,       \* initHelpers is due in seconds, not with the 60 s watchdog
  stagger,    \* players with a _staggeredStart timer
  pending,    \* %pendingBinarySwitch
  up,         \* LMS runs
  events      \* events from outside so far

vars == <<st, connected, slaves, ready, poll, soon, stagger, pending, up, events>>

Reasons == {"none", "no_login", "other"}   \* other: no_answer, ws_unreachable, network_recovered

(* One player.                                                             *)
(*   tracked, proc   %helperInstances has it; its _proc, 0 when undefined  *)
(*   live            its processes that run, tracked or not                *)
(*   lost            processes ProcStop gave up on                         *)
(*   term            %terminating; chain: the _step that is due, 0 if none *)
(*   owed            processes whose end re-runs initHelpers (onGone)      *)
(*   deferred        %startDeferred, with the opts of the deferred start   *)
(*   named           the helper carries the name the player should show    *)
(*   deliberate      _stoppedDeliberately                                  *)
(*   reason          _healthStopReason                                     *)
(*   cause           why SpotOn first stopped the current process          *)
(*   counted         the poll has counted the current process's death      *)
(*   incident        _crashIncidentLive; backoff: before next_allowed_at   *)
(*   count           crashes of this incident, up to LongCount             *)
PlayerStates ==
  [tracked : BOOLEAN, proc : Procs \cup {0}, live : SUBSET Procs, lost : SUBSET Procs,
   term : Procs \cup {0}, chain : [Procs -> 0 .. LastStep], owed : SUBSET Procs,
   deferred : {"no", "plain", "crash"}, named : BOOLEAN, deliberate : BOOLEAN,
   reason : Reasons, cause : Reasons, counted : BOOLEAN,
   incident : BOOLEAN, backoff : BOOLEAN, count : 0 .. LongCount]

TypeOK ==
  /\ st \in [Players -> PlayerStates]
  /\ connected \subseteq Players
  /\ slaves \subseteq connected
  /\ ready \in BOOLEAN
  /\ poll \in BOOLEAN
  /\ soon \in BOOLEAN
  /\ stagger \subseteq Players
  /\ pending \subseteq Players
  /\ up \in BOOLEAN
  /\ events \in 0 .. MaxEvents

Fresh ==
  [tracked |-> FALSE, proc |-> 0, live |-> {}, lost |-> {}, term |-> 0,
   chain |-> [q \in Procs |-> 0], owed |-> {}, deferred |-> "no", named |-> TRUE,
   deliberate |-> FALSE, reason |-> "none", cause |-> "none", counted |-> FALSE,
   incident |-> FALSE, backoff |-> FALSE, count |-> 0]

Init ==
  /\ st = [p \in Players |-> Fresh]
  /\ connected \in SUBSET Players
  /\ slaves = {}
  /\ ready \in IF "prereqs" \in World THEN BOOLEAN ELSE {TRUE}
  /\ poll = FALSE
  /\ soon = TRUE
  /\ stagger = {}
  /\ pending = {}
  /\ up = TRUE
  /\ events = 0

Event == events < MaxEvents /\ events' = events + 1

-----------------------------------------------------------------------------
(* One player: the helper and its process.                                 *)

Alive(s) == s.tracked /\ s.proc \in s.live
Dead(s)  == s.tracked /\ s.proc \notin s.live

\* terminatingFor: a process of this player is still exiting.
Exiting(s) == s.term # 0 /\ s.term \in s.live

\* ProcStop::_finish.
Finish(s, q) ==
  [s EXCEPT !.chain[q] = 0, !.term = IF @ = q THEN 0 ELSE @, !.owed = @ \ {q}]

\* Mutant: a later caller's onGone is dropped.
TerminateOnce(s, owe, gone) ==
  IF s.term = s.proc THEN s
  ELSE IF gone THEN [s EXCEPT !.live = @ \ {s.proc}]
  ELSE [s EXCEPT !.term = s.proc, !.chain[s.proc] = 1,
                 !.owed = IF owe THEN @ \cup {s.proc} ELSE @]

\* ProcStop::terminate on a live helper; owe: the caller passes an onGone,
\* gone: the process exits on the first TERM.
Terminate(s, owe, gone) ==
  IF s.term = s.proc
  THEN [s EXCEPT !.owed = IF owe THEN @ \cup {s.proc} ELSE @]
  ELSE IF gone
  THEN [s EXCEPT !.live = @ \ {s.proc}]
  ELSE [s EXCEPT !.term = s.proc, !.chain[s.proc] = 1,
                 !.owed = IF owe THEN @ \cup {s.proc} ELSE @]

\* stopHelper: the helper leaves %helperInstances; its process is terminated.
Stop(s, gone) ==
  [(IF Alive(s) THEN Terminate(s, FALSE, gone) ELSE s)
    EXCEPT !.tracked = FALSE, !.proc = 0, !.named = TRUE, !.deliberate = FALSE,
           !.reason = "none", !.cause = "none", !.counted = FALSE]

StopForSync(s, gone) ==
  [Terminate(s, TRUE, gone) EXCEPT !.deliberate = TRUE]

\* A process id no running process and no pending step uses.
FreeProcs(s) == {q \in Procs : q \notin s.live /\ s.chain[q] = 0}

\* SoloistDaemon::start, and the flag startHelper consumes before it.
Spawn(s, ok) ==
  LET base == [s EXCEPT !.tracked = TRUE, !.named = TRUE, !.deliberate = FALSE,
                        !.cause = "none", !.counted = FALSE, !.term = 0]
  IN IF ok /\ FreeProcs(s) # {}
     THEN LET q == CHOOSE q \in FreeProcs(s) : TRUE
          IN [base EXCEPT !.proc = q, !.live = @ \cup {q}, !.lost = @ \ {q}]
     ELSE [base EXCEPT !.proc = 0]

Defer(s, crash) ==
  [s EXCEPT !.deferred = IF @ # "no" THEN @ ELSE IF crash THEN "crash" ELSE "plain"]

\* Mutant: any caller may restart a dead helper.
NeverGated(s, crash) == FALSE

\* While a crash incident is live only the poll restarts a dead helper.
Gated(s, crash) == Dead(s) /\ ~crash /\ ~s.deliberate /\ s.incident

\* Mutant: spawns over a process that is still exiting.
StartOverExiting(s, crash, active, gone, ok) ==
  LET a == IF Alive(s) /\ ~s.named /\ ~active THEN Stop(s, gone) ELSE s
  IN IF Alive(a) \/ Gated(a, crash) THEN a ELSE Spawn(a, ok)

\* startHelper for a connected player whose prerequisites are met.
StartHelper(s, crash, active, gone, ok) ==
  LET a == IF Alive(s) /\ ~s.named /\ ~active THEN Stop(s, gone) ELSE s
  IN IF Alive(a) \/ Gated(a, crash) THEN a
     ELSE IF Exiting(a) THEN Defer(a, crash)
     ELSE Spawn(a, ok)

AnyAlive(states) == \E p \in Players : Alive(states[p])

\* Mutant: a start the incident gate turns away leaves the poll as it is.
PollArmedByAlive(s, t, crash) == Alive(t)

\* Mutant: only a start the gate turns away arms the poll.
PollArmedByGate(s, t, crash) == Gated(s, crash)

\* startHelper arms the poll for a live helper, and when the gate turns it away.
PollArmedBy(s, t, crash) == Alive(t) \/ Gated(s, crash)

\* stopHelper kills the poll when no helper is alive any more.
KillsPoll(states) == ~AnyAlive(states)

\* The poll timer after startHelper took s to t, perhaps with a stopHelper for
\* a changed name.
PollAfterStart(was, s, t, crash, states) ==
  \/ PollArmedBy(s, t, crash)
  \/ was /\ (Alive(s) /\ ~Alive(t) => ~KillsPoll(states))

\* The poll timer after the stops and starts of a binary switch.
PollAfterSwitches(was, switched, states) ==
  /\ was \/ \E p \in switched : Alive(states[p])
  /\ switched # {} => ~KillsPoll(states)

\* What a handler may meet: helpers that stream, and processes that exit on
\* the first TERM.
LiveIn(states) == {p \in Players : Alive(states[p])}
LiveHelpers == LiveIn(st)
Quitters == {p \in LiveHelpers : ~Exiting(st[p])}

Launches == IF SpawnMayFail THEN SUBSET Players ELSE {Players}

CanStart(p) == ready /\ p \in connected

-----------------------------------------------------------------------------
(* Starting.                                                               *)

\* startHelper from a timer, for one player.
StartFromTimer(p, crash) ==
  IF ~CanStart(p)
  THEN UNCHANGED <<st, poll>>
  ELSE \E active \in SUBSET LiveHelpers, gone \in SUBSET Quitters, launched \in Launches :
         LET t == StartHelper(st[p], crash, p \in active, p \in gone, p \in launched)
         IN /\ st' = [st EXCEPT ![p] = t]
            /\ poll' = PollAfterStart(poll, st[p], t, crash, st')

StaggeredStart(p) ==
  /\ up /\ p \in stagger
  /\ stagger' = stagger \ {p}
  /\ StartFromTimer(p, FALSE)
  /\ UNCHANGED <<connected, slaves, ready, soon, pending, up, events>>

\* The start _deferStartWhileTerminating retries.
DeferredStart(p) ==
  LET s == [st[p] EXCEPT !.deferred = "no"] IN
  /\ up /\ st[p].deferred # "no"
  /\ IF ~CanStart(p)
     THEN st' = [st EXCEPT ![p] = s] /\ UNCHANGED poll
     ELSE \E active \in SUBSET LiveHelpers, gone \in SUBSET Quitters, launched \in Launches :
            LET crash == st[p].deferred = "crash"
                t == StartHelper(s, crash, p \in active, p \in gone, p \in launched)
            IN /\ st' = [st EXCEPT ![p] = t]
               /\ poll' = PollAfterStart(poll, s, t, crash, st')
  /\ UNCHANGED <<connected, slaves, ready, soon, stagger, pending, up, events>>

\* _processPendingSwitches for one player: an idle live daemon is restarted
\* onto the new binary; whether the crash state is cleared is Generation's.
Switch(p, s, active, gone, ok, cleared) ==
  LET c == IF cleared THEN [s EXCEPT !.incident = FALSE, !.backoff = FALSE, !.count = 0]
                      ELSE s
      t == Stop(c, gone)
  IN IF Dead(s) \/ ~s.tracked THEN c
     ELSE IF active THEN s
     ELSE IF CanStart(p) THEN StartHelper(t, FALSE, active, gone, ok)
     ELSE t

ProcessPendingSwitches(states, waiting, active, gone, launched, cleared) ==
  [p \in Players |->
    IF p \in waiting
    THEN Switch(p, states[p], p \in active, p \in gone, p \in launched, cleared)
    ELSE states[p]]

\* The 60 s watchdog and every re-initialisation: pending switches, helpers of
\* players that are gone or follow a master, then the starts, the first one at
\* once and the others staggered.
InitHelpers ==
  /\ up
  /\ \E active \in SUBSET LiveHelpers, gone \in SUBSET Quitters, launched \in Launches,
        cleared \in IF pending = {} THEN {FALSE} ELSE BOOLEAN :
       LET Switched == {p \in pending : Alive(st[p]) /\ p \notin active}
           one == ProcessPendingSwitches(st, pending, active, gone, launched, cleared)
           Stopped == {p \in Players : one[p].tracked /\ p \notin connected} \cup slaves
           two == [p \in Players |-> IF p \in Stopped THEN Stop(one[p], p \in gone) ELSE one[p]]
           pollTwo == /\ PollAfterSwitches(poll, Switched, one)
                      /\ Stopped # {} => ~KillsPoll(two)
       IN /\ pending' = {p \in pending : Alive(st[p]) /\ p \in active}
          /\ IF connected \ slaves = {}
             THEN st' = two /\ poll' = pollTwo /\ stagger' = {}
             ELSE \E first \in connected \ slaves :
                    LET t == IF ready
                             THEN StartHelper(two[first], FALSE, first \in active,
                                              first \in gone, first \in launched)
                             ELSE two[first]
                    IN /\ st' = [two EXCEPT ![first] = t]
                       /\ poll' = IF ready
                                  THEN PollAfterStart(pollTwo, two[first], t, FALSE, st')
                                  ELSE pollTwo
                       /\ stagger' = (connected \ slaves) \ {first}
  /\ soon' = FALSE
  /\ UNCHANGED <<connected, slaves, ready, up, events>>

\* onSoloistBinaryReplaced.
BinaryReplaced ==
  /\ up /\ "binary" \in World /\ Event
  /\ pending' = pending \cup {p \in Players : Alive(st[p])}
  /\ UNCHANGED <<st, connected, slaves, ready, poll, soon, stagger, up>>

\* _rollbackAfterSwitch that succeeds: every live helper is switched onto the
\* restored binary, the streaming ones when they are idle again.
RolledBack(states, active, gone, launched) ==
  ProcessPendingSwitches(states, LiveIn(states), active, gone, launched, TRUE)

\* noteStartupFailure: p's daemon never announced its port, and is stopped if
\* it still runs; within the window of a switch the binary is rolled back.
StartupFailure(p) ==
  LET s == st[p] IN
  /\ up /\ "binary" \in World /\ Event
  /\ s.tracked /\ s.proc # 0 /\ s.chain[s.proc] = 0
  /\ \E gone \in SUBSET Quitters, swapped \in BOOLEAN, tried \in BOOLEAN :
       LET one == IF Alive(s) THEN [st EXCEPT ![p] = Terminate(s, FALSE, p \in gone)] ELSE st
       IN IF ~swapped
          THEN /\ st' = one
               /\ pending' = IF tried THEN pending \ {p} ELSE pending
               /\ UNCHANGED poll
          ELSE \E active \in SUBSET LiveHelpers, launched \in Launches :
                 /\ st' = RolledBack(one, active, gone, launched)
                 /\ pending' = LiveIn(one) \cap active
                 /\ poll' = PollAfterSwitches(poll, LiveIn(one) \ active, st')
  /\ UNCHANGED <<connected, slaves, ready, soon, stagger, up>>

-----------------------------------------------------------------------------
(* The 5 s poll.                                                           *)

\* Mutant: the crash counter has no cap.
CountUncapped(s) == IF s.incident THEN s.count + 1 ELSE 1

\* The crash number within the incident; beyond LongCount all are alike.
CountCrash(s) == IF ~s.incident THEN 1
                 ELSE IF s.count < LongCount THEN s.count + 1 ELSE s.count

\* The poll counts this death, and the count reaches the rollback.
RollbackDue(s) ==
  ~s.backoff /\ s.reason # "no_login" /\ ~s.counted /\ CountCrash(s) >= RollbackCrashes

\* The crash branch: classify, count, back off, restart.  rollback: the window
\* of the last switch is open, and a rollback is tried instead of a restart;
\* either way the window is then closed until the next start.
Crash(s, rollback, can, ok) ==
  LET read == [s EXCEPT !.reason = "none"]
      c == [read EXCEPT !.incident = TRUE, !.counted = TRUE, !.count = CountCrash(s)]
      b == [c EXCEPT !.backoff = TRUE]
  IN IF s.backoff THEN read
     ELSE IF rollback THEN c
     ELSE IF can THEN StartHelper(b, TRUE, FALSE, FALSE, ok)
     ELSE b

\* What _soloistHealthTick may find.  A stopped helper has no Control left, so
\* only the login deadline and the network edge still apply to it; one stopped
\* for a sync change has no start time either.
Verdicts(s) ==
  {"none"} \cup
  {r \in {"no_login", "other"} :
     /\ "health" \in World /\ ~s.deliberate
     /\ r = "no_login" /\ s.backoff => s.count = LongCount}

HealthStop(s, r, gone) ==
  [Terminate(s, FALSE, gone) EXCEPT !.reason = r, !.cause = IF @ = "none" THEN r ELSE @]

\* swapped: the dead player whose rollback succeeds.  The restored binary is
\* every player's: all live helpers are switched, which replaces the idle ones'
\* entries in the hash the poll iterates over.  When it comes to one of those,
\* the rest are not visited and it may die before the poll is armed again.
StreamAlivePoll ==
  LET Tracked == {p \in Players : st[p].tracked}
      Died == {p \in Tracked : Dead(st[p]) /\ ~st[p].deliberate}   \* initHelpers restarts the others
      Due == {p \in Died : "binary" \in World /\ RollbackDue(st[p])}
  IN
  /\ up /\ poll
  /\ IF Tracked = {}
     THEN poll' = FALSE /\ UNCHANGED <<st, ready, pending, events>>
     ELSE \E verdict \in [Tracked -> IF "health" \in World THEN Reasons ELSE {"none"}],
             parked \in IF "prereqs" \in World THEN SUBSET Died ELSE {{}} :
          \E rollback \in SUBSET (Due \ parked) :
          \E swapped \in {{}} \cup {{p} : p \in rollback} :
          \E visited \in IF swapped = {} THEN {Tracked}
                         ELSE {v \cup parked \cup rollback : v \in SUBSET Tracked},
             active \in IF swapped = {} THEN {{}} ELSE SUBSET LiveHelpers,
             gone \in SUBSET Quitters, launched \in Launches,
             renewed, late \in IF parked = {} THEN {FALSE} ELSE BOOLEAN :
            LET now == IF late THEN ready' ELSE ready
                Visit(p) ==
                  LET s == st[p] IN
                  IF p \notin visited THEN s
                  ELSE IF p \in parked THEN Stop(s, FALSE)
                  ELSE IF p \in Died
                  THEN Crash(s, p \in rollback, now /\ p \in connected, p \in launched)
                  ELSE IF verdict[p] = "none" THEN s
                  ELSE HealthStop(s, verdict[p], p \in gone)
                polled == [p \in Players |-> Visit(p)]
                live == LiveIn(polled)
            IN /\ visited # Tracked => ~ ((live \ active) \subseteq visited)
               /\ \A p \in Tracked :
                    verdict[p] \in IF p \in visited /\ Alive(st[p]) THEN Verdicts(st[p])
                                                                   ELSE {"none"}
               /\ ready' = IF parked = {} \/ renewed THEN ready ELSE FALSE
               /\ IF \E p \in Tracked : verdict[p] # "none" THEN Event ELSE UNCHANGED events
               /\ IF swapped = {}
                  THEN st' = polled /\ pending' = pending \ rollback
                  ELSE /\ st' = RolledBack(polled, active, gone, launched)
                       /\ pending' = live \cap active
               /\ poll' \in {TRUE} \cup
                     IF visited = Tracked THEN {}
                     ELSE {PollAfterSwitches(FALSE, live \ active, st')}
  /\ UNCHANGED <<connected, slaves, soon, stagger, up>>

\* noteExpiredExit: a daemon that died of an expired build before it announced
\* its port is parked.
NoteExpiredExit(p) ==
  /\ up /\ "prereqs" \in World /\ Event
  /\ Dead(st[p])
  /\ st' = [st EXCEPT ![p] = Stop(@, FALSE)]
  /\ poll' = (poll /\ ~KillsPoll(st'))
  /\ ready' \in {FALSE, ready}
  /\ UNCHANGED <<connected, slaves, soon, stagger, pending, up>>

\* next_allowed_at passes.
BackoffLapses(p) ==
  /\ st[p].backoff
  /\ st' = [st EXCEPT ![p].backoff = FALSE]
  /\ UNCHANGED <<connected, slaves, ready, poll, soon, stagger, pending, up, events>>

\* CRASH_BACKOFF_RESET_AFTER passes; it is longer than any backoff.
IncidentLapses(p) ==
  /\ st[p].incident /\ ~st[p].backoff
  /\ st' = [st EXCEPT ![p].incident = FALSE, ![p].count = 0]
  /\ UNCHANGED <<connected, slaves, ready, poll, soon, stagger, pending, up, events>>

-----------------------------------------------------------------------------
(* Processes.                                                              *)

\* A process exits.  One nobody signalled has crashed.
Exit(p, q) ==
  /\ q \in st[p].live
  /\ st' = [st EXCEPT ![p].live = @ \ {q}]
  /\ IF st[p].chain[q] = 0 THEN Event ELSE UNCHANGED events
  /\ UNCHANGED <<connected, slaves, ready, poll, soon, stagger, pending, up>>

\* _step: done, give up, or the next signal.
ChainStep(p, q) ==
  LET s == st[p] IN
  /\ up /\ s.chain[q] # 0
  /\ \/ /\ q \notin s.live
        /\ st' = [st EXCEPT ![p] = Finish(s, q)]
        /\ soon' = (soon \/ q \in s.owed)
     \/ /\ q \in s.live /\ s.chain[q] = LastStep
        /\ st' = [st EXCEPT ![p] = [Finish(s, q) EXCEPT !.lost = @ \cup {q}]]
        /\ soon' = (soon \/ q \in s.owed)
     \/ /\ q \in s.live /\ s.chain[q] < LastStep
        /\ st' = [st EXCEPT ![p] = Finish([s EXCEPT !.live = @ \ {q}], q)]
        /\ soon' = (soon \/ q \in s.owed)
     \/ /\ q \in s.live /\ s.chain[q] < LastStep
        /\ s.chain[q] = LastStep - 1 => "stuck" \in World
        /\ st' = [st EXCEPT ![p].chain[q] = @ + 1]
        /\ UNCHANGED soon
  /\ UNCHANGED <<connected, slaves, ready, poll, stagger, pending, up, events>>

-----------------------------------------------------------------------------
(* Events from LMS, the settings and the renewal.                          *)

\* client new / client disconnect.
ClientEvent(p) ==
  /\ up /\ "client" \in World /\ Event
  /\ connected' = (connected \ {p}) \cup ({p} \ connected)
  /\ slaves' = IF connected' = slaves \ {p} THEN {} ELSE slaves \ {p}   \* no group without a master
  /\ soon' = TRUE
  /\ UNCHANGED <<st, ready, poll, stagger, pending, up>>

\* A sync command: p joins or leaves a group or stays its master, the daemons whose player now has
\* another name are stopped unless they stream, and initHelpers runs in 0.1 s.
SyncEvent(p) ==
  /\ up /\ "sync" \in World /\ Event
  /\ p \in connected
  /\ slaves' \in {slaves, (slaves \ {p}) \cup ({p} \ slaves)}
  /\ slaves' # connected
  /\ \E renamed \in SUBSET connected,
        active \in SUBSET LiveHelpers, gone \in SUBSET Quitters :
       st' = [x \in Players |->
               LET s == [st[x] EXCEPT !.named = ~st[x].tracked \/ x \notin renamed] IN
               IF x \notin connected THEN st[x]
               ELSE IF Alive(s) /\ ~s.named /\ x \notin active
               THEN StopForSync(s, x \in gone)
               ELSE s]
  /\ soon' = TRUE
  /\ UNCHANGED <<connected, ready, poll, stagger, pending, up>>

\* The player is renamed; the watchdog sees it.
Rename(p) ==
  /\ up /\ "rename" \in World /\ Event
  /\ st[p].tracked
  /\ st' = [st EXCEPT ![p].named = ~@]
  /\ UNCHANGED <<connected, slaves, ready, poll, soon, stagger, pending, up>>

\* The key or the binary is removed, or comes back (Settings calls scheduleInit).
Prereqs ==
  /\ up /\ "prereqs" \in World /\ Event
  /\ ready' = ~ready
  /\ soon' = (soon \/ ready')
  /\ UNCHANGED <<st, connected, slaves, poll, stagger, pending, up>>

\* shutdown('restart') and the re-init its callers arm.
Restart ==
  /\ up /\ "restart" \in World /\ Event
  /\ \E gone \in SUBSET Quitters :
       st' = [p \in Players |-> IF st[p].tracked THEN Stop(st[p], p \in gone) ELSE st[p]]
  /\ poll' = FALSE
  /\ stagger' = {}
  /\ soon' = TRUE
  /\ UNCHANGED <<connected, slaves, ready, pending, up>>

\* The permanent shutdown: the blocking kill sequence on every live helper,
\* which a process may still survive; then LMS is gone and its timers with it.
Shutdown ==
  /\ up /\ "shutdown" \in World /\ Event
  /\ \E stuck \in IF "stuck" \in World THEN SUBSET LiveHelpers ELSE {{}} :
       st' = [p \in Players |->
               IF Alive(st[p]) /\ p \in stuck
               THEN [Stop([st[p] EXCEPT !.live = @ \ {st[p].proc}], FALSE)
                      EXCEPT !.live = st[p].live, !.lost = @ \cup {st[p].proc}]
               ELSE IF Alive(st[p])
               THEN Stop([st[p] EXCEPT !.live = @ \ {st[p].proc}], FALSE)
               ELSE IF st[p].tracked THEN Stop(st[p], FALSE) ELSE st[p]]
  /\ up' = FALSE
  /\ poll' = FALSE
  /\ soon' = FALSE
  /\ stagger' = {}
  /\ UNCHANGED <<connected, slaves, ready, pending>>

Next ==
  \/ InitHelpers
  \/ StreamAlivePoll
  \/ BinaryReplaced
  \/ Prereqs
  \/ Restart
  \/ Shutdown
  \/ \E p \in Players :
       \/ StaggeredStart(p) \/ DeferredStart(p)
       \/ NoteExpiredExit(p) \/ StartupFailure(p)
       \/ BackoffLapses(p) \/ IncidentLapses(p)
       \/ ClientEvent(p) \/ SyncEvent(p) \/ Rename(p)
       \/ \E q \in Procs : Exit(p, q) \/ ChainStep(p, q)

Spec == Init /\ [][Next]_vars

\* Timers fire and time passes; nothing is assumed of the processes and of the
\* world outside, and the incident need not end for recovery.
Fairness ==
  /\ WF_vars(InitHelpers)
  /\ WF_vars(StreamAlivePoll)
  /\ \A p \in Players :
       /\ WF_vars(StaggeredStart(p))
       /\ WF_vars(DeferredStart(p))
       /\ WF_vars(BackoffLapses(p))
       /\ \A q \in Procs : WF_vars(ChainStep(p, q))

FairSpec == Spec /\ Fairness

-----------------------------------------------------------------------------
(* Properties.                                                             *)

\* At most one daemon process runs for a player (same data directory, same
\* Connect device id), the ones ProcStop gave up on aside.
OneDaemon ==
  \A p \in Players : \A q, r \in st[p].live \ st[p].lost : q = r

\* Every live helper is under the poll: no stop of another player's helper and
\* no declined start leaves a running daemon unwatched.
AliveWatched == up /\ AnyAlive(st) => poll

\* A daemon that died during its backoff stays down until the backoff is over:
\* no watchdog, staggered or deferred start gets past the poll.  Only a binary
\* switch, which clears the backoff, and a stop for a sync change are exempt.
BackoffRespected ==
  [][\A p \in Players :
       Dead(st[p]) /\ ~st[p].deliberate /\ st[p].backoff /\ st[p]'.backoff
         => ~Alive(st[p]')]_vars

\* A helper stopped for a sync change is re-initialised in seconds, not with
\* the next 60 s tick: its process still owes the re-init, or it is due.  The
\* exceptions are a process ProcStop gave up on and a backend that is not ready.
SyncRestartPrompt ==
  \A p \in connected \ slaves :
    LET s == st[p] IN
    up /\ ready /\ s.tracked /\ s.deliberate
      => s.proc \in s.owed \cup s.lost \/ soon \/ p \in stagger

\* A player that should have a daemon gets one again after every crash, stop
\* and event, whatever the other players' helpers did to the shared poll.
Recovers ==
  \A p \in Players :
    []<>(Alive(st[p]) \/ p \notin connected \ slaves \/ ~ready \/ ~up)

\* What outlives LMS is at most one process of a player, the one whose chain was
\* not over (and those ProcStop gave up on): no helper is left running, however
\* the shutdown meets starts, switches and stops in flight.
OnlyExitingLeft ==
  ~up => \A p \in Players : ~st[p].tracked /\ st[p].live \subseteq st[p].lost \cup {st[p].term}

\* ProcStop.pm: at LMS shutdown "no daemon may be left behind".
NoDaemonLeftBehind == ~up => \A p \in Players : st[p].live \subseteq st[p].lost

\* DaemonManager.pm and its test: "a no_login health stop never feeds D-07
\* criterion (b)", so the poll still has a reason when it counts the death.
NoLoginStaysExempt ==
  \A p \in Players :
    Dead(st[p]) /\ ~st[p].deliberate /\ ~st[p].counted /\ st[p].cause = "no_login"
      => st[p].reason # "none"
=============================================================================
