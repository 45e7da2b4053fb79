------------------------- MODULE DaemonManagerProofs -------------------------
(***************************************************************************)
(* The safety properties of DaemonManager, proved for any players, process *)
(* ids, bounds and world.  Nearly everything is a fact about one player's  *)
(* record: what an operator of DaemonManager makes of a sound record is    *)
(* stated once, and each action applies operators to some of the records.  *)
(***************************************************************************)
EXTENDS DaemonManager, TLAPS

\* A helper's own process is the only one of its player that may run; without
\* a helper it is the one that is exiting.  Those ProcStop gave up on aside.
OwnProcess(s) ==
  /\ s.tracked => s.term \in {0, s.proc}
  /\ s.live \ s.lost \subseteq IF s.tracked THEN {s.proc} ELSE {s.term}

\* A backoff ends before its incident, and no deferred start goes past the gate.
GateShut(s) ==
  /\ s.backoff => s.incident
  /\ s.deferred # "crash"

\* Only a helper is stopped for a sync change; while its process runs it owes
\* the re-init.
Owes(s) ==
  s.deliberate => s.tracked /\ (Alive(s) => s.proc \in s.owed \cup s.lost)

Sound(s) == s \in PlayerStates /\ OwnProcess(s) /\ GateShut(s) /\ Owes(s)

PlayersSound == \A p \in Players : Sound(st[p])

-----------------------------------------------------------------------------
(* What the operators on one player's record do.                           *)

\* The crash state, which only the poll, a switch and time change.
SameCrash(s, t) ==
  /\ t.incident = s.incident /\ t.backoff = s.backoff /\ t.count = s.count

LEMMA AliveProc ==
  ASSUME NEW s \in PlayerStates, Alive(s)
  PROVE  s.proc \in Procs /\ s.proc # 0
BY DaemonManagerAssumption DEF PlayerStates, Alive

\* A terminated process exits at once or is the one that is exiting.
LEMMA TerminateDoes ==
  ASSUME NEW s \in PlayerStates, Alive(s), NEW owe \in BOOLEAN, NEW gone \in BOOLEAN
  PROVE  LET t == Terminate(s, owe, gone) IN
         /\ t \in PlayerStates
         /\ SameCrash(s, t)
         /\ t.tracked = s.tracked /\ t.proc = s.proc /\ t.lost = s.lost
         /\ t.deferred = s.deferred /\ t.named = s.named /\ t.deliberate = s.deliberate
         /\ t.reason = s.reason /\ t.cause = s.cause /\ t.counted = s.counted
         /\ s.owed \subseteq t.owed
         /\ \/ t.live = s.live /\ t.term = s.proc /\ (owe => s.proc \in t.owed)
            \/ t.live = s.live \ {s.proc} /\ t.term = s.term
<1>1. s.proc \in Procs
  BY AliveProc
<1>2. 1 \in 0 .. LastStep
  BY DaemonManagerAssumption
<1>3. CASE s.term = s.proc
  BY <1>1, <1>3 DEF Terminate, PlayerStates, SameCrash
<1>4. CASE s.term # s.proc /\ gone
  BY <1>1, <1>4 DEF Terminate, PlayerStates, SameCrash
<1>5. CASE s.term # s.proc /\ ~gone
  BY <1>1, <1>2, <1>5 DEF Terminate, PlayerStates, SameCrash
<1> QED
  BY <1>3, <1>4, <1>5

\* stopHelper leaves no helper; what still runs is exiting.
LEMMA StopDoes ==
  ASSUME NEW s, Sound(s), NEW gone \in BOOLEAN
  PROVE  LET t == Stop(s, gone) IN
         /\ Sound(t)
         /\ SameCrash(s, t) /\ t.deferred = s.deferred
         /\ ~t.tracked /\ ~t.deliberate /\ ~Alive(t)
<1> DEFINE t == Stop(s, gone)
<1>0. s \in PlayerStates
  BY DEF Sound
<1>1. CASE Alive(s)
  <2> DEFINE u == Terminate(s, FALSE, gone)
  <2>1. /\ u \in PlayerStates
        /\ SameCrash(s, u)
        /\ u.tracked = s.tracked /\ u.proc = s.proc /\ u.lost = s.lost
        /\ u.deferred = s.deferred
        /\ \/ u.live = s.live /\ u.term = s.proc
           \/ u.live = s.live \ {s.proc} /\ u.term = s.term
    BY <1>0, <1>1, TerminateDoes
  <2>2. t = [u EXCEPT !.tracked = FALSE, !.proc = 0, !.named = TRUE, !.deliberate = FALSE,
                      !.reason = "none", !.cause = "none", !.counted = FALSE]
    BY <1>1 DEF Stop
  <2> HIDE DEF t, u
  <2>3. /\ t \in PlayerStates
        /\ t.live = u.live /\ t.lost = u.lost /\ t.term = u.term /\ t.deferred = u.deferred
        /\ t.incident = u.incident /\ t.backoff = u.backoff /\ t.count = u.count
        /\ ~t.tracked /\ ~t.deliberate /\ t.proc = 0
    BY <2>1, <2>2 DEF PlayerStates, Reasons
  <2>4. t.live \ t.lost \subseteq {t.term}
    BY <1>1, <2>1, <2>3 DEF Sound, OwnProcess, Alive
  <2> QED
    BY <2>1, <2>3, <2>4 DEF Sound, OwnProcess, GateShut, Owes, SameCrash, Alive, t
<1>2. CASE ~Alive(s)
  <2>1. t = [s EXCEPT !.tracked = FALSE, !.proc = 0, !.named = TRUE, !.deliberate = FALSE,
                      !.reason = "none", !.cause = "none", !.counted = FALSE]
    BY <1>2 DEF Stop
  <2> HIDE DEF t
  <2>2. /\ t \in PlayerStates
        /\ t.live = s.live /\ t.lost = s.lost /\ t.term = s.term /\ t.deferred = s.deferred
        /\ SameCrash(s, t)
        /\ ~t.tracked /\ ~t.deliberate /\ t.proc = 0
    BY <1>0, <2>1 DEF PlayerStates, Reasons, SameCrash
  <2>3. t.live \ t.lost \subseteq {t.term}
    BY <1>2, <2>2 DEF Sound, OwnProcess, Alive
  <2> QED
    BY <2>2, <2>3 DEF Sound, OwnProcess, GateShut, Owes, SameCrash, Alive, t
<1> QED
  BY <1>1, <1>2

\* A new process is the only one: what ran before is dead or given up on.
LEMMA SpawnDoes ==
  ASSUME NEW s, Sound(s), ~Alive(s), ~Exiting(s), NEW ok \in BOOLEAN
  PROVE  LET t == Spawn(s, ok) IN
         /\ Sound(t)
         /\ SameCrash(s, t) /\ t.deferred = s.deferred
         /\ t.tracked /\ ~t.deliberate
<1> DEFINE t == Spawn(s, ok)
           base == [s EXCEPT !.tracked = TRUE, !.named = TRUE, !.deliberate = FALSE,
                             !.cause = "none", !.counted = FALSE, !.term = 0]
<1>0. s \in PlayerStates
  BY DEF Sound
<1>1. s.live \subseteq s.lost
  <2>1. CASE s.tracked
    BY <2>1 DEF Sound, OwnProcess, Alive
  <2>2. CASE ~s.tracked
    BY <1>0, <2>2, DaemonManagerAssumption DEF Sound, OwnProcess, Exiting, PlayerStates
  <2> QED
    BY <2>1, <2>2
<1>2. /\ base \in PlayerStates
      /\ base.live = s.live /\ base.lost = s.lost /\ base.term = 0 /\ base.deferred = s.deferred
      /\ SameCrash(s, base)
      /\ base.tracked /\ ~base.deliberate
  BY <1>0 DEF PlayerStates, Reasons, SameCrash
<1>3. CASE ok /\ FreeProcs(s) # {}
  <2>1. PICK q \in FreeProcs(s) : t = [base EXCEPT !.proc = q, !.live = @ \cup {q}, !.lost = @ \ {q}]
    BY <1>3 DEF Spawn
  <2>2. q \in Procs /\ q \notin s.live
    BY <2>1 DEF FreeProcs
  <2> HIDE DEF t, base
  <2>3. /\ t \in PlayerStates
        /\ t.live = s.live \cup {q} /\ t.lost = s.lost \ {q} /\ t.term = 0 /\ t.proc = q
        /\ t.deferred = s.deferred
        /\ SameCrash(s, t)
        /\ t.tracked /\ ~t.deliberate
    BY <1>2, <2>1, <2>2 DEF PlayerStates, SameCrash
  <2>4. t.live \ t.lost \subseteq {t.proc}
    BY <1>1, <2>2, <2>3
  <2> QED
    BY <2>3, <2>4 DEF Sound, OwnProcess, GateShut, Owes, SameCrash, t
<1>4. CASE ~(ok /\ FreeProcs(s) # {})
  <2>1. t = [base EXCEPT !.proc = 0]
    BY <1>4 DEF Spawn
  <2> HIDE DEF t, base
  <2>2. /\ t \in PlayerStates
        /\ t.live = s.live /\ t.lost = s.lost /\ t.term = 0 /\ t.proc = 0
        /\ t.deferred = s.deferred
        /\ SameCrash(s, t)
        /\ t.tracked /\ ~t.deliberate
    BY <1>2, <2>1 DEF PlayerStates, SameCrash
  <2> QED
    BY <1>1, <2>2 DEF Sound, OwnProcess, GateShut, Owes, SameCrash, t
<1> QED
  BY <1>3, <1>4

\* startHelper: a gated helper stays as it is, and so does one that runs; no
\* start waits for an exit on behalf of the poll.
LEMMA StartHelperDoes ==
  ASSUME NEW s, Sound(s), NEW crash \in BOOLEAN, crash => Dead(s),
         NEW active \in BOOLEAN, NEW gone \in BOOLEAN, NEW ok \in BOOLEAN
  PROVE  LET t == StartHelper(s, crash, active, gone, ok) IN
         /\ Sound(t)
         /\ SameCrash(s, t)
         /\ Gated(s, crash) => t = s
         /\ t.deliberate => t = s /\ (s.tracked => Alive(s))
<1> DEFINE t == StartHelper(s, crash, active, gone, ok)
           a == IF Alive(s) /\ ~s.named /\ ~active THEN Stop(s, gone) ELSE s
<1>1. /\ Sound(a) /\ SameCrash(s, a)
      /\ a = s \/ (~a.tracked /\ ~a.deliberate)
      /\ Dead(s) => a = s
  BY StopDoes DEF SameCrash, Alive, Dead
<1>2. a \in PlayerStates
  BY <1>1 DEF Sound
<1>3. t = IF Alive(a) \/ Gated(a, crash) THEN a
          ELSE IF Exiting(a) THEN Defer(a, crash) ELSE Spawn(a, ok)
  BY DEF StartHelper
<1> HIDE DEF t, a
<1>4. CASE Alive(a) \/ Gated(a, crash)
  BY <1>1, <1>3, <1>4 DEF t, Gated, Dead, Alive
<1>5. CASE ~Alive(a) /\ ~Gated(a, crash) /\ Exiting(a)
  <2>1. ~crash /\ ~a.tracked
    BY <1>1, <1>2, <1>5, DaemonManagerAssumption
       DEF Exiting, Sound, OwnProcess, Alive, Dead, PlayerStates
  <2>2. t = [a EXCEPT !.deferred = IF a.deferred # "no" THEN a.deferred ELSE "plain"]
    BY <1>2, <1>3, <1>5, <2>1 DEF Defer
  <2>3. /\ t \in PlayerStates
        /\ t.deferred # "crash"
        /\ t.live = a.live /\ t.lost = a.lost /\ t.term = a.term /\ t.proc = a.proc
        /\ t.owed = a.owed /\ t.deliberate = a.deliberate
        /\ SameCrash(a, t) /\ ~t.tracked
    BY <1>1, <1>2, <2>1, <2>2 DEF PlayerStates, SameCrash, Sound, GateShut
  <2>4. Sound(t) /\ ~t.deliberate
    BY <1>1, <2>1, <2>3 DEF Sound, OwnProcess, GateShut, Owes, Alive, SameCrash
  <2>5. SameCrash(s, t)
    BY <1>1, <2>3 DEF SameCrash
  <2>6. ~Gated(s, crash)
    BY <1>1, <1>5 DEF Gated
  <2> QED
    BY <2>4, <2>5, <2>6 DEF t
<1>6. CASE ~Alive(a) /\ ~Gated(a, crash) /\ ~Exiting(a)
  <2>1. t = Spawn(a, ok)
    BY <1>3, <1>6
  <2>2. Sound(t) /\ SameCrash(a, t) /\ ~t.deliberate
    BY <1>1, <1>6, <2>1, SpawnDoes
  <2>3. ~Gated(s, crash)
    BY <1>1, <1>6 DEF Gated
  <2> QED
    BY <1>1, <2>2, <2>3 DEF SameCrash, t
<1> QED
  BY <1>4, <1>5, <1>6

\* startHelper with the crash flag off leaves a helper in its backoff alone.
StaysDown(s, t) ==
  Dead(s) /\ ~s.deliberate /\ s.backoff /\ t.backoff => ~Alive(t)

\* A helper stopped for a sync change owes as much as before.
StillOwes(s, t) ==
  t.deliberate =>
    \/ Alive(t)
    \/ /\ s.tracked /\ s.deliberate /\ t.proc = s.proc
       /\ s.proc \in s.owed \cup s.lost => t.proc \in t.owed \cup t.lost

Moved(s, t) == Sound(t) /\ StaysDown(s, t) /\ StillOwes(s, t)

LEMMA StartMoves ==
  ASSUME NEW s, Sound(s), NEW active \in BOOLEAN, NEW gone \in BOOLEAN, NEW ok \in BOOLEAN
  PROVE  LET t == StartHelper(s, FALSE, active, gone, ok) IN
         Moved(s, t) /\ SameCrash(s, t) /\ (t.deliberate => t = s /\ Alive(t))
<1> DEFINE t == StartHelper(s, FALSE, active, gone, ok)
<1>1. /\ Sound(t) /\ SameCrash(s, t)
      /\ Gated(s, FALSE) => t = s
      /\ t.deliberate => t = s /\ (s.tracked => Alive(s))
  BY StartHelperDoes
<1> HIDE DEF t
<1>2. t.deliberate => t = s /\ Alive(t)
  BY <1>1 DEF Sound, Owes
<1>3. StaysDown(s, t)
  BY <1>1 DEF StaysDown, Gated, Sound, GateShut, Dead, Alive
<1> QED
  BY <1>1, <1>2, <1>3 DEF Moved, StillOwes, t

LEMMA StopMoves ==
  ASSUME NEW s, Sound(s), NEW gone \in BOOLEAN
  PROVE  LET t == Stop(s, gone) IN Moved(s, t) /\ ~t.tracked /\ ~Alive(t)
BY StopDoes DEF Moved, StaysDown, StillOwes

LEMMA Stays ==
  ASSUME NEW s, Sound(s)
  PROVE  Moved(s, s)
BY DEF Moved, StaysDown, StillOwes, Sound, Owes, Dead, Alive

\* A terminated process may end at once; its record stays what it was.
LEMMA TerminateMoves ==
  ASSUME NEW s, Sound(s), Alive(s), NEW gone \in BOOLEAN
  PROVE  Moved(s, Terminate(s, FALSE, gone))
<1> DEFINE t == Terminate(s, FALSE, gone)
<1>0. s \in PlayerStates
  BY DEF Sound
<1>1. /\ t \in PlayerStates
      /\ SameCrash(s, t)
      /\ t.tracked = s.tracked /\ t.proc = s.proc /\ t.lost = s.lost
      /\ t.deferred = s.deferred /\ t.deliberate = s.deliberate
      /\ s.owed \subseteq t.owed
      /\ \/ t.live = s.live /\ t.term = s.proc
         \/ t.live = s.live \ {s.proc} /\ t.term = s.term
  BY <1>0, TerminateDoes
<1> HIDE DEF t
<1>2. OwnProcess(t) /\ GateShut(t) /\ Owes(t)
  BY <1>1 DEF Sound, OwnProcess, GateShut, Owes, SameCrash, Alive
<1>3. StaysDown(s, t) /\ StillOwes(s, t)
  BY <1>1 DEF StaysDown, StillOwes, Alive, Dead, Sound, Owes
<1> QED
  BY <1>1, <1>2, <1>3 DEF Moved, Sound, t

\* A switch leaves a dead helper dead, and restarts a live one or stops it.
LEMMA SwitchMoves ==
  ASSUME NEW p, NEW s, Sound(s), NEW active \in BOOLEAN, NEW gone \in BOOLEAN,
         NEW ok \in BOOLEAN, NEW cleared \in BOOLEAN,
         NEW t, t = Switch(p, s, active, gone, ok, cleared)
  PROVE  /\ Moved(s, t)
         /\ ~Alive(s) => ~Alive(t)
         /\ Dead(s) => Dead(t) /\ t.deliberate = s.deliberate /\ (~t.backoff \/ t = s)
         /\ Alive(s) /\ t.deliberate => t = s
<1> DEFINE c == IF cleared THEN [s EXCEPT !.incident = FALSE, !.backoff = FALSE, !.count = 0]
                           ELSE s
           u == Stop(c, gone)
<1>0. s \in PlayerStates
  BY DEF Sound
<1>1. /\ c \in PlayerStates
      /\ c.tracked = s.tracked /\ c.proc = s.proc /\ c.lost = s.lost /\ c.live = s.live
      /\ c.term = s.term /\ c.owed = s.owed
      /\ c.deferred = s.deferred /\ c.deliberate = s.deliberate
      /\ c = s \/ ~c.backoff
  <2>1. 0 \in 0 .. LongCount
    BY DaemonManagerAssumption
  <2>2. CASE cleared
    <3>1. c = [s EXCEPT !.incident = FALSE, !.backoff = FALSE, !.count = 0]
      BY <2>2
    <3> HIDE DEF c
    <3> QED
      BY <1>0, <2>1, <3>1 DEF PlayerStates
  <2>3. CASE ~cleared
    BY <1>0, <2>3
  <2> QED
    BY <2>2, <2>3
<1>2. t = IF Dead(s) \/ ~s.tracked THEN c
          ELSE IF active THEN s
          ELSE IF CanStart(p) THEN StartHelper(u, FALSE, active, gone, ok)
          ELSE u
  BY DEF Switch
<1> HIDE DEF c
<1>3. Sound(c)
  BY <1>1 DEF Sound, OwnProcess, GateShut, Owes, Alive
<1>4. Sound(u) /\ ~u.tracked /\ ~u.deliberate
  BY <1>3, StopDoes
<1>5. CASE Dead(s) \/ ~s.tracked
  <2>1. t = c
    BY <1>2, <1>5
  <2>2. StaysDown(s, c) /\ StillOwes(s, c)
    BY <1>1 DEF StaysDown, StillOwes, Alive, Dead, Sound, Owes
  <2> QED
    BY <1>1, <1>3, <1>5, <2>1, <2>2 DEF Moved, Dead, Alive
<1>6. CASE ~(Dead(s) \/ ~s.tracked)
  <2>1. Alive(s) /\ ~Dead(s)
    BY <1>6 DEF Alive, Dead
  <2>2. CASE active
    BY <1>2, <1>6, <2>1, <2>2, Stays
  <2>3. CASE ~active
    <3>1. t = StartHelper(u, FALSE, active, gone, ok) \/ t = u
      BY <1>2, <1>6, <2>3
    <3> HIDE DEF u
    <3>2. Sound(t) /\ ~t.deliberate
      <4>1. CASE t = u
        BY <1>4, <4>1
      <4>2. CASE t = StartHelper(u, FALSE, active, gone, ok)
        <5> DEFINE v == StartHelper(u, FALSE, active, gone, ok)
        <5>1. Sound(u)
          BY <1>4
        <5>2. Moved(u, v) /\ (v.deliberate => v = u)
          BY <5>1, StartMoves
        <5> HIDE DEF v
        <5>3. t = v
          BY <4>2 DEF v
        <5> QED
          BY <1>4, <5>2, <5>3 DEF Moved
      <4> QED
        BY <3>1, <4>1, <4>2
    <3>3. Moved(s, t)
      BY <2>1, <3>2 DEF Moved, StillOwes, StaysDown
    <3> QED
      BY <2>1, <3>2, <3>3
  <2> QED
    BY <2>2, <2>3
<1> QED
  BY <1>5, <1>6

LEMMA CountCrashType ==
  ASSUME NEW s \in PlayerStates
  PROVE  CountCrash(s) \in 0 .. LongCount
<1>1. s.count \in 0 .. LongCount
  BY DEF PlayerStates
<1>2. LongCount \in Nat \ {0}
  BY DaemonManagerAssumption
<1> QED
  BY <1>1, <1>2 DEF CountCrash

\* The crash branch of the poll starts nothing before the backoff is over.
LEMMA CrashMoves ==
  ASSUME NEW s, Sound(s), Dead(s), ~s.deliberate,
         NEW rollback \in BOOLEAN, NEW can \in BOOLEAN, NEW ok \in BOOLEAN
  PROVE  LET t == Crash(s, rollback, can, ok) IN Moved(s, t) /\ (s.backoff => ~Alive(t))
<1> DEFINE read == [s EXCEPT !.reason = "none"]
           c == [read EXCEPT !.incident = TRUE, !.counted = TRUE, !.count = CountCrash(s)]
           b == [c EXCEPT !.backoff = TRUE]
           t == Crash(s, rollback, can, ok)
<1>0. s \in PlayerStates
  BY DEF Sound
<1>1. /\ Sound(read) /\ Dead(read) /\ ~read.deliberate
  <2>1. /\ read \in PlayerStates
        /\ read.tracked = s.tracked /\ read.proc = s.proc /\ read.lost = s.lost
        /\ read.live = s.live /\ read.term = s.term /\ read.owed = s.owed
        /\ read.deferred = s.deferred /\ read.deliberate = s.deliberate
        /\ read.backoff = s.backoff /\ read.incident = s.incident
    BY <1>0 DEF PlayerStates, Reasons
  <2> HIDE DEF read
  <2> QED
    BY <2>1 DEF Sound, OwnProcess, GateShut, Owes, Alive, Dead
<1> HIDE DEF read
<1>2. /\ Sound(c) /\ Dead(c) /\ ~c.deliberate
  <2>1. /\ c \in PlayerStates
        /\ c.tracked = read.tracked /\ c.proc = read.proc /\ c.lost = read.lost
        /\ c.live = read.live /\ c.term = read.term /\ c.owed = read.owed
        /\ c.deferred = read.deferred /\ c.deliberate = read.deliberate
        /\ c.incident = TRUE
    BY <1>0, <1>1, CountCrashType DEF PlayerStates, Sound
  <2> HIDE DEF c
  <2> QED
    BY <1>1, <2>1 DEF Sound, OwnProcess, GateShut, Owes, Alive, Dead
<1>3. /\ Sound(b) /\ Dead(b) /\ ~b.deliberate
  <2>1. /\ b \in PlayerStates
        /\ b.tracked = c.tracked /\ b.proc = c.proc /\ b.lost = c.lost
        /\ b.live = c.live /\ b.term = c.term /\ b.owed = c.owed
        /\ b.deferred = c.deferred /\ b.deliberate = c.deliberate
        /\ b.incident = c.incident
    BY <1>2 DEF PlayerStates, Sound
  <2>2. c.incident = TRUE
    BY <1>0, <1>1 DEF PlayerStates, Sound
  <2> HIDE DEF c, b
  <2> QED
    BY <1>2, <2>1, <2>2 DEF Sound, OwnProcess, GateShut, Owes, Alive, Dead
<1>4. t = IF s.backoff THEN read
          ELSE IF rollback THEN c
          ELSE IF can THEN StartHelper(b, TRUE, FALSE, FALSE, ok)
          ELSE b
  BY DEF Crash, read
<1> HIDE DEF c, b, t
<1>5. CASE s.backoff
  BY <1>1, <1>4, <1>5 DEF Moved, StaysDown, StillOwes, Dead, Alive, t
<1>6. CASE ~s.backoff
  <2>1. Sound(t) /\ ~t.deliberate
    <3>1. CASE t = c \/ t = b
      BY <1>2, <1>3, <3>1
    <3>2. CASE t = StartHelper(b, TRUE, FALSE, FALSE, ok)
      BY <1>3, <3>2, StartHelperDoes
    <3> QED
      BY <1>4, <1>6, <3>1, <3>2
  <2> QED
    BY <1>6, <2>1 DEF Moved, StaysDown, StillOwes, t
<1> QED
  BY <1>5, <1>6

\* A health stop terminates; only what it notes is its own.
LEMMA HealthMoves ==
  ASSUME NEW s, Sound(s), Alive(s), NEW r \in Reasons, NEW gone \in BOOLEAN
  PROVE  Moved(s, HealthStop(s, r, gone))
<1> DEFINE u == Terminate(s, FALSE, gone)
           t == HealthStop(s, r, gone)
<1>1. Moved(s, u)
  BY TerminateMoves
<1>2. t = [u EXCEPT !.reason = r, !.cause = IF @ = "none" THEN r ELSE @]
  BY DEF HealthStop
<1> HIDE DEF u, t
<1>3. u \in PlayerStates
  BY <1>1 DEF Moved, Sound
<1>4. /\ t \in PlayerStates
      /\ t.tracked = u.tracked /\ t.proc = u.proc /\ t.lost = u.lost
      /\ t.live = u.live /\ t.term = u.term /\ t.owed = u.owed
      /\ t.deferred = u.deferred /\ t.deliberate = u.deliberate
      /\ t.backoff = u.backoff /\ t.incident = u.incident
  BY <1>2, <1>3 DEF PlayerStates
<1>5. Sound(t)
  BY <1>1, <1>4 DEF Moved, Sound, OwnProcess, GateShut, Owes, Alive
<1> QED
  BY <1>1, <1>4, <1>5 DEF Moved, StaysDown, StillOwes, Alive, t

\* stopForSync: the process owes the re-init while it runs.
LEMMA SyncStopDoes ==
  ASSUME NEW s, Sound(s), Alive(s), NEW gone \in BOOLEAN
  PROVE  Sound(StopForSync(s, gone))
<1> DEFINE u == Terminate(s, TRUE, gone)
           t == StopForSync(s, gone)
<1>0. s \in PlayerStates
  BY DEF Sound
<1>1. /\ u \in PlayerStates
      /\ SameCrash(s, u)
      /\ u.tracked = s.tracked /\ u.proc = s.proc /\ u.lost = s.lost
      /\ u.deferred = s.deferred
      /\ \/ u.live = s.live /\ u.term = s.proc /\ s.proc \in u.owed
         \/ u.live = s.live \ {s.proc} /\ u.term = s.term
  <2>1. TRUE \in BOOLEAN
    OBVIOUS
  <2>2. /\ u \in PlayerStates
        /\ SameCrash(s, u)
        /\ u.tracked = s.tracked /\ u.proc = s.proc /\ u.lost = s.lost
        /\ u.deferred = s.deferred
    BY <1>0, <2>1, TerminateDoes, Zenon
  <2>3. \/ u.live = s.live /\ u.term = s.proc /\ (TRUE => s.proc \in u.owed)
        \/ u.live = s.live \ {s.proc} /\ u.term = s.term
    BY <1>0, <2>1, TerminateDoes, Zenon
  <2> HIDE DEF u
  <2> QED
    BY <2>2, <2>3
<1>2. t = [u EXCEPT !.deliberate = TRUE]
  BY DEF StopForSync
<1> HIDE DEF u, t
<1>3. /\ t \in PlayerStates
      /\ t.tracked = u.tracked /\ t.proc = u.proc /\ t.lost = u.lost
      /\ t.live = u.live /\ t.term = u.term /\ t.owed = u.owed
      /\ t.deferred = u.deferred
      /\ t.backoff = u.backoff /\ t.incident = u.incident
  BY <1>1, <1>2 DEF PlayerStates
<1>4. OwnProcess(t) /\ GateShut(t) /\ Owes(t)
  BY <1>1, <1>3 DEF Sound, OwnProcess, GateShut, Owes, SameCrash, Alive
<1> QED
  BY <1>3, <1>4 DEF Sound, t

-----------------------------------------------------------------------------
(* The poll: what starts and stops of one or many helpers make of it.      *)

\* States is a name for the type of st.
States == [Players -> PlayerStates]

LEMMA StartPoll ==
  ASSUME NEW a \in States, NEW p \in Players, NEW s, NEW t, NEW crash,
         NEW was \in BOOLEAN,
         Alive(s) = Alive(a[p]),
         AnyAlive(a) => was,
         NEW b, b = [a EXCEPT ![p] = t], AnyAlive(b)
  PROVE  PollAfterStart(was, s, t, crash, b)
<1>1. b[p] = t /\ \A x \in Players \ {p} : b[x] = a[x]
  BY DEF States
<1>2. AnyAlive(b)
  OBVIOUS
<1>3. CASE Alive(t)
  BY <1>3 DEF PollAfterStart, PollArmedBy
<1>4. CASE ~Alive(t)
  <2>1. AnyAlive(a)
    BY <1>1, <1>2, <1>4 DEF AnyAlive
  <2> QED
    BY <1>2, <2>1 DEF PollAfterStart, KillsPoll
<1> QED
  BY <1>3, <1>4

LEMMA SwitchPoll ==
  ASSUME NEW a, NEW b, NEW S, NEW was \in BOOLEAN,
         \A p \in Players : Alive(b[p]) => Alive(a[p]),
         AnyAlive(a) => was
  PROVE  AnyAlive(b) => PollAfterSwitches(was, S, b)
BY DEF AnyAlive, PollAfterSwitches, KillsPoll

-----------------------------------------------------------------------------
(* The inductive invariant, and what every step keeps.                     *)

IInv == TypeOK /\ PlayersSound /\ SyncRestartPrompt

\* What an action does for the four properties at once; the poll that rolls a
\* binary back is the exception.
Kept ==
  /\ IInv'
  /\ \A p \in Players : StaysDown(st[p], st'[p])

Watched == AliveWatched => AliveWatched'

\* The rest of the state keeps its types.
OthersTyped ==
  /\ connected \subseteq Players /\ slaves \subseteq connected
  /\ ready \in BOOLEAN /\ poll \in BOOLEAN /\ soon \in BOOLEAN
  /\ stagger \subseteq Players /\ pending \subseteq Players
  /\ up \in BOOLEAN /\ events \in 0 .. MaxEvents

LEMMA EventTyped ==
  ASSUME TypeOK, Event
  PROVE  events' \in 0 .. MaxEvents
BY DaemonManagerAssumption DEF TypeOK, Event

LEMMA Together ==
  ASSUME OthersTyped',
         st' = [p \in Players |-> st'[p]],
         \A p \in Players : Sound(st'[p]) /\ StaysDown(st[p], st'[p]),
         SyncRestartPrompt'
  PROVE  Kept
<1>1. \A p \in Players : st'[p] \in PlayerStates
  BY DEF Sound
<1>2. st' \in [Players -> PlayerStates]
  BY <1>1
<1> QED
  BY <1>2 DEF Kept, IInv, TypeOK, OthersTyped, PlayersSound

\* Nothing that a waiting re-init needs is lost.
LEMMA StillPrompt ==
  ASSUME IInv,
         \A p \in Players : Moved(st[p], st'[p]),
         connected' = connected, slaves' = slaves,
         up' => up, ready' => ready, soon => soon', stagger \subseteq stagger'
  PROVE  SyncRestartPrompt'
<1> SUFFICES ASSUME NEW p \in connected \ slaves,
                    up', ready', st'[p].tracked, st'[p].deliberate
             PROVE  st'[p].proc \in st'[p].owed \cup st'[p].lost \/ soon' \/ p \in stagger'
  BY DEF SyncRestartPrompt
<1>1. p \in Players
  BY DEF IInv, TypeOK
<1>2. CASE Alive(st'[p])
  BY <1>1, <1>2 DEF Moved, Sound, Owes
<1>3. CASE ~Alive(st'[p])
  BY <1>1, <1>3 DEF Moved, StillOwes, IInv, SyncRestartPrompt
<1> QED
  BY <1>2, <1>3

LEMMA AllMoved ==
  ASSUME IInv, OthersTyped',
         st' = [p \in Players |-> st'[p]],
         \A p \in Players : Moved(st[p], st'[p]),
         connected' = connected, slaves' = slaves,
         up' => up, ready' => ready, soon => soon', stagger \subseteq stagger'
  PROVE  Kept
BY StillPrompt, Together DEF Moved

\* One player's record changes.
LEMMA OneMoved ==
  ASSUME IInv, NEW p \in Players, NEW t, Moved(st[p], t), st' = [st EXCEPT ![p] = t]
  PROVE  /\ st' = [x \in Players |-> st'[x]]
         /\ \A x \in Players : Moved(st[x], st'[x])
<1>1. st \in [Players -> PlayerStates]
  BY DEF IInv, TypeOK
<1>2. \A x \in Players : st'[x] = IF x = p THEN t ELSE st[x]
  BY <1>1
<1>3. \A x \in Players : Moved(st[x], st[x])
  BY Stays DEF IInv, PlayersSound
<1> QED
  BY <1>1, <1>2, <1>3

\* No helper comes alive, and the poll stays.
LEMMA NoneNew ==
  ASSUME \A p \in Players : Alive(st'[p]) => Alive(st[p]), up' => up, poll => poll'
  PROVE  Watched
BY DEF Watched, AliveWatched, AnyAlive

LEMMA BackoffLapsesKeeps ==
  ASSUME IInv, NEW p \in Players, BackoffLapses(p)
  PROVE  Kept /\ Watched
<1> DEFINE t == [st[p] EXCEPT !.backoff = FALSE]
<1>1. Sound(st[p]) /\ st[p] \in PlayerStates
  BY DEF IInv, PlayersSound, Sound
<1>2. /\ t \in PlayerStates
      /\ t.tracked = st[p].tracked /\ t.proc = st[p].proc /\ t.lost = st[p].lost
      /\ t.live = st[p].live /\ t.term = st[p].term /\ t.owed = st[p].owed
      /\ t.deferred = st[p].deferred /\ t.deliberate = st[p].deliberate
      /\ t.backoff = FALSE
  BY <1>1 DEF PlayerStates
<1>3. st' = [st EXCEPT ![p] = t]
  BY DEF BackoffLapses
<1> HIDE DEF t
<1>4. Moved(st[p], t)
  BY <1>1, <1>2 DEF Moved, Sound, OwnProcess, GateShut, Owes, StaysDown, StillOwes, Alive, Dead
<1>5. \A x \in Players : Alive(st'[x]) => Alive(st[x])
  BY <1>2, <1>3 DEF Alive, IInv, TypeOK
<1>6. OthersTyped'
  BY DEF OthersTyped, BackoffLapses, IInv, TypeOK
<1> QED
  BY <1>3, <1>4, <1>5, <1>6, OneMoved, AllMoved, NoneNew DEF BackoffLapses

LEMMA IncidentLapsesKeeps ==
  ASSUME IInv, NEW p \in Players, IncidentLapses(p)
  PROVE  Kept /\ Watched
<1> DEFINE t == [st[p] EXCEPT !.incident = FALSE, !.count = 0]
<1>1. Sound(st[p]) /\ st[p] \in PlayerStates
  BY DEF IInv, PlayersSound, Sound
<1>2. /\ t \in PlayerStates
      /\ t.tracked = st[p].tracked /\ t.proc = st[p].proc /\ t.lost = st[p].lost
      /\ t.live = st[p].live /\ t.term = st[p].term /\ t.owed = st[p].owed
      /\ t.deferred = st[p].deferred /\ t.deliberate = st[p].deliberate
      /\ t.backoff = FALSE
  <2>1. 0 \in 0 .. LongCount
    BY DaemonManagerAssumption
  <2> QED
    BY <1>1, <2>1 DEF PlayerStates, IncidentLapses
<1>3. st' = [st EXCEPT ![p] = t]
  BY <1>1 DEF IncidentLapses, IInv, TypeOK
<1> HIDE DEF t
<1>4. Moved(st[p], t)
  BY <1>1, <1>2 DEF Moved, Sound, OwnProcess, GateShut, Owes, StaysDown, StillOwes, Alive, Dead
<1>5. \A x \in Players : Alive(st'[x]) => Alive(st[x])
  BY <1>2, <1>3 DEF Alive, IInv, TypeOK
<1>6. OthersTyped'
  BY DEF OthersTyped, IncidentLapses, IInv, TypeOK
<1> QED
  BY <1>3, <1>4, <1>5, <1>6, OneMoved, AllMoved, NoneNew DEF IncidentLapses

LEMMA RenameKeeps ==
  ASSUME IInv, NEW p \in Players, Rename(p)
  PROVE  Kept /\ Watched
<1> DEFINE t == [st[p] EXCEPT !.named = ~@]
<1>1. Sound(st[p]) /\ st[p] \in PlayerStates
  BY DEF IInv, PlayersSound, Sound
<1>2. /\ t \in PlayerStates
      /\ t.tracked = st[p].tracked /\ t.proc = st[p].proc /\ t.lost = st[p].lost
      /\ t.live = st[p].live /\ t.term = st[p].term /\ t.owed = st[p].owed
      /\ t.deferred = st[p].deferred /\ t.deliberate = st[p].deliberate
      /\ t.backoff = st[p].backoff /\ t.incident = st[p].incident
  BY <1>1 DEF PlayerStates
<1>3. st' = [st EXCEPT ![p] = t]
  BY DEF Rename
<1> HIDE DEF t
<1>4. Moved(st[p], t)
  BY <1>1, <1>2 DEF Moved, Sound, OwnProcess, GateShut, Owes, StaysDown, StillOwes, Alive, Dead
<1>5. \A x \in Players : Alive(st'[x]) => Alive(st[x])
  BY <1>2, <1>3 DEF Alive, IInv, TypeOK
<1>6. OthersTyped'
  BY DaemonManagerAssumption DEF OthersTyped, Rename, Event, IInv, TypeOK
<1> QED
  BY <1>3, <1>4, <1>5, <1>6, OneMoved, AllMoved, NoneNew DEF Rename

LEMMA ExitKeeps ==
  ASSUME IInv, NEW p \in Players, NEW q \in Procs, Exit(p, q)
  PROVE  Kept /\ Watched
<1> DEFINE t == [st[p] EXCEPT !.live = @ \ {q}]
<1>1. Sound(st[p]) /\ st[p] \in PlayerStates
  BY DEF IInv, PlayersSound, Sound
<1>2. /\ t \in PlayerStates
      /\ t.tracked = st[p].tracked /\ t.proc = st[p].proc /\ t.lost = st[p].lost
      /\ t.live = st[p].live \ {q} /\ t.term = st[p].term /\ t.owed = st[p].owed
      /\ t.deferred = st[p].deferred /\ t.deliberate = st[p].deliberate
      /\ t.backoff = st[p].backoff /\ t.incident = st[p].incident
  BY <1>1 DEF PlayerStates
<1>3. st' = [st EXCEPT ![p] = t]
  BY DEF Exit
<1> HIDE DEF t
<1>4. Moved(st[p], t)
  BY <1>1, <1>2 DEF Moved, Sound, OwnProcess, GateShut, Owes, StaysDown, StillOwes, Alive, Dead
<1>5. \A x \in Players : Alive(st'[x]) => Alive(st[x])
  BY <1>2, <1>3 DEF Alive, IInv, TypeOK
<1>6. OthersTyped'
  BY DaemonManagerAssumption DEF OthersTyped, Exit, Event, IInv, TypeOK
<1> QED
  BY <1>3, <1>4, <1>5, <1>6, OneMoved, AllMoved, NoneNew DEF Exit

\* The helpers stay as they are.
LEMMA HelpersStay ==
  ASSUME IInv, OthersTyped', UNCHANGED st, SyncRestartPrompt'
  PROVE  Kept
<1>1. \A p \in Players : Moved(st[p], st[p])
  BY Stays DEF IInv, PlayersSound
<1> QED
  BY <1>1, Together DEF Moved, IInv, TypeOK

LEMMA BinaryReplacedKeeps ==
  ASSUME IInv, BinaryReplaced
  PROVE  Kept /\ Watched
<1>1. OthersTyped'
  BY DaemonManagerAssumption DEF OthersTyped, BinaryReplaced, Event, IInv, TypeOK
<1>2. SyncRestartPrompt'
  BY DEF BinaryReplaced, IInv, SyncRestartPrompt
<1> QED
  BY <1>1, <1>2, HelpersStay, NoneNew DEF BinaryReplaced

LEMMA PrereqsKeeps ==
  ASSUME IInv, Prereqs
  PROVE  Kept /\ Watched
<1>1. OthersTyped'
  BY DaemonManagerAssumption DEF OthersTyped, Prereqs, Event, IInv, TypeOK
<1>2. SyncRestartPrompt'
  BY DEF Prereqs, SyncRestartPrompt
<1> QED
  BY <1>1, <1>2, HelpersStay, NoneNew DEF Prereqs

LEMMA ClientEventKeeps ==
  ASSUME IInv, NEW p \in Players, ClientEvent(p)
  PROVE  Kept /\ Watched
<1>1. connected' \subseteq Players /\ slaves' \subseteq connected'
  BY DEF ClientEvent, IInv, TypeOK
<1>2. OthersTyped'
  BY <1>1, DaemonManagerAssumption DEF OthersTyped, ClientEvent, Event, IInv, TypeOK
<1>3. SyncRestartPrompt'
  BY DEF ClientEvent, SyncRestartPrompt
<1> QED
  BY <1>2, <1>3, HelpersStay, NoneNew DEF ClientEvent

LEMMA NoteExpiredExitKeeps ==
  ASSUME IInv, NEW p \in Players, NoteExpiredExit(p)
  PROVE  Kept /\ Watched
<1> DEFINE t == Stop(st[p], FALSE)
<1>1. Sound(st[p])
  BY DEF IInv, PlayersSound
<1>2. FALSE \in BOOLEAN
  OBVIOUS
<1>3. Moved(st[p], t) /\ ~Alive(t)
  BY <1>1, <1>2, StopMoves
<1>4. st' = [st EXCEPT ![p] = t]
  BY DEF NoteExpiredExit
<1> HIDE DEF t
<1>5. OthersTyped'
  <2>1. events' \in 0 .. MaxEvents
    BY EventTyped DEF IInv, NoteExpiredExit
  <2>2. poll' \in BOOLEAN
    BY DEF NoteExpiredExit
  <2> QED
    BY <2>1, <2>2 DEF OthersTyped, NoteExpiredExit, IInv, TypeOK
<1>6. Kept
  <2>1. /\ st' = [x \in Players |-> st'[x]]
        /\ \A x \in Players : Moved(st[x], st'[x])
    BY <1>3, <1>4, OneMoved
  <2>2. ready' => ready
    BY DEF NoteExpiredExit
  <2> QED
    BY <1>5, <2>1, <2>2, AllMoved DEF NoteExpiredExit
<1>7. \A x \in Players : Alive(st'[x]) => Alive(st[x])
  BY <1>3, <1>4 DEF IInv, TypeOK
<1>8. Watched
  BY <1>7 DEF Watched, AliveWatched, AnyAlive, NoteExpiredExit, KillsPoll
<1> QED
  BY <1>6, <1>8

LEMMA RestartKeeps ==
  ASSUME IInv, Restart
  PROVE  Kept /\ Watched
<1>1. PICK gone \in SUBSET Quitters :
        st' = [p \in Players |-> IF st[p].tracked THEN Stop(st[p], p \in gone) ELSE st[p]]
  BY DEF Restart
<1>2. \A p \in Players : Moved(st[p], st'[p]) /\ ~Alive(st'[p])
  <2> TAKE p \in Players
  <2>1. Sound(st[p])
    BY DEF IInv, PlayersSound
  <2>0. (p \in gone) \in BOOLEAN
    OBVIOUS
  <2>2. CASE st[p].tracked
    BY <1>1, <2>0, <2>1, <2>2, StopMoves
  <2>3. CASE ~st[p].tracked
    BY <1>1, <2>1, <2>3, Stays DEF Alive
  <2> QED
    BY <2>2, <2>3
<1>3. OthersTyped'
  <2>1. events' \in 0 .. MaxEvents
    BY EventTyped DEF IInv, Restart
  <2>2. /\ poll' = FALSE /\ soon' \in BOOLEAN /\ stagger' = {} /\ up' \in BOOLEAN
        /\ UNCHANGED <<connected, slaves, ready, pending>>
    BY DEF Restart, IInv, TypeOK
  <2> QED
    BY <2>1, <2>2 DEF OthersTyped, IInv, TypeOK
<1>4. SyncRestartPrompt'
  BY DEF Restart, SyncRestartPrompt
<1>5. Kept
  BY <1>1, <1>2, <1>3, <1>4, Together DEF Moved
<1> QED
  BY <1>2, <1>5 DEF Watched, AliveWatched, AnyAlive

LEMMA ShutdownKeeps ==
  ASSUME IInv, Shutdown
  PROVE  Kept /\ Watched
<1> DEFINE Killed(s) == [s EXCEPT !.live = @ \ {s.proc}]
           Left(s) == [Stop(Killed(s), FALSE) EXCEPT !.live = s.live, !.lost = @ \cup {s.proc}]
<1>1. PICK stuck \in SUBSET LiveHelpers :
        st' = [p \in Players |->
                IF Alive(st[p]) /\ p \in stuck THEN Left(st[p])
                ELSE IF Alive(st[p]) THEN Stop(Killed(st[p]), FALSE)
                ELSE IF st[p].tracked THEN Stop(st[p], FALSE) ELSE st[p]]
  BY DEF Shutdown
<1>2. FALSE \in BOOLEAN
  OBVIOUS
<1>3. ASSUME NEW s, Sound(s), Alive(s)
      PROVE  /\ Sound(Killed(s)) /\ Killed(s).lost = s.lost
             /\ Sound(Stop(Killed(s), FALSE)) /\ ~Stop(Killed(s), FALSE).tracked
             /\ ~Stop(Killed(s), FALSE).deliberate
             /\ Stop(Killed(s), FALSE).lost = s.lost
  <2> DEFINE k == Killed(s)
  <2>0. s \in PlayerStates
    BY <1>3 DEF Sound
  <2>1. /\ k \in PlayerStates
        /\ k.tracked = s.tracked /\ k.proc = s.proc /\ k.lost = s.lost
        /\ k.live = s.live \ {s.proc} /\ k.term = s.term /\ k.owed = s.owed
        /\ k.deferred = s.deferred /\ k.deliberate = s.deliberate
        /\ k.backoff = s.backoff /\ k.incident = s.incident
    BY <2>0 DEF PlayerStates
  <2> HIDE DEF k
  <2>2. Sound(k) /\ ~Alive(k)
    BY <1>3, <2>1 DEF Sound, OwnProcess, GateShut, Owes, Alive
  <2>3. Stop(k, FALSE).lost = k.lost
    BY <2>1, <2>2 DEF Stop, PlayerStates
  <2>4. Sound(Stop(k, FALSE)) /\ ~Stop(k, FALSE).tracked /\ ~Stop(k, FALSE).deliberate
    BY <1>2, <2>2, StopDoes
  <2> QED
    BY <2>1, <2>2, <2>3, <2>4 DEF k
<1>4. ASSUME NEW s, Sound(s), Alive(s)
      PROVE  Sound(Left(s)) /\ ~Left(s).tracked
  <2> DEFINE u == Stop(Killed(s), FALSE)
             t == Left(s)
  <2>1. Sound(u) /\ ~u.tracked /\ ~u.deliberate /\ u.lost = s.lost
    BY <1>3, <1>4
  <2>2. s \in PlayerStates /\ s.proc \in Procs
    BY <1>4, AliveProc DEF Sound
  <2>3. t = [u EXCEPT !.live = s.live, !.lost = @ \cup {s.proc}]
    OBVIOUS
  <2> HIDE DEF u, t
  <2>4. /\ t \in PlayerStates
        /\ t.tracked = u.tracked /\ t.proc = u.proc /\ t.lost = s.lost \cup {s.proc}
        /\ t.live = s.live /\ t.term = u.term /\ t.owed = u.owed
        /\ t.deferred = u.deferred /\ t.deliberate = u.deliberate
        /\ t.backoff = u.backoff /\ t.incident = u.incident
    BY <2>1, <2>2, <2>3 DEF PlayerStates, Sound
  <2> QED
    BY <1>4, <2>1, <2>4 DEF Sound, OwnProcess, GateShut, Owes, Alive, t
<1>5. \A p \in Players : Sound(st'[p]) /\ ~Alive(st'[p])
  <2> TAKE p \in Players
  <2>1. Sound(st[p])
    BY DEF IInv, PlayersSound
  <2> HIDE DEF Killed, Left
  <2>2. CASE Alive(st[p]) /\ p \in stuck
    BY <1>1, <1>4, <2>1, <2>2 DEF Alive
  <2>3. CASE Alive(st[p]) /\ p \notin stuck
    BY <1>1, <1>3, <2>1, <2>3 DEF Alive
  <2>4. CASE ~Alive(st[p]) /\ st[p].tracked
    BY <1>1, <1>2, <2>1, <2>4, StopMoves DEF Moved
  <2>5. CASE ~Alive(st[p]) /\ ~st[p].tracked
    BY <1>1, <2>1, <2>5
  <2> QED
    BY <2>2, <2>3, <2>4, <2>5
<1> HIDE DEF Killed, Left
<1>6. OthersTyped'
  <2>1. events' \in 0 .. MaxEvents
    BY EventTyped DEF IInv, Shutdown
  <2>2. /\ poll' = FALSE /\ soon' \in BOOLEAN /\ stagger' = {} /\ up' \in BOOLEAN
        /\ UNCHANGED <<connected, slaves, ready, pending>>
    BY DEF Shutdown, IInv, TypeOK
  <2> QED
    BY <2>1, <2>2 DEF OthersTyped, IInv, TypeOK
<1>7. SyncRestartPrompt'
  BY DEF Shutdown, SyncRestartPrompt
<1>8. Kept
  BY <1>1, <1>5, <1>6, <1>7, Together DEF StaysDown
<1> QED
  BY <1>5, <1>8 DEF Watched, AliveWatched, AnyAlive

\* What the end of a chain does to the record, whichever way it ended.
Finished(s, q, t) ==
  /\ t \in PlayerStates
  /\ t.tracked = s.tracked /\ t.proc = s.proc /\ t.deliberate = s.deliberate
  /\ t.deferred = s.deferred /\ t.backoff = s.backoff /\ t.incident = s.incident
  /\ t.live \subseteq s.live /\ s.lost \subseteq t.lost
  /\ t.owed = s.owed \ {q}
  /\ t.term = IF s.term = q THEN 0 ELSE s.term
  /\ q \notin t.live \/ q \in t.lost

LEMMA FinishDoes ==
  ASSUME NEW s \in PlayerStates, NEW q \in Procs
  PROVE  /\ q \notin s.live => Finished(s, q, Finish(s, q))
         /\ Finished(s, q, [Finish(s, q) EXCEPT !.lost = @ \cup {q}])
         /\ Finished(s, q, Finish([s EXCEPT !.live = @ \ {q}], q))
<1> DEFINE f == Finish(s, q)
           g == [f EXCEPT !.lost = @ \cup {q}]
           k == [s EXCEPT !.live = @ \ {q}]
<1>0. 0 \in 0 .. LastStep
  BY DaemonManagerAssumption
<1>1. /\ f \in PlayerStates
      /\ f = [s EXCEPT !.chain = [s.chain EXCEPT ![q] = 0],
                       !.term = IF s.term = q THEN 0 ELSE s.term, !.owed = s.owed \ {q}]
  <2>1. f = [s EXCEPT !.chain = [s.chain EXCEPT ![q] = 0],
                      !.term = IF s.term = q THEN 0 ELSE s.term, !.owed = s.owed \ {q}]
    BY DEF Finish, PlayerStates
  <2>2. [s.chain EXCEPT ![q] = 0] \in [Procs -> 0 .. LastStep]
    BY <1>0 DEF PlayerStates
  <2> HIDE DEF f
  <2> QED
    BY <2>1, <2>2 DEF PlayerStates
<1>2. k \in PlayerStates
  BY DEF PlayerStates
<1>3. /\ Finish(k, q) \in PlayerStates
      /\ Finish(k, q) = [k EXCEPT !.chain = [k.chain EXCEPT ![q] = 0],
                       !.term = IF k.term = q THEN 0 ELSE k.term, !.owed = k.owed \ {q}]
  <2> DEFINE h == Finish(k, q)
  <2> HIDE DEF k
  <2>1. h = [k EXCEPT !.chain = [k.chain EXCEPT ![q] = 0],
                      !.term = IF k.term = q THEN 0 ELSE k.term, !.owed = k.owed \ {q}]
    BY <1>2 DEF Finish, PlayerStates
  <2>2. [k.chain EXCEPT ![q] = 0] \in [Procs -> 0 .. LastStep]
    BY <1>0, <1>2 DEF PlayerStates
  <2> HIDE DEF h
  <2>3. h \in PlayerStates
    BY <1>2, <2>1, <2>2 DEF PlayerStates
  <2> QED
    BY <2>1, <2>3 DEF h
<1> HIDE DEF f
<1>4. Finished(s, q, g)
  <2>1. g = [f EXCEPT !.lost = f.lost \cup {q}]
    OBVIOUS
  <2>2. /\ f.tracked = s.tracked /\ f.proc = s.proc /\ f.deliberate = s.deliberate
        /\ f.deferred = s.deferred /\ f.backoff = s.backoff /\ f.incident = s.incident
        /\ f.live = s.live /\ f.lost = s.lost
        /\ f.owed = s.owed \ {q} /\ f.term = IF s.term = q THEN 0 ELSE s.term
    BY <1>1 DEF PlayerStates
  <2> HIDE DEF g
  <2>5. f \in PlayerStates
    BY <1>1
  <2>3. g \in PlayerStates
    BY <2>5, <2>1 DEF PlayerStates
  <2>4. /\ g.tracked = f.tracked /\ g.proc = f.proc /\ g.deliberate = f.deliberate
        /\ g.deferred = f.deferred /\ g.backoff = f.backoff /\ g.incident = f.incident
        /\ g.live = f.live /\ g.lost = f.lost \cup {q}
        /\ g.owed = f.owed /\ g.term = f.term
    BY <1>1, <2>1 DEF PlayerStates
  <2> QED
    BY <2>2, <2>3, <2>4 DEF Finished, g
<1>5. q \notin s.live => Finished(s, q, f)
  BY <1>1 DEF Finished, PlayerStates
<1>6. Finished(s, q, Finish(k, q))
  <2> DEFINE h == Finish(k, q)
  <2>1. /\ k.tracked = s.tracked /\ k.proc = s.proc /\ k.deliberate = s.deliberate
        /\ k.deferred = s.deferred /\ k.backoff = s.backoff /\ k.incident = s.incident
        /\ k.live = s.live \ {q} /\ k.lost = s.lost
        /\ k.owed = s.owed /\ k.term = s.term
    BY DEF PlayerStates
  <2> HIDE DEF k, h
  <2>2. /\ h.tracked = k.tracked /\ h.proc = k.proc /\ h.deliberate = k.deliberate
        /\ h.deferred = k.deferred /\ h.backoff = k.backoff /\ h.incident = k.incident
        /\ h.live = k.live /\ h.lost = k.lost
        /\ h.owed = k.owed \ {q} /\ h.term = IF k.term = q THEN 0 ELSE k.term
    BY <1>2, <1>3 DEF PlayerStates, h
  <2> QED
    BY <1>3, <2>1, <2>2 DEF Finished, h
<1> QED
  BY <1>4, <1>5, <1>6 DEF f, g, k

LEMMA FinishedMoves ==
  ASSUME NEW s, Sound(s), NEW q \in Procs, NEW t, Finished(s, q, t)
  PROVE  Sound(t) /\ StaysDown(s, t) /\ (Alive(t) => Alive(s))
BY DEF Finished, Sound, OwnProcess, GateShut, Owes, StaysDown, Alive, Dead

LEMMA ChainStepKeeps ==
  ASSUME IInv, NEW p \in Players, NEW q \in Procs, ChainStep(p, q)
  PROVE  Kept /\ Watched
<1> DEFINE s == st[p]
           on == [s EXCEPT !.chain[q] = @ + 1]
<1>1. Sound(s) /\ s \in PlayerStates
  BY DEF IInv, PlayersSound, Sound
<1>2. OthersTyped'
  BY DEF OthersTyped, ChainStep, IInv, TypeOK
<1>3. CASE /\ q \in s.live /\ s.chain[q] < LastStep
           /\ st' = [st EXCEPT ![p].chain[q] = @ + 1]
           /\ UNCHANGED soon
  <2>1. s.chain[q] + 1 \in 0 .. LastStep
    BY <1>1, <1>3, DaemonManagerAssumption DEF PlayerStates
  <2>2. st' = [st EXCEPT ![p] = on]
    BY <1>3
  <2>3. /\ on \in PlayerStates
        /\ on.tracked = s.tracked /\ on.proc = s.proc /\ on.lost = s.lost
        /\ on.live = s.live /\ on.term = s.term /\ on.owed = s.owed
        /\ on.deferred = s.deferred /\ on.deliberate = s.deliberate
        /\ on.backoff = s.backoff /\ on.incident = s.incident
    <3>1. on = [s EXCEPT !.chain = [s.chain EXCEPT ![q] = s.chain[q] + 1]]
      OBVIOUS
    <3>2. [s.chain EXCEPT ![q] = s.chain[q] + 1] \in [Procs -> 0 .. LastStep]
      BY <1>1, <2>1 DEF PlayerStates
    <3> HIDE DEF on
    <3> QED
      BY <1>1, <3>1, <3>2 DEF PlayerStates
  <2> HIDE DEF on
  <2>4. Moved(s, on)
    BY <1>1, <2>3 DEF Moved, Sound, OwnProcess, GateShut, Owes, StaysDown, StillOwes, Alive, Dead
  <2>5. \A x \in Players : Alive(st'[x]) => Alive(st[x])
    BY <2>2, <2>3 DEF Alive, IInv, TypeOK
  <2> QED
    BY <1>2, <1>3, <2>2, <2>4, <2>5, OneMoved, AllMoved, NoneNew DEF ChainStep
<1>4. ASSUME NEW t, Finished(s, q, t), st' = [st EXCEPT ![p] = t],
             soon' = (soon \/ q \in s.owed)
      PROVE  Kept /\ Watched
  <2>1. Sound(t) /\ StaysDown(s, t) /\ (Alive(t) => Alive(s))
    BY <1>1, <1>4, FinishedMoves
  <2>2. \A x \in Players : st'[x] = IF x = p THEN t ELSE st[x]
    BY <1>4 DEF IInv, TypeOK
  <2>3. \A x \in Players : Sound(st'[x]) /\ StaysDown(st[x], st'[x])
    BY <2>1, <2>2, Stays DEF IInv, PlayersSound, Moved
  <2>4. SyncRestartPrompt'
    <3> SUFFICES ASSUME NEW x \in connected \ slaves,
                        up, ready, st'[x].tracked, st'[x].deliberate
                 PROVE  st'[x].proc \in st'[x].owed \cup st'[x].lost \/ soon' \/ x \in stagger
      BY DEF SyncRestartPrompt, ChainStep
    <3>1. x \in Players
      BY DEF IInv, TypeOK
    <3>2. CASE x # p
      BY <1>4, <2>2, <3>1, <3>2 DEF IInv, SyncRestartPrompt
    <3>3. CASE x = p
      BY <1>4, <2>2, <3>1, <3>3 DEF IInv, SyncRestartPrompt, Finished
    <3> QED
      BY <3>2, <3>3
  <2>5. st' = [x \in Players |-> st'[x]]
    BY <1>4 DEF IInv, TypeOK
  <2>6. \A x \in Players : Alive(st'[x]) => Alive(st[x])
    BY <2>1, <2>2
  <2> QED
    BY <1>2, <2>3, <2>4, <2>5, <2>6, Together, NoneNew DEF ChainStep
<1>5. /\ q \notin s.live => Finished(s, q, Finish(s, q))
      /\ Finished(s, q, [Finish(s, q) EXCEPT !.lost = @ \cup {q}])
      /\ Finished(s, q, Finish([s EXCEPT !.live = @ \ {q}], q))
  BY <1>1, FinishDoes
<1> QED
  <2>1. CASE /\ q \notin s.live
             /\ st' = [st EXCEPT ![p] = Finish(s, q)]
             /\ soon' = (soon \/ q \in s.owed)
    BY <1>4, <1>5, <2>1
  <2>2. CASE /\ q \in s.live /\ s.chain[q] = LastStep
             /\ st' = [st EXCEPT ![p] = [Finish(s, q) EXCEPT !.lost = @ \cup {q}]]
             /\ soon' = (soon \/ q \in s.owed)
    BY <1>4, <1>5, <2>2
  <2>3. CASE /\ q \in s.live /\ s.chain[q] < LastStep
             /\ st' = [st EXCEPT ![p] = Finish([s EXCEPT !.live = @ \ {q}], q)]
             /\ soon' = (soon \/ q \in s.owed)
    BY <1>4, <1>5, <2>3
  <2> QED
    BY <1>3, <2>1, <2>2, <2>3 DEF ChainStep

LEMMA SyncEventKeeps ==
  ASSUME IInv, NEW p \in Players, SyncEvent(p)
  PROVE  Kept /\ Watched
<1> DEFINE N(x, renamed) == [st[x] EXCEPT !.named = ~st[x].tracked \/ x \notin renamed]
<1>1. PICK renamed \in SUBSET connected, active \in SUBSET LiveHelpers, gone \in SUBSET Quitters :
        st' = [x \in Players |->
                IF x \notin connected THEN st[x]
                ELSE IF Alive(N(x, renamed)) /\ ~N(x, renamed).named /\ x \notin active
                THEN StopForSync(N(x, renamed), x \in gone)
                ELSE N(x, renamed)]
  BY DEF SyncEvent
<1>2. \A x \in Players : /\ Sound(st'[x]) /\ StaysDown(st[x], st'[x])
                         /\ Alive(st'[x]) => Alive(st[x])
  <2> TAKE x \in Players
  <2> DEFINE n == N(x, renamed)
  <2>1. Sound(st[x]) /\ st[x] \in PlayerStates
    BY DEF IInv, PlayersSound, Sound
  <2>2. /\ n \in PlayerStates
        /\ n.tracked = st[x].tracked /\ n.proc = st[x].proc /\ n.lost = st[x].lost
        /\ n.live = st[x].live /\ n.term = st[x].term /\ n.owed = st[x].owed
        /\ n.deferred = st[x].deferred /\ n.deliberate = st[x].deliberate
        /\ n.backoff = st[x].backoff /\ n.incident = st[x].incident
    <3>1. (~st[x].tracked \/ x \notin renamed) \in BOOLEAN
      OBVIOUS
    <3> QED
      BY <2>1, <3>1 DEF PlayerStates
  <2>3. st'[x] = IF x \notin connected THEN st[x]
                 ELSE IF Alive(n) /\ ~n.named /\ x \notin active
                 THEN StopForSync(n, x \in gone)
                 ELSE n
    BY <1>1
  <2> HIDE DEF N, n
  <2>4. Sound(n) /\ Alive(n) = Alive(st[x])
    BY <2>1, <2>2 DEF Sound, OwnProcess, GateShut, Owes, Alive
  <2>5. (x \in gone) \in BOOLEAN
    OBVIOUS
  <2>6. CASE st'[x] = st[x]
    BY <2>1, <2>6, Stays DEF Moved
  <2>7. CASE st'[x] = n
    BY <2>2, <2>4, <2>7 DEF StaysDown, Dead, Alive
  <2>8. CASE Alive(n) /\ st'[x] = StopForSync(n, x \in gone)
    <3>1. Sound(st'[x])
      BY <2>4, <2>5, <2>8, SyncStopDoes
    <3>2. ~Dead(st[x]) /\ Alive(st[x])
      BY <2>4, <2>8 DEF Dead, Alive
    <3> QED
      BY <3>1, <3>2 DEF StaysDown
  <2> QED
    BY <2>3, <2>6, <2>7, <2>8
<1> HIDE DEF N
<1>3. OthersTyped'
  <2>1. events' \in 0 .. MaxEvents
    BY EventTyped DEF IInv, SyncEvent
  <2>2. slaves' \subseteq connected'
    BY DEF SyncEvent, IInv, TypeOK
  <2>3. /\ soon' \in BOOLEAN
        /\ UNCHANGED <<connected, ready, poll, stagger, pending, up>>
    BY DEF SyncEvent
  <2> QED
    BY <2>1, <2>2, <2>3 DEF OthersTyped, IInv, TypeOK
<1>4. SyncRestartPrompt'
  BY DEF SyncEvent, SyncRestartPrompt
<1>5. st' = [x \in Players |-> st'[x]]
  BY <1>1
<1> QED
  BY <1>2, <1>3, <1>4, <1>5, Together, NoneNew DEF SyncEvent

LEMMA StaggeredStartKeeps ==
  ASSUME IInv, NEW p \in Players, StaggeredStart(p)
  PROVE  Kept /\ Watched
<1>1. OthersTyped'
  <2>1. CASE ~CanStart(p)
    BY <2>1 DEF OthersTyped, StaggeredStart, StartFromTimer, IInv, TypeOK
  <2>2. CASE CanStart(p)
    <3>1. poll' \in BOOLEAN
      BY <2>2 DEF StaggeredStart, StartFromTimer, PollAfterStart
    <3> QED
      BY <3>1 DEF OthersTyped, StaggeredStart, IInv, TypeOK
  <2> QED
    BY <2>1, <2>2
<1>2. CASE ~CanStart(p)
  <2>1. UNCHANGED <<st, connected, slaves, ready, poll, soon, up>> /\ stagger' = stagger \ {p}
    BY <1>2 DEF StaggeredStart, StartFromTimer
  <2>2. SyncRestartPrompt'
    BY <1>2, <2>1 DEF IInv, SyncRestartPrompt, CanStart
  <2> QED
    BY <1>1, <2>1, <2>2, HelpersStay, NoneNew
<1>3. CASE CanStart(p)
  <2>1. PICK active \in SUBSET LiveHelpers, gone \in SUBSET Quitters, launched \in Launches :
          LET t == StartHelper(st[p], FALSE, p \in active, p \in gone, p \in launched)
          IN /\ st' = [st EXCEPT ![p] = t]
             /\ poll' = PollAfterStart(poll, st[p], t, FALSE, st')
    BY <1>3 DEF StaggeredStart, StartFromTimer
  <2> DEFINE t == StartHelper(st[p], FALSE, p \in active, p \in gone, p \in launched)
  <2>2. Sound(st[p]) /\ st \in States /\ poll \in BOOLEAN
    BY DEF IInv, PlayersSound, TypeOK, States
  <2>3. (p \in active) \in BOOLEAN /\ (p \in gone) \in BOOLEAN /\ (p \in launched) \in BOOLEAN
    OBVIOUS
  <2>4. Moved(st[p], t) /\ (t.deliberate => Alive(t))
    BY <2>2, <2>3, StartMoves
  <2>5. st' = [st EXCEPT ![p] = t] /\ poll' = PollAfterStart(poll, st[p], t, FALSE, st')
    BY <2>1
  <2> HIDE DEF t
  <2>6. /\ st' = [x \in Players |-> st'[x]]
        /\ \A x \in Players : Moved(st[x], st'[x])
    BY <2>4, <2>5, OneMoved
  <2>7. \A x \in Players : st'[x] = IF x = p THEN t ELSE st[x]
    BY <2>2, <2>5 DEF States
  <2>8. SyncRestartPrompt'
    <3> SUFFICES ASSUME NEW x \in connected \ slaves,
                        up, ready, st'[x].tracked, st'[x].deliberate
                 PROVE  st'[x].proc \in st'[x].owed \cup st'[x].lost \/ soon \/ x \in stagger'
      BY DEF SyncRestartPrompt, StaggeredStart
    <3>1. CASE x # p
      BY <2>7, <3>1 DEF IInv, SyncRestartPrompt, TypeOK, StaggeredStart
    <3>2. CASE x = p
      BY <2>4, <2>7, <3>2 DEF Moved, Sound, Owes
    <3> QED
      BY <3>1, <3>2
  <2>9. Kept
    BY <1>1, <2>6, <2>8, Together DEF Moved
  <2>10. Watched
    <3> SUFFICES ASSUME AliveWatched, AnyAlive(st') PROVE poll'
      BY DEF Watched, AliveWatched
    <3>1. AnyAlive(st) => poll
      BY DEF AliveWatched, StaggeredStart
    <3>2. PollAfterStart(poll, st[p], t, FALSE, st')
      BY <2>2, <2>5, <3>1, StartPoll
    <3> QED
      BY <2>5, <3>2
  <2> QED
    BY <2>9, <2>10
<1> QED
  BY <1>2, <1>3

LEMMA DeferredStartKeeps ==
  ASSUME IInv, NEW p \in Players, DeferredStart(p)
  PROVE  Kept /\ Watched
<1> DEFINE s == [st[p] EXCEPT !.deferred = "no"]
<1>0. Sound(st[p]) /\ st[p] \in PlayerStates /\ st \in States /\ poll \in BOOLEAN
  BY DEF IInv, PlayersSound, Sound, TypeOK, States
<1>1. /\ s \in PlayerStates
      /\ s.tracked = st[p].tracked /\ s.proc = st[p].proc /\ s.lost = st[p].lost
      /\ s.live = st[p].live /\ s.term = st[p].term /\ s.owed = st[p].owed
      /\ s.deferred = "no" /\ s.deliberate = st[p].deliberate
      /\ s.backoff = st[p].backoff /\ s.incident = st[p].incident
  BY <1>0 DEF PlayerStates
<1>2. CASE ~CanStart(p)
  <2>1. st' = [st EXCEPT ![p] = s] /\ UNCHANGED poll
    BY <1>2 DEF DeferredStart
  <2> HIDE DEF s
  <2>2. Moved(st[p], s) /\ Alive(s) = Alive(st[p])
    BY <1>0, <1>1 DEF Moved, Sound, OwnProcess, GateShut, Owes, StaysDown, StillOwes, Alive, Dead
  <2>3. \A x \in Players : Alive(st'[x]) => Alive(st[x])
    BY <1>0, <2>1, <2>2 DEF States
  <2>4. OthersTyped'
    BY <2>1 DEF OthersTyped, DeferredStart, IInv, TypeOK
  <2> QED
    BY <2>1, <2>2, <2>3, <2>4, OneMoved, AllMoved, NoneNew DEF DeferredStart
<1>3. CASE CanStart(p)
  <2>1. PICK active \in SUBSET LiveHelpers, gone \in SUBSET Quitters, launched \in Launches :
          LET crash == st[p].deferred = "crash"
              t == StartHelper(s, crash, p \in active, p \in gone, p \in launched)
          IN /\ st' = [st EXCEPT ![p] = t]
             /\ poll' = PollAfterStart(poll, s, t, crash, st')
    BY <1>3 DEF DeferredStart
  <2> DEFINE t == StartHelper(s, FALSE, p \in active, p \in gone, p \in launched)
  <2>2. Sound(s) /\ Alive(s) = Alive(st[p])
    <3> HIDE DEF s
    <3> QED
      BY <1>0, <1>1 DEF Sound, OwnProcess, GateShut, Owes, Alive
  <2>3. (p \in active) \in BOOLEAN /\ (p \in gone) \in BOOLEAN /\ (p \in launched) \in BOOLEAN
    OBVIOUS
  <2>4. (st[p].deferred = "crash") = FALSE
    BY <1>0 DEF Sound, GateShut
  <2>5. st' = [st EXCEPT ![p] = t] /\ poll' = PollAfterStart(poll, s, t, FALSE, st')
    BY <2>1, <2>4
  <2> HIDE DEF s
  <2>6. Moved(s, t) /\ (t.deliberate => Alive(t))
    BY <2>2, <2>3, StartMoves
  <2> HIDE DEF t
  <2>7. Moved(st[p], t)
    BY <1>1, <2>2, <2>6 DEF Moved, StaysDown, StillOwes, Dead, Alive
  <2>8. OthersTyped'
    <3>1. poll' \in BOOLEAN
      BY <2>5 DEF PollAfterStart
    <3> QED
      BY <3>1 DEF OthersTyped, DeferredStart, IInv, TypeOK
  <2>9. Kept
    BY <2>5, <2>7, <2>8, OneMoved, AllMoved DEF DeferredStart
  <2>10. Watched
    <3> SUFFICES ASSUME AliveWatched, AnyAlive(st') PROVE poll'
      BY DEF Watched, AliveWatched
    <3>1. AnyAlive(st) => poll
      BY DEF AliveWatched, DeferredStart
    <3>2. PollAfterStart(poll, s, t, FALSE, st')
      BY <1>0, <2>2, <2>5, <3>1, StartPoll
    <3> QED
      BY <2>5, <3>2
  <2> QED
    BY <2>9, <2>10
<1> QED
  BY <1>2, <1>3

\* The switch of many helpers.
LEMMA SwitchesMove ==
  ASSUME NEW a, NEW waiting, NEW active, NEW gone, NEW launched, NEW cleared \in BOOLEAN,
         \A p \in Players : Sound(a[p]),
         NEW b, b = ProcessPendingSwitches(a, waiting, active, gone, launched, cleared)
  PROVE  /\ b = [p \in Players |-> b[p]]
         /\ \A p \in Players :
              /\ Moved(a[p], b[p])
              /\ Alive(b[p]) => Alive(a[p])
              /\ Dead(a[p]) => Dead(b[p]) /\ b[p].deliberate = a[p].deliberate
                               /\ (~b[p].backoff \/ b[p] = a[p])
              /\ Alive(a[p]) /\ b[p].deliberate => b[p] = a[p]
              /\ p \notin waiting => b[p] = a[p]
<1>1. b = [p \in Players |->
            IF p \in waiting
            THEN Switch(p, a[p], p \in active, p \in gone, p \in launched, cleared)
            ELSE a[p]]
  BY DEF ProcessPendingSwitches
<1>2. ASSUME NEW p \in Players
      PROVE  /\ Moved(a[p], b[p])
             /\ Alive(b[p]) => Alive(a[p])
             /\ Dead(a[p]) => Dead(b[p]) /\ b[p].deliberate = a[p].deliberate
                              /\ (~b[p].backoff \/ b[p] = a[p])
             /\ Alive(a[p]) /\ b[p].deliberate => b[p] = a[p]
             /\ p \notin waiting => b[p] = a[p]
  <2>1. (p \in active) \in BOOLEAN /\ (p \in gone) \in BOOLEAN /\ (p \in launched) \in BOOLEAN
    OBVIOUS
  <2>2. CASE p \in waiting
    <3>1. b[p] = Switch(p, a[p], p \in active, p \in gone, p \in launched, cleared)
      BY <1>1, <2>2
    <3>2. Sound(a[p])
      OBVIOUS
    <3>3. ASSUME NEW A \in BOOLEAN, NEW G \in BOOLEAN, NEW L \in BOOLEAN,
                 b[p] = Switch(p, a[p], A, G, L, cleared)
          PROVE  /\ Moved(a[p], b[p])
                 /\ ~Alive(a[p]) => ~Alive(b[p])
                 /\ Dead(a[p]) => Dead(b[p]) /\ b[p].deliberate = a[p].deliberate
                                  /\ (~b[p].backoff \/ b[p] = a[p])
                 /\ Alive(a[p]) /\ b[p].deliberate => b[p] = a[p]
      BY <3>2, <3>3, SwitchMoves
    <3> QED
      BY <2>1, <2>2, <3>1, <3>3
  <2>3. CASE p \notin waiting
    BY <1>1, <2>3, Stays
  <2> QED
    BY <2>2, <2>3
<1> QED
  BY <1>1, <1>2

LEMMA StartupFailureKeeps ==
  ASSUME IInv, NEW p \in Players, StartupFailure(p)
  PROVE  Kept /\ Watched
<1> DEFINE One(gone) == IF Alive(st[p])
                        THEN [st EXCEPT ![p] = Terminate(st[p], FALSE, p \in gone)] ELSE st
<1>1. PICK gone \in SUBSET Quitters, swapped \in BOOLEAN, tried \in BOOLEAN :
        IF ~swapped
        THEN /\ st' = One(gone)
             /\ pending' = IF tried THEN pending \ {p} ELSE pending
             /\ UNCHANGED poll
        ELSE \E active \in SUBSET LiveHelpers, launched \in Launches :
               /\ st' = RolledBack(One(gone), active, gone, launched)
               /\ pending' = LiveIn(One(gone)) \cap active
               /\ poll' = PollAfterSwitches(poll, LiveIn(One(gone)) \ active, st')
  BY DEF StartupFailure
<1> DEFINE one == One(gone)
<1>2. /\ one = [x \in Players |-> one[x]]
      /\ \A x \in Players : Moved(st[x], one[x]) /\ (Alive(one[x]) => Alive(st[x]))
  <2>1. \A x \in Players : Sound(st[x])
    BY DEF IInv, PlayersSound
  <2>2. (p \in gone) \in BOOLEAN
    OBVIOUS
  <2>3. CASE Alive(st[p])
    <3>1. Moved(st[p], Terminate(st[p], FALSE, p \in gone))
      BY <2>1, <2>2, <2>3, TerminateMoves
    <3>2. one = [st EXCEPT ![p] = Terminate(st[p], FALSE, p \in gone)]
      BY <2>3
    <3> HIDE DEF one
    <3> QED
      BY <2>1, <2>3, <3>1, <3>2, Stays DEF IInv, TypeOK
  <2>4. CASE ~Alive(st[p])
    BY <2>1, <2>4, Stays DEF IInv, TypeOK
  <2> QED
    BY <2>3, <2>4
<1>3. /\ UNCHANGED <<connected, slaves, ready, soon, stagger, up>>
      /\ events' \in 0 .. MaxEvents
  BY EventTyped DEF IInv, StartupFailure
<1> HIDE DEF one
<1>4. CASE ~swapped
  <2>1. st' = one /\ pending' \subseteq pending /\ poll' = poll
    BY <1>1, <1>4 DEF one
  <2>2. OthersTyped'
    BY <1>3, <2>1 DEF OthersTyped, IInv, TypeOK
  <2> QED
    BY <1>2, <1>3, <2>1, <2>2, AllMoved, NoneNew
<1>5. CASE swapped
  <2>1. PICK active \in SUBSET LiveHelpers, launched \in Launches :
               /\ st' = RolledBack(one, active, gone, launched)
               /\ pending' = LiveIn(one) \cap active
               /\ poll' = PollAfterSwitches(poll, LiveIn(one) \ active, st')
    BY <1>1, <1>5 DEF one
  <2>2. st' = ProcessPendingSwitches(one, LiveIn(one), active, gone, launched, TRUE)
    BY <2>1 DEF RolledBack
  <2>3. /\ st' = [x \in Players |-> st'[x]]
        /\ \A x \in Players :
             /\ Moved(one[x], st'[x])
             /\ Alive(st'[x]) => Alive(one[x])
             /\ Alive(one[x]) /\ st'[x].deliberate => st'[x] = one[x]
             /\ x \notin LiveIn(one) => st'[x] = one[x]
    <3>1. \A x \in Players : Sound(one[x])
      BY <1>2 DEF Moved
    <3>2. PICK c \in BOOLEAN : c = TRUE
      OBVIOUS
    <3>3. st' = ProcessPendingSwitches(one, LiveIn(one), active, gone, launched, c)
      BY <2>2, <3>2
    <3> QED
      BY <3>1, <3>3, SwitchesMove
  <2>4. \A x \in Players : Moved(st[x], st'[x])
    <3> TAKE x \in Players
    <3>1. CASE x \notin LiveIn(one)
      BY <1>2, <2>3, <3>1
    <3>2. CASE x \in LiveIn(one)
      <4>1. Alive(one[x]) /\ Alive(st[x])
        BY <1>2, <3>2 DEF LiveIn
      <4>2. ~Dead(st[x]) /\ ~Dead(one[x])
        BY <4>1 DEF Dead, Alive
      <4>3. StaysDown(st[x], st'[x])
        BY <4>2 DEF StaysDown
      <4>4. Sound(st'[x])
        BY <2>3 DEF Moved
      <4>6. StillOwes(st[x], st'[x])
        BY <2>3, <4>1 DEF StillOwes
      <4> QED
        BY <4>3, <4>4, <4>6 DEF Moved
    <3> QED
      BY <3>1, <3>2
  <2>5. OthersTyped'
    <3>1. poll' \in BOOLEAN
      BY <2>1 DEF PollAfterSwitches
    <3>2. pending' \subseteq Players
      BY <2>1 DEF LiveIn
    <3> QED
      BY <1>3, <3>1, <3>2 DEF OthersTyped, IInv, TypeOK
  <2>6. Watched
    <3> SUFFICES ASSUME AliveWatched PROVE AnyAlive(st') => poll'
      BY DEF Watched, AliveWatched
    <3>1. AnyAlive(st) => poll
      BY DEF AliveWatched, StartupFailure
    <3>2. \A x \in Players : Alive(st'[x]) => Alive(st[x])
      BY <1>2, <2>3
    <3>3. poll \in BOOLEAN
      BY DEF IInv, TypeOK
    <3> QED
      BY <2>1, <3>1, <3>2, <3>3, SwitchPoll
  <2> QED
    BY <1>3, <2>3, <2>4, <2>5, <2>6, AllMoved
<1> QED
  BY <1>4, <1>5

\* The first start waits for nothing; the other players' starts are staggered.
LEMMA InitHelpersKeeps ==
  ASSUME IInv, InitHelpers
  PROVE  Kept /\ Watched
<1> DEFINE Switched(active) == {p \in pending : Alive(st[p]) /\ p \notin active}
           Stopped(one) == {p \in Players : one[p].tracked /\ p \notin connected} \cup slaves
           Two(one, gone) ==
             [p \in Players |-> IF p \in Stopped(one) THEN Stop(one[p], p \in gone) ELSE one[p]]
           PollTwo(one, two, active) ==
             /\ PollAfterSwitches(poll, Switched(active), one)
             /\ Stopped(one) # {} => ~KillsPoll(two)
           Start(s, first, active, gone, launched) ==
             StartHelper(s, FALSE, first \in active, first \in gone, first \in launched)
<1>1. PICK active \in SUBSET LiveHelpers, gone \in SUBSET Quitters, launched \in Launches,
           cleared \in IF pending = {} THEN {FALSE} ELSE BOOLEAN :
        LET one == ProcessPendingSwitches(st, pending, active, gone, launched, cleared)
            two == Two(one, gone)
        IN /\ pending' = {p \in pending : Alive(st[p]) /\ p \in active}
           /\ IF connected \ slaves = {}
              THEN st' = two /\ poll' = PollTwo(one, two, active) /\ stagger' = {}
              ELSE \E first \in connected \ slaves :
                     LET t == IF ready THEN Start(two[first], first, active, gone, launched)
                                       ELSE two[first]
                     IN /\ st' = [two EXCEPT ![first] = t]
                        /\ poll' = IF ready
                                   THEN PollAfterStart(PollTwo(one, two, active),
                                                       two[first], t, FALSE, st')
                                   ELSE PollTwo(one, two, active)
                        /\ stagger' = (connected \ slaves) \ {first}
  BY DEF InitHelpers
<1>2. cleared \in BOOLEAN
  OBVIOUS
<1> DEFINE one == ProcessPendingSwitches(st, pending, active, gone, launched, cleared)
           two == Two(one, gone)
           pollTwo == PollTwo(one, two, active)
<1>3. \A p \in Players :
        /\ Moved(st[p], one[p])
        /\ Alive(one[p]) => Alive(st[p])
        /\ Dead(st[p]) => Dead(one[p]) /\ one[p].deliberate = st[p].deliberate
                          /\ (~one[p].backoff \/ one[p] = st[p])
  <2>1. \A p \in Players : Sound(st[p])
    BY DEF IInv, PlayersSound
  <2>2. PICK b : b = ProcessPendingSwitches(st, pending, active, gone, launched, cleared)
    OBVIOUS
  <2>3. one = b
    BY <2>2
  <2> HIDE DEF one
  <2> QED
    BY <1>2, <2>1, <2>2, <2>3, SwitchesMove
<1> HIDE DEF one
<1>4. \A p \in Players :
        /\ Moved(st[p], two[p])
        /\ Alive(two[p]) => Alive(one[p])
        /\ p \notin Stopped(one) => two[p] = one[p]
  <2> TAKE p \in Players
  <2>1. (p \in gone) \in BOOLEAN
    OBVIOUS
  <2>2. two[p] = IF p \in Stopped(one) THEN Stop(one[p], p \in gone) ELSE one[p]
    OBVIOUS
  <2> HIDE DEF two, Stopped
  <2>3. CASE p \in Stopped(one)
    <3>1. Sound(one[p])
      BY <1>3 DEF Moved
    <3>2. two[p] = Stop(one[p], p \in gone)
      BY <2>2, <2>3
    <3>3. Moved(one[p], two[p]) /\ ~Alive(two[p]) /\ ~two[p].tracked
      BY <2>1, <3>1, <3>2, StopMoves
    <3>4. ~two[p].deliberate
      BY <3>3 DEF Moved, Sound, Owes
    <3> QED
      BY <2>3, <3>3, <3>4 DEF Moved, StaysDown, StillOwes
  <2>4. CASE p \notin Stopped(one)
    BY <1>3, <2>2, <2>4
  <2> QED
    BY <2>3, <2>4
<1>5. two = [p \in Players |-> two[p]]
  OBVIOUS
<1>6. pollTwo \in BOOLEAN /\ (AliveWatched => (AnyAlive(two) => pollTwo))
  <2>1. pollTwo \in BOOLEAN
    BY DEF PollAfterSwitches
  <2>2. pollTwo = (/\ PollAfterSwitches(poll, Switched(active), one)
                   /\ Stopped(one) # {} => ~KillsPoll(two))
    OBVIOUS
  <2> HIDE DEF two, pollTwo, Stopped, Switched, PollTwo
  <2> SUFFICES ASSUME AliveWatched, AnyAlive(two) PROVE pollTwo
    BY <2>1
  <2>3. AnyAlive(st) => poll
    BY DEF AliveWatched, InitHelpers
  <2>4. AnyAlive(one)
    BY <1>4 DEF AnyAlive
  <2>5. PollAfterSwitches(poll, Switched(active), one)
    BY <1>3, <2>3, <2>4, SwitchPoll DEF IInv, TypeOK
  <2> QED
    BY <2>2, <2>5 DEF KillsPoll
<1>7. /\ pending' \subseteq Players
      /\ IF connected \ slaves = {}
         THEN st' = two /\ poll' = pollTwo /\ stagger' = {}
         ELSE \E first \in connected \ slaves :
                LET t == IF ready THEN Start(two[first], first, active, gone, launched)
                                  ELSE two[first]
                IN /\ st' = [two EXCEPT ![first] = t]
                   /\ poll' = IF ready
                              THEN PollAfterStart(pollTwo, two[first], t, FALSE, st')
                              ELSE pollTwo
                   /\ stagger' = (connected \ slaves) \ {first}
  BY <1>1 DEF one, IInv, TypeOK
<1>8. /\ soon' = FALSE
      /\ up
      /\ UNCHANGED <<connected, slaves, ready, up, events>>
  BY DEF InitHelpers
<1>9. ASSUME NEW p \in connected \ slaves
      PROVE  p \in Players /\ two[p] = one[p]
  BY <1>4 DEF IInv, TypeOK
<1> HIDE DEF two, pollTwo, Two, Stopped, Switched, PollTwo, Start
<1>10. CASE connected \ slaves = {}
  <2>1. st' = two /\ poll' = pollTwo /\ stagger' = {}
    BY <1>7, <1>10
  <2>2. OthersTyped'
    BY <1>6, <1>7, <1>8, <2>1 DEF OthersTyped, IInv, TypeOK
  <2>3. SyncRestartPrompt'
    BY <1>8, <1>10 DEF SyncRestartPrompt
  <2>4. Watched
    BY <1>6, <1>8, <2>1 DEF Watched, AliveWatched
  <2> QED
    BY <1>4, <1>5, <2>1, <2>2, <2>3, <2>4, Together DEF Moved
<1>11. CASE connected \ slaves # {}
  <2>1. PICK first \in connected \ slaves :
                LET t == IF ready THEN Start(two[first], first, active, gone, launched)
                                  ELSE two[first]
                IN /\ st' = [two EXCEPT ![first] = t]
                   /\ poll' = IF ready
                              THEN PollAfterStart(pollTwo, two[first], t, FALSE, st')
                              ELSE pollTwo
                   /\ stagger' = (connected \ slaves) \ {first}
    BY <1>7, <1>11
  <2>2. first \in Players /\ two[first] = one[first]
    BY <1>9
  <2>3. Sound(two[first]) /\ two \in States
    <3>1. \A p \in Players : two[p] \in PlayerStates
      BY <1>4 DEF Moved, Sound
    <3> QED
      BY <1>4, <1>5, <2>2, <3>1 DEF Moved, States
  <2>4. CASE ~ready
    <3>1. st' = two /\ poll' = pollTwo
      BY <2>1, <2>2, <2>3, <2>4 DEF States
    <3>2. OthersTyped'
      BY <1>6, <1>7, <1>8, <2>1, <3>1 DEF OthersTyped, IInv, TypeOK
    <3>3. SyncRestartPrompt'
      BY <1>8, <2>4 DEF SyncRestartPrompt
    <3>4. Watched
      BY <1>6, <1>8, <3>1 DEF Watched, AliveWatched
    <3> QED
      BY <1>4, <1>5, <3>1, <3>2, <3>3, <3>4, Together DEF Moved
  <2>5. CASE ready
    <3> DEFINE t == Start(two[first], first, active, gone, launched)
    <3>1. /\ st' = [two EXCEPT ![first] = t]
          /\ poll' = PollAfterStart(pollTwo, two[first], t, FALSE, st')
      BY <2>1, <2>5
    <3>2. Moved(two[first], t) /\ SameCrash(two[first], t) /\ (t.deliberate => Alive(t))
      <4>1. /\ (first \in active) \in BOOLEAN /\ (first \in gone) \in BOOLEAN
            /\ (first \in launched) \in BOOLEAN
        OBVIOUS
      <4> QED
        BY <2>3, <4>1, StartMoves DEF Start
    <3> HIDE DEF t
    <3>3. \A p \in Players : st'[p] = IF p = first THEN t ELSE two[p]
      BY <2>3, <3>1 DEF States
    <3>4. StaysDown(st[first], t)
      BY <1>3, <2>2, <3>2 DEF StaysDown, Moved, SameCrash
    <3>5. \A p \in Players : Sound(st'[p]) /\ StaysDown(st[p], st'[p])
      BY <1>4, <3>2, <3>3, <3>4 DEF Moved
    <3>6. OthersTyped'
      <4>1. poll' \in BOOLEAN
        BY <1>6, <3>1 DEF PollAfterStart
      <4> QED
        BY <1>7, <1>8, <2>1, <4>1 DEF OthersTyped, IInv, TypeOK
    <3>7. SyncRestartPrompt'
      <4> SUFFICES ASSUME NEW p \in connected \ slaves, st'[p].deliberate
                   PROVE  st'[p].proc \in st'[p].owed \cup st'[p].lost \/ p \in stagger'
        BY <1>8 DEF SyncRestartPrompt
      <4>1. CASE p = first
        BY <2>2, <3>2, <3>3, <4>1 DEF Moved, Sound, Owes
      <4>2. CASE p # first
        BY <2>1, <4>2
      <4> QED
        BY <4>1, <4>2
    <3>8. st' = [p \in Players |-> st'[p]]
      BY <2>3, <3>1 DEF States
    <3>9. Watched
      <4> SUFFICES ASSUME AliveWatched, AnyAlive(st') PROVE poll'
        BY DEF Watched, AliveWatched
      <4>1. AnyAlive(two) => pollTwo
        BY <1>6
      <4>2. PollAfterStart(pollTwo, two[first], t, FALSE, st')
        BY <1>6, <2>2, <2>3, <3>1, <4>1, StartPoll
      <4> QED
        BY <3>1, <4>2
    <3> QED
      BY <3>5, <3>6, <3>7, <3>8, <3>9, Together
  <2> QED
    BY <2>4, <2>5
<1> QED
  BY <1>10, <1>11

\* A poll that finds a rollback due is the one step that may leave a running
\* helper unwatched.
RollbackFound ==
  /\ "binary" \in World
  /\ \E p \in Players : Dead(st[p]) /\ ~st[p].deliberate /\ RollbackDue(st[p])

Tracked == {p \in Players : st[p].tracked}
Died == {p \in Tracked : Dead(st[p]) /\ ~st[p].deliberate}
Due == {p \in Died : "binary" \in World /\ RollbackDue(st[p])}

\* The poll comes to p.
Visit(p, verdict, parked, rollback, visited, gone, launched, now) ==
  LET s == st[p] IN
  IF p \notin visited THEN s
  ELSE IF p \in parked THEN Stop(s, FALSE)
  ELSE IF p \in Died
  THEN Crash(s, p \in rollback, now /\ p \in connected, p \in launched)
  ELSE IF verdict[p] = "none" THEN s
  ELSE HealthStop(s, verdict[p], p \in gone)

\* What a poll that finds helpers does, for one choice of what it finds.
PollDoes(verdict, parked, rollback, swapped, visited, active, gone, launched, renewed, late) ==
  LET now == IF late THEN ready' ELSE ready
      polled == [p \in Players |->
                  Visit(p, verdict, parked, rollback, visited, gone, launched, now)]
      live == LiveIn(polled)
  IN /\ visited # Tracked => ~ ((live \ active) \subseteq visited)
     /\ \A p \in Tracked :
          verdict[p] \in IF p \in visited /\ Alive(st[p]) THEN Verdicts(st[p])
                                                         ELSE {"none"}
     /\ ready' = IF parked = {} \/ renewed THEN ready ELSE FALSE
     /\ IF \E p \in Tracked : verdict[p] # "none" THEN Event ELSE UNCHANGED events
     /\ IF swapped = {}
        THEN st' = polled /\ pending' = pending \ rollback
        ELSE /\ st' = RolledBack(polled, active, gone, launched)
             /\ pending' = live \cap active
     /\ poll' \in {TRUE} \cup
           IF visited = Tracked THEN {}
           ELSE {PollAfterSwitches(FALSE, live \ active, st')}

\* What the poll makes of one player: a backoff that still runs is respected.
LEMMA VisitDoes ==
  ASSUME IInv, NEW p \in Players, NEW verdict, NEW parked \in SUBSET Died,
         NEW rollback, NEW visited \in SUBSET Tracked, NEW gone, NEW launched,
         NEW now \in BOOLEAN,
         p \in Tracked => verdict[p] \in IF p \in visited /\ Alive(st[p]) THEN Verdicts(st[p])
                                                                         ELSE {"none"}
  PROVE  LET t == Visit(p, verdict, parked, rollback, visited, gone, launched, now) IN
         /\ Moved(st[p], t)
         /\ Dead(st[p]) /\ ~st[p].deliberate /\ st[p].backoff => ~Alive(t)
<1> DEFINE s == st[p]
           t == Visit(p, verdict, parked, rollback, visited, gone, launched, now)
<1>1. Sound(s)
  BY DEF IInv, PlayersSound
<1>2. CASE t = s
  BY <1>1, <1>2, Stays DEF Dead, Alive
<1>3. CASE t = Stop(s, FALSE)
  <2>1. PICK g \in BOOLEAN : g = FALSE
    OBVIOUS
  <2> HIDE DEF s, t
  <2>2. t = Stop(s, g)
    BY <1>3, <2>1
  <2>3. Moved(s, t) /\ ~Alive(t)
    BY <1>1, <2>2, StopMoves
  <2> QED
    BY <2>3 DEF s, t
<1>4. CASE p \in Died /\ t = Crash(s, p \in rollback, now /\ p \in connected, p \in launched)
  <2>1. Dead(s) /\ ~s.deliberate
    BY <1>4 DEF Died
  <2>2. /\ (p \in rollback) \in BOOLEAN /\ (now /\ p \in connected) \in BOOLEAN
        /\ (p \in launched) \in BOOLEAN
    OBVIOUS
  <2> HIDE DEF s, t
  <2>4. Moved(s, t) /\ (s.backoff => ~Alive(t))
    BY <1>1, <1>4, <2>1, <2>2, CrashMoves
  <2> QED
    BY <2>4 DEF s, t
<1>5. CASE /\ p \in visited /\ p \notin Died /\ verdict[p] # "none"
           /\ t = HealthStop(s, verdict[p], p \in gone)
  <2>1. Alive(s) /\ verdict[p] \in Reasons
    BY <1>5 DEF Tracked, Verdicts, Reasons
  <2>2. (p \in gone) \in BOOLEAN
    OBVIOUS
  <2> HIDE DEF s, t
  <2>4. Moved(s, t)
    BY <1>1, <1>5, <2>1, <2>2, HealthMoves
  <2> QED
    BY <2>1, <2>4 DEF Dead, Alive, s, t
<1> QED
  BY <1>2, <1>3, <1>4, <1>5 DEF Visit

LEMMA StreamAlivePollKeeps ==
  ASSUME IInv, StreamAlivePoll
  PROVE  Kept /\ (RollbackFound \/ Watched)
<1>1. UNCHANGED <<connected, slaves, soon, stagger, up>> /\ up /\ poll
  BY DEF StreamAlivePoll
<1>2. CASE Tracked = {}
  <2>1. poll' = FALSE /\ UNCHANGED <<st, ready, pending, events>>
    BY <1>2 DEF StreamAlivePoll, Tracked
  <2>2. OthersTyped'
    BY <1>1, <2>1 DEF OthersTyped, IInv, TypeOK
  <2>3. SyncRestartPrompt'
    BY <1>1, <2>1 DEF IInv, SyncRestartPrompt
  <2>4. ~AnyAlive(st')
    BY <1>2, <2>1 DEF AnyAlive, Alive, Tracked
  <2> QED
    BY <2>1, <2>2, <2>3, <2>4, HelpersStay DEF Watched, AliveWatched
<1>3. CASE Tracked # {}
  <2>1. \E verdict \in [Tracked -> IF "health" \in World THEN Reasons ELSE {"none"}],
           parked \in IF "prereqs" \in World THEN SUBSET Died ELSE {{}} :
        \E rollback \in SUBSET (Due \ parked) :
        \E swapped \in {{}} \cup {{p} : p \in rollback} :
        \E visited \in IF swapped = {} THEN {Tracked}
                       ELSE {v \cup parked \cup rollback : v \in SUBSET Tracked},
           active \in IF swapped = {} THEN {{}} ELSE SUBSET LiveHelpers,
           gone \in SUBSET Quitters, launched \in Launches,
           renewed, late \in IF parked = {} THEN {FALSE} ELSE BOOLEAN :
          PollDoes(verdict, parked, rollback, swapped, visited, active, gone, launched,
                   renewed, late)
    BY <1>3 DEF StreamAlivePoll, PollDoes, Visit, Tracked, Died, Due
  <2>2. PICK verdict \in [Tracked -> IF "health" \in World THEN Reasons ELSE {"none"}],
             parked \in IF "prereqs" \in World THEN SUBSET Died ELSE {{}} :
        \E rollback \in SUBSET (Due \ parked) :
        \E swapped \in {{}} \cup {{p} : p \in rollback} :
        \E visited \in IF swapped = {} THEN {Tracked}
                       ELSE {v \cup parked \cup rollback : v \in SUBSET Tracked},
           active \in IF swapped = {} THEN {{}} ELSE SUBSET LiveHelpers,
           gone \in SUBSET Quitters, launched \in Launches,
           renewed, late \in IF parked = {} THEN {FALSE} ELSE BOOLEAN :
          PollDoes(verdict, parked, rollback, swapped, visited, active, gone, launched,
                   renewed, late)
    BY <2>1
  <2>3. parked \in SUBSET Died
    BY <2>2
  <2>4. PICK rollback \in SUBSET (Due \ parked) :
        \E swapped \in {{}} \cup {{p} : p \in rollback} :
        \E visited \in IF swapped = {} THEN {Tracked}
                       ELSE {v \cup parked \cup rollback : v \in SUBSET Tracked},
           active \in IF swapped = {} THEN {{}} ELSE SUBSET LiveHelpers,
           gone \in SUBSET Quitters, launched \in Launches,
           renewed, late \in IF parked = {} THEN {FALSE} ELSE BOOLEAN :
          PollDoes(verdict, parked, rollback, swapped, visited, active, gone, launched,
                   renewed, late)
    BY <2>2
  <2>5. PICK swapped \in {{}} \cup {{p} : p \in rollback} :
        \E visited \in IF swapped = {} THEN {Tracked}
                       ELSE {v \cup parked \cup rollback : v \in SUBSET Tracked},
           active \in IF swapped = {} THEN {{}} ELSE SUBSET LiveHelpers,
           gone \in SUBSET Quitters, launched \in Launches,
           renewed, late \in IF parked = {} THEN {FALSE} ELSE BOOLEAN :
          PollDoes(verdict, parked, rollback, swapped, visited, active, gone, launched,
                   renewed, late)
    BY <2>4
  <2>6. PICK visited \in IF swapped = {} THEN {Tracked}
                         ELSE {v \cup parked \cup rollback : v \in SUBSET Tracked},
             active \in IF swapped = {} THEN {{}} ELSE SUBSET LiveHelpers,
             gone \in SUBSET Quitters, launched \in Launches,
             renewed, late \in IF parked = {} THEN {FALSE} ELSE BOOLEAN :
          PollDoes(verdict, parked, rollback, swapped, visited, active, gone, launched,
                   renewed, late)
    BY <2>5
  <2>7. /\ visited \in SUBSET Tracked
        /\ swapped = {} => visited = Tracked
    BY <2>3 DEF Died, Due
  <2>8. swapped # {} => RollbackFound
    BY DEF Due, Died, Tracked, RollbackFound
  <2> DEFINE now == IF late THEN ready' ELSE ready
             polled == [p \in Players |->
                         Visit(p, verdict, parked, rollback, visited, gone, launched, now)]
  <2>9. /\ \A p \in Tracked :
             verdict[p] \in IF p \in visited /\ Alive(st[p]) THEN Verdicts(st[p])
                                                            ELSE {"none"}
        /\ ready' = IF parked = {} \/ renewed THEN ready ELSE FALSE
        /\ IF \E p \in Tracked : verdict[p] # "none" THEN Event ELSE UNCHANGED events
        /\ IF swapped = {}
           THEN st' = polled /\ pending' = pending \ rollback
           ELSE /\ st' = RolledBack(polled, active, gone, launched)
                /\ pending' = LiveIn(polled) \cap active
        /\ poll' \in {TRUE} \cup
              IF visited = Tracked THEN {}
              ELSE {PollAfterSwitches(FALSE, LiveIn(polled) \ active, st')}
    BY <2>6 DEF PollDoes
  <2>10. ready' \in BOOLEAN /\ (ready' => ready) /\ now \in BOOLEAN
    BY <2>9 DEF IInv, TypeOK
  <2>11. events' \in 0 .. MaxEvents
    BY <2>9, EventTyped DEF IInv, TypeOK
  <2>12. poll' \in BOOLEAN /\ (swapped = {} => poll')
    BY <2>7, <2>9 DEF PollAfterSwitches
  <2> HIDE DEF now
  <2>13. \A p \in Players :
           /\ Moved(st[p], polled[p])
           /\ Dead(st[p]) /\ ~st[p].deliberate /\ st[p].backoff => ~Alive(polled[p])
    <3> TAKE p \in Players
    <3>1. p \in Tracked => verdict[p] \in IF p \in visited /\ Alive(st[p]) THEN Verdicts(st[p])
                                                                         ELSE {"none"}
      BY <2>9
    <3> DEFINE t == Visit(p, verdict, parked, rollback, visited, gone, launched, now)
    <3>2. /\ Moved(st[p], t)
          /\ Dead(st[p]) /\ ~st[p].deliberate /\ st[p].backoff => ~Alive(t)
      BY <2>3, <2>7, <2>10, <3>1, VisitDoes
    <3>3. polled[p] = t
      OBVIOUS
    <3> HIDE DEF t, polled
    <3> QED
      BY <3>2, <3>3
  <2>14. polled = [p \in Players |-> polled[p]]
    OBVIOUS
  <2>15. /\ pending' \subseteq Players
         /\ IF swapped = {} THEN st' = polled
            ELSE st' = RolledBack(polled, active, gone, launched)
    BY <2>9 DEF LiveIn, IInv, TypeOK
  <2> HIDE DEF polled
  <2>16. OthersTyped'
    BY <1>1, <2>10, <2>11, <2>12, <2>15 DEF OthersTyped, IInv, TypeOK
  <2>17. CASE swapped = {}
    <3>1. Kept
      BY <1>1, <2>10, <2>13, <2>14, <2>15, <2>16, <2>17, AllMoved
    <3> QED
      BY <2>12, <2>17, <3>1 DEF Watched, AliveWatched
  <2>18. CASE swapped # {}
    <3>1. PICK c \in BOOLEAN : c = TRUE
      OBVIOUS
    <3>2. st' = ProcessPendingSwitches(polled, LiveIn(polled), active, gone, launched, c)
      BY <2>15, <2>18, <3>1 DEF RolledBack
    <3>3. /\ st' = [p \in Players |-> st'[p]]
          /\ \A p \in Players :
               /\ Moved(polled[p], st'[p])
               /\ Alive(st'[p]) => Alive(polled[p])
               /\ Alive(polled[p]) /\ st'[p].deliberate => st'[p] = polled[p]
               /\ p \notin LiveIn(polled) => st'[p] = polled[p]
      <4>1. \A p \in Players : Sound(polled[p])
        BY <2>13 DEF Moved
      <4> QED
        BY <3>2, <4>1, SwitchesMove
    <3>4. \A p \in Players : Moved(st[p], st'[p])
      <4> TAKE p \in Players
      <4>1. Sound(st'[p])
        BY <3>3 DEF Moved
      <4>2. StaysDown(st[p], st'[p])
        BY <2>13, <3>3 DEF StaysDown
      <4>3. StillOwes(st[p], st'[p])
        <5>1. CASE p \in LiveIn(polled)
          BY <3>3, <5>1 DEF StillOwes, LiveIn
        <5>2. CASE p \notin LiveIn(polled)
          BY <2>13, <3>3, <5>2 DEF Moved
        <5> QED
          BY <5>1, <5>2
      <4> QED
        BY <4>1, <4>2, <4>3 DEF Moved
    <3>5. Kept
      BY <1>1, <2>10, <2>16, <3>3, <3>4, AllMoved
    <3> QED
      BY <2>8, <2>18, <3>5
  <2> QED
    BY <2>17, <2>18
<1> QED
  BY <1>2, <1>3

-----------------------------------------------------------------------------
(* The theorems.                                                           *)

LEMMA InitSound == Init => IInv
<1> SUFFICES ASSUME Init PROVE IInv
  OBVIOUS
<1>1. Fresh \in PlayerStates
  BY DaemonManagerAssumption DEF Fresh, PlayerStates, Reasons
<1>2. Sound(Fresh) /\ ~Fresh.tracked
  BY <1>1 DEF Sound, OwnProcess, GateShut, Owes, Fresh
<1>3. PlayersSound /\ SyncRestartPrompt
  BY <1>2 DEF Init, PlayersSound, SyncRestartPrompt
<1>4. ready \in BOOLEAN /\ 0 \in 0 .. MaxEvents
  <2>1. ready \in BOOLEAN
    BY DEF Init
  <2>2. 0 \in 0 .. MaxEvents
    BY DaemonManagerAssumption
  <2> QED
    BY <2>1, <2>2
<1>5. TypeOK
  BY <1>1, <1>4 DEF Init, TypeOK
<1> QED
  BY <1>3, <1>5 DEF IInv

LEMMA StutterKeeps ==
  ASSUME IInv, UNCHANGED vars
  PROVE  Kept /\ Watched
<1>1. OthersTyped' /\ SyncRestartPrompt'
  BY DEF vars, OthersTyped, IInv, TypeOK, SyncRestartPrompt
<1> QED
  BY <1>1, HelpersStay, NoneNew DEF vars

LEMMA StepKeeps ==
  ASSUME IInv, [Next]_vars
  PROVE  Kept /\ (Watched \/ (StreamAlivePoll /\ RollbackFound))
<1>1. CASE UNCHANGED vars
  BY <1>1, StutterKeeps
<1>2. CASE InitHelpers
  BY <1>2, InitHelpersKeeps
<1>3. CASE StreamAlivePoll
  BY <1>3, StreamAlivePollKeeps
<1>4. CASE BinaryReplaced
  BY <1>4, BinaryReplacedKeeps
<1>5. CASE Prereqs
  BY <1>5, PrereqsKeeps
<1>6. CASE Restart
  BY <1>6, RestartKeeps
<1>7. CASE Shutdown
  BY <1>7, ShutdownKeeps
<1>8. ASSUME NEW p \in Players,
             \/ StaggeredStart(p) \/ DeferredStart(p)
             \/ NoteExpiredExit(p) \/ StartupFailure(p)
             \/ BackoffLapses(p) \/ IncidentLapses(p)
             \/ ClientEvent(p) \/ SyncEvent(p) \/ Rename(p)
      PROVE  Kept /\ Watched
  BY <1>8, StaggeredStartKeeps, DeferredStartKeeps, NoteExpiredExitKeeps, StartupFailureKeeps,
     BackoffLapsesKeeps, IncidentLapsesKeeps, ClientEventKeeps, SyncEventKeeps, RenameKeeps
<1>9. ASSUME NEW p \in Players, NEW q \in Procs, Exit(p, q) \/ ChainStep(p, q)
      PROVE  Kept /\ Watched
  BY <1>9, ExitKeeps, ChainStepKeeps
<1> QED
  BY <1>1, <1>2, <1>3, <1>4, <1>5, <1>6, <1>7, <1>8, <1>9 DEF Next

LEMMA Invariant == Spec => []IInv
<1>1. IInv /\ [Next]_vars => IInv'
  BY StepKeeps DEF Kept
<1> QED
  BY InitSound, <1>1, PTL DEF Spec

\* Every variable keeps its type: in particular a crash count never runs past
\* its cap, and a deferred start is never one the poll asked for.
THEOREM TypeCorrect == Spec => []TypeOK
<1>1. IInv => TypeOK
  BY DEF IInv
<1> QED
  BY Invariant, <1>1, PTL

\* Two daemons of one player never run at once, whatever of start, switch,
\* health stop, sync stop and crash the timers of DaemonManager.pm interleave
\* while ProcStop's chain still waits for an exit.
THEOREM NeverTwo == Spec => []OneDaemon
<1>1. IInv => OneDaemon
  <2> SUFFICES ASSUME IInv, NEW p \in Players,
                      NEW q \in st[p].live \ st[p].lost, NEW r \in st[p].live \ st[p].lost
               PROVE  q = r
    BY DEF OneDaemon
  <2>1. OwnProcess(st[p])
    BY DEF IInv, PlayersSound, Sound
  <2> QED
    BY <2>1 DEF OwnProcess
<1> QED
  BY Invariant, <1>1, PTL

\* A helper that stopForSync terminated is started again in seconds: its
\* process's onGone, the armed re-init or a staggered start is still to come.
THEOREM SyncPrompt == Spec => []SyncRestartPrompt
<1>1. IInv => SyncRestartPrompt
  BY DEF IInv
<1> QED
  BY Invariant, <1>1, PTL

\* No start of any handler runs a crashed daemon again before its backoff ends.
THEOREM BackoffKept == Spec => BackoffRespected
<1>1. IInv /\ [Next]_vars =>
        \A p \in Players :
          Dead(st[p]) /\ ~st[p].deliberate /\ st[p].backoff /\ st[p]'.backoff
            => ~Alive(st[p]')
  BY StepKeeps DEF Kept, StaysDown
<1> QED
  BY Invariant, <1>1, PTL DEF Spec, BackoffRespected

\* One step alone can leave a running daemon without the crash poll: the poll
\* itself, when it finds a crash after a switch whose rollback is due.  Every
\* stop, decline, switch, parking and re-init of any player keeps it watched.
THEOREM OnlyRollback ==
  Spec => [][AliveWatched => AliveWatched' \/ (StreamAlivePoll /\ RollbackFound)]_vars
<1>1. IInv /\ [Next]_vars =>
        (AliveWatched => AliveWatched' \/ (StreamAlivePoll /\ RollbackFound))
  BY StepKeeps DEF Watched
<1> QED
  BY Invariant, <1>1, PTL DEF Spec

\* So where the binary is never switched, a running daemon is always watched.
THEOREM AllWatched ==
  ASSUME "binary" \notin World
  PROVE  Spec => []AliveWatched
<1>1. Init => AliveWatched
  BY DEF Init, AliveWatched, AnyAlive, Alive, Fresh
<1>2. IInv /\ AliveWatched /\ [Next]_vars => AliveWatched'
  BY StepKeeps DEF Watched, RollbackFound
<1> QED
  BY Invariant, <1>1, <1>2, PTL DEF Spec

\* Once LMS is down no helper is left.
Down == ~up => \A p \in Players : ~st[p].tracked

\* Only exits and the passing of time happen without LMS.
LEMMA DownKept ==
  ASSUME IInv, Down, [Next]_vars
  PROVE  Down'
<1>0. st \in [Players -> PlayerStates]
  BY DEF IInv, TypeOK
<1>1. CASE UNCHANGED vars
  BY <1>1 DEF vars, Down
<1>2. CASE Shutdown
  <2> SUFFICES ASSUME NEW p \in Players PROVE ~st'[p].tracked
    BY DEF Down
  <2>1. PICK stuck \in IF "stuck" \in World THEN SUBSET LiveHelpers ELSE {{}} :
          st' = [x \in Players |->
                  IF Alive(st[x]) /\ x \in stuck
                  THEN [Stop([st[x] EXCEPT !.live = @ \ {st[x].proc}], FALSE)
                         EXCEPT !.live = st[x].live, !.lost = @ \cup {st[x].proc}]
                  ELSE IF Alive(st[x])
                  THEN Stop([st[x] EXCEPT !.live = @ \ {st[x].proc}], FALSE)
                  ELSE IF st[x].tracked THEN Stop(st[x], FALSE) ELSE st[x]]
    BY <1>2 DEF Shutdown
  <2> DEFINE u == [st[p] EXCEPT !.live = @ \ {st[p].proc}]
  <2>2. st[p] \in PlayerStates
    BY <1>0
  <2>3. u \in PlayerStates /\ ~Alive(u)
    <3>1. st[p].live \in SUBSET Procs
      BY <2>2 DEF PlayerStates
    <3>2. st[p].live \ {st[p].proc} \in SUBSET Procs
      BY <3>1
    <3>3. u \in PlayerStates
      BY <2>2, <3>2 DEF PlayerStates
    <3>4. u.proc = st[p].proc /\ u.live = st[p].live \ {st[p].proc}
      BY <2>2 DEF PlayerStates
    <3> QED
      BY <3>3, <3>4 DEF Alive
  <2>4. ~Stop(u, FALSE).tracked
    BY <2>3 DEF Stop, PlayerStates
  <2>5. ~Alive(st[p]) => ~Stop(st[p], FALSE).tracked
    BY <2>2 DEF Stop, PlayerStates
  <2>6. [Stop(u, FALSE) EXCEPT !.live = st[p].live, !.lost = @ \cup {st[p].proc}].tracked
          = Stop(u, FALSE).tracked
    BY <2>3 DEF Stop, PlayerStates
  <2> HIDE DEF u
  <2> QED
    BY <2>1, <2>4, <2>5, <2>6 DEF u
<1>3. CASE up /\ UNCHANGED up
  BY <1>3 DEF Down
<1>4. CASE InitHelpers \/ StreamAlivePoll \/ BinaryReplaced \/ Prereqs \/ Restart
  <2>1. InitHelpers => up /\ UNCHANGED up
    BY DEF InitHelpers
  <2>2. StreamAlivePoll => up /\ UNCHANGED up
    BY DEF StreamAlivePoll
  <2>3. BinaryReplaced \/ Prereqs \/ Restart => up /\ UNCHANGED up
    BY DEF BinaryReplaced, Prereqs, Restart
  <2> QED
    BY <1>3, <1>4, <2>1, <2>2, <2>3
<1>5. ASSUME NEW p \in Players,
             \/ StaggeredStart(p) \/ DeferredStart(p)
             \/ NoteExpiredExit(p) \/ StartupFailure(p)
             \/ ClientEvent(p) \/ SyncEvent(p) \/ Rename(p)
      PROVE  Down'
  <2>1. StaggeredStart(p) \/ NoteExpiredExit(p) \/ ClientEvent(p) \/ SyncEvent(p) \/ Rename(p)
          => up /\ UNCHANGED up
    BY DEF StaggeredStart, NoteExpiredExit, ClientEvent, SyncEvent, Rename
  <2>2. DeferredStart(p) => up /\ UNCHANGED up
    BY DEF DeferredStart
  <2>3. StartupFailure(p) => up /\ UNCHANGED up
    BY DEF StartupFailure
  <2> QED
    BY <1>3, <1>5, <2>1, <2>2, <2>3
<1>6. ASSUME NEW p \in Players, NEW q \in Procs, ChainStep(p, q)
      PROVE  Down'
  BY <1>3, <1>6 DEF ChainStep
<1>7. ASSUME NEW p \in Players, BackoffLapses(p) \/ IncidentLapses(p)
      PROVE  Down'
  BY <1>0, <1>7 DEF BackoffLapses, IncidentLapses, PlayerStates, Down
<1>8. ASSUME NEW p \in Players, NEW q \in Procs, Exit(p, q)
      PROVE  Down'
  BY <1>0, <1>8 DEF Exit, PlayerStates, Down
<1> QED
  BY <1>1, <1>2, <1>4, <1>5, <1>6, <1>7, <1>8 DEF Next

\* The shutdown takes every helper down, whatever starts, switches and stops it
\* meets in flight: of each player only the process whose chain was not over may
\* outlive LMS, next to those that ProcStop gave up on.
THEOREM FewLeftBehind == Spec => []OnlyExitingLeft
<1>1. Init => Down
  BY DEF Init, Down
<1>2. IInv /\ Down /\ [Next]_vars => Down'
  BY DownKept
<1>3. IInv /\ Down => OnlyExitingLeft
  <2> SUFFICES ASSUME IInv, Down, ~up, NEW p \in Players
               PROVE  ~st[p].tracked /\ st[p].live \subseteq st[p].lost \cup {st[p].term}
    BY DEF OnlyExitingLeft
  <2>1. OwnProcess(st[p]) /\ ~st[p].tracked
    BY DEF IInv, PlayersSound, Sound, Down
  <2> QED
    BY <2>1 DEF OwnProcess
<1> QED
  BY Invariant, <1>1, <1>2, <1>3, PTL DEF Spec

=============================================================================
