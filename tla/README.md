# SpotOn, modelled in TLA+

SpotOn is a plugin for the Lyrion Music Server (LMS) that plays Spotify. The
plugin is Perl and runs in the single event loop of LMS; for every player it
supervises a daemon process (a patched Soloist binary, or a librespot daemon
written in Rust) and serves the daemon's audio to the player. This directory
holds TLA+ modules for the parts of it that are hard to test, the TLC
configurations that check them, and proofs.

## 1. Inventory

The Perl code never blocks for long: every wait is a timer or an HTTP callback.
"Concurrency" in the plugin therefore means that a closure continues in a later
turn of the event loop, in a world other callbacks have changed since.

| Component | State it keeps | Operations | What is hard |
|---|---|---|---|
| `API/Login5.pm`, `Credentials.pm`, `TokenManager.pm` | token cache, mint queue per account, negative cache, login verdicts, health timer, active account | getToken, mint and its answer, health tick, shutdown/reset, pair/remove/forget an account | a mint answered after its credentials were replaced; queues across reloads; the timer chain |
| `API/SpClient.pm` | slot counter, rate-limit and 401 memories, host cache | `_request`, `_doRequest`, `gate`, `noteRateLimit`, `reset` | one slot per call on every path; retry with a bearer others are also replacing; a gate that never answers |
| `API/Pathfinder.pm` | job queue, slot counter, operation hashes, scrape waiters, health sets | `query`, `_pump`, `_attempt`, `refreshHashes`, `_onHashRejected` | late 412s against fresh hashes, coalesced scrapes, reload |
| `Unified/DaemonManager.pm`, `SoloistDaemon.pm`, `ProcStop.pm` | helper per player, crash state, backoff, exiting processes, shared 5 s poll, 60 s watchdog, pending binary switches | initHelpers, startHelper, stopHelper, poll, health tick, sync and client events, binary switch, rollback, shutdown | five timers start and stop the same process; a process exits when it likes |
| `Soloist.pm` | three binary files, staging directory, renewal guard | download, smoke test, promote, rollback, placed binary | a crash or failure between two renames; late callbacks |
| `Unified/DeferBudget.pm` and the deferred track requests of `DaemonManager.pm`/`SoloistDaemon.pm` | parked requests and their deadline | park, hand over, answer, shut down | exactly one answer within one budget |
| `Unified/SoloistWS.pm` | one WebSocket, handshake and reconnect timers | connect, handshake, close, disconnect, message | callbacks of a socket that is gone; loss of the reconnect |
| `Soloist/Control.pm` | per player: wanted and observed state, armed commands, watchdog | requestTrack, reconcile, takeover, onEvent, timers | commands race the events they cause |
| `Connect.pm` | settle and hold windows, power restore | `_connectEvent`, timers | the same state is driven from LMS and from the app |
| `Bin/fake-libpulse/fake-libpulse.c` | PCM ring with its flush epoch and hold; virtual sink; flags of the flush protocol (disconnect, decision window, arms, browse keep); marker; streaming client, pending connection | pulse calls of the daemon, its writes, HTTP thread (loop, drain, control POSTs) | real threads: writers, the daemon's calls, the HTTP thread; they share one mutex, a dozen atomics that are read one after another, and the lock of the main loop |
| `librespot-spoton` (Rust) | session mode, relay generation, position anchor | HTTP server, player events | async tasks and a relay guard |
| `Unified/Daemon.pm` | librespot process, start times | start, stop, crash-loop brake | as DaemonManager |
| `Backend*.pm`, `ProtocolHandler.pm`, `Soloist/Quality.pm`, `API/AccountMigration.pm`, `API/ProtobufLite.pm` | little | dispatch, URL handling, one file, one upgrade, a codec | mostly sequential |
| `Plugin.pm`, `Settings*.pm`, `Status.pm`, `Diagnostics.pm`, `HomeExtras.pm`, `DontStopTheMusic.pm` | menus, pages, caches | requests and pages | wording and layout |
| `spoton-helper`, `Vendor/`, `librespot-discovery-patched` | - | a command line patcher; third-party code | - |

How they interact: menus, ProtocolHandler and Quality call SpClient and
Pathfinder, which ask Login5 for a bearer. Plugin.pm's init calls the `reset` of
each of them. Settings, Soloist.pm and LMS events (players, sync groups, power)
call DaemonManager, which owns a SoloistDaemon per player; the daemon's Control
talks to the process over SoloistWS, and the process plays through fake-libpulse,
whose HTTP server the player reads. Control and Connect exchange the state of
playback. Soloist.pm replaces the binary under all of that.

What makes each correct is listed in PROJECT.json under `hazards`, at the line
where it bites, with the properties that state it.

## 2. Modules

| Module | Models | Depends on |
|---|---|---|
| `TokenService` | what Login5 promises: a waiting caller is answered, once | - |
| `Login5` | `API/Login5.pm` with the account bookkeeping it is invalidated by | implements `TokenService` |
| `SpClient` | the request pipeline of `API/SpClient.pm` and its gate | uses `TokenService` in place of Login5 |
| `Pathfinder` | the persisted queries of `API/Pathfinder.pm` for one operation | - |
| `DaemonManager` | the life of the daemon processes of all players | - |
| `PcmFifo` | what the PCM ring promises: a bounded queue of positions that may be emptied | - |
| `PcmRing` | everything under `g_ring.lock` in fake-libpulse.c: writes, pops, flush, teardown, hold | implements `PcmFifo` |
| `PcmStream` | the daemon's side: the `pa_stream` calls, the virtual sink, the atomics of a flush | extends `PcmRing` |
| `PcmRelay` | the HTTP thread: its loop, the pending connection, control requests, the drain | extends `PcmStream` |
| `PcmBridge` | the composition of all three with peers and clocks; the properties of the whole | extends `PcmRelay` |
| `PcmCells` | the cells of the file's own test harness, as scenes | extends `PcmBridge` |
| `Login5Proofs`, `SpClientProofs`, `PathfinderProofs`, `DaemonManagerProofs` | theorems about `Login5`, `SpClient`, `Pathfinder`, `DaemonManager` | extend the module they are about |
| `PcmRingProofs`, `PcmBridgeProofs` | theorems about `PcmRing`, and about `PcmBridge` with the invariant `BridgeInv` | extend the module they are about |
| `PcmDaemonProofs`, `PcmRequestProofs` | theorems about `PcmBridge` as the daemon and as its server see it | extend `PcmBridgeProofs` |
| `MCLogin5`, `MCSpClient`, `MCPathfinder`, `MCDaemonManager` | symmetry sets for TLC | extend the module they check |
| `MCPcmBridge` | the set of scenes for TLC | extends `PcmCells` |

Operators named in a comment `Mutant:` are plausible mistakes in the operator
that follows them; nothing in the specifications uses them. They exist to show
that a property would notice.

### Login5

An action is one call or one callback of the event loop. A mint is a record of
the closure of `_mintToken`: account, credential generation, queue; `inflight`
is `%_mintInflight`, which names the queue new callers join. `PossibleAnswers`
is what Spotify may answer; it never rejects credentials that are current and
good. A token is abstracted to the generation it was minted with. `GetToken`,
`Answer`, `HealthTick`, `Shutdown`, `Reload`, `Pair`, `PairFails` and `Remove`
are the handlers; `TokenGone`, `DampLapses`, `Revoke` and
`MarkNeedsPlaybackAuth` are time and the world.

### SpClient

One account. `phase` says where a call of `_request` or `gate` stands; the slot
is held in the phases `Holding`. Bearers are numbered in minting order and
`rejected` remembers which a request was refused with. Login5 is seen through
`TokenService`, which `Login5` implements: `Login!Ask` and `Login!Settle` are steps
of that specification. `forgotten` is a history variable. Of the response cache one
path is modelled (`stored`), read by `Readers` and written by `Writers`. A
delayed call ends only as in the code: by a rate limit, a hit or a free slot.

Dispatches may die, and what comes of it depends on the eval around them. Inside
one, the die ends the call through `$userCb`; if the caller's callback then dies
too, the eval calls `$userCb` again, and `$userCbCalled` is what keeps the slot from
coming back twice (`Dispatch`, `Returned`). The dispatch of the host lookup has no eval
of its own: when the bearer came asynchronously, its die ends in Login5's drain and the
slot is lost (phase `lost`). A callback that dies
in an ordinary turn of the event loop is caught by LMS, and changes nothing here.
A 401 removes the cached bearer whichever it is by then: one that another request
has just minted goes with it, which costs another mint and no more.

### Pathfinder

One operation of the web player. `store` is the module's own state (hash, rate
limit, scrape flag, health), `job[j]` the closure of a query. A handler ends in
`Turn`: the jobs it moves reach their outcome, those that are over free their
slots, and the pump starts queued ones, which may be over at once and free
theirs again. `WithHash` and `Attempt` say what a dispatch may come to. A hash is
the release that declared it; a 412 is possible only for a hash of another
release, and bundles and service change together. Time is counted in ticks of
`Cooldown`. `spent` and `scraped` are history variables. The specification
starts after `reset`; what a reset does to outstanding requests is shown on
SpClient. Of Login5 nothing is used but that it answers.

A failure in the asynchronous half of a dispatch (after the bearer or the scrape
came) is not caught by Pathfinder; the model assumes that building a request does
not fail there.

### DaemonManager

`st[p]` is a record per player: its helper, its processes, its crash state. What
a handler does to one player is an operator on that record, and the handlers
(`InitHelpers`, `StreamAlivePoll`, `SyncEvent`, ...) apply it to every player they
visit, with the order left open where Perl iterates over a hash. A process is a
number; `live` are those that run, whether the plugin still knows them or not.
ProcStop's chain is `chain[q]`, the next step due. `World` names what may happen
from outside in a configuration, `MaxEvents` bounds how often. `cause` and
`counted` are history variables.

A rollback inside the poll replaces entries of `%helperInstances` while the poll
iterates over its values; Perl then may hand out a freed element, so the model
lets the poll end there, before its re-arm.

### The PCM bridge

fake-libpulse.c is the one part of SpotOn with threads of its own. The daemon
believes it plays through PulseAudio; the bridge puts its audio into a ring, and an
HTTP thread hands it to the player. A flush of the daemon means that the title
changes: the ring is emptied, and the player's connection is closed, kept or
bounded, as control requests from the plugin say, which may arrive before the
flush, after it, or lie unread in the listen backlog while it happens.

*Ring* (`PcmRing`). A byte is its position in the stream; the ring holds those from
`popped` to `pushed` (`total_popped`, `total_pushed`). One unit stands for a block of
bytes; formats are not distinguished. Each critical section is an action; the
places where `_ring_push` gives the lock away (a wait on `space_avail`, the end of a
batch) are separate ones. `call[w]` is the `ring_write_t` of a write with its
progress. Deadlines are flags that a clock action raises.

*Daemon* (`PcmStream`). One thread makes the calls that change a stream; `op` is the
place in the call, with an action for each access to a shared atomic: a flush is
`FlushRing`, `FlushMarker`, `FlushArmed` or `FlushUnarmed`, `FlushKept` or
`FlushWindow` and `FlushRaise`. `q` is what the virtual sink holds, `resetAt` a
history variable.

*HTTP thread* (`PcmRelay`). `pc` is the place in `_http_thread_fn`, `slot` the
pending connection, `listen` the backlog, `todo` the control requests being
served, `half` the step of a request that touches shared state more than once.
`_serve_boundary` is `ServeBoundary`, `PlantBoundary`, `MarkBoundary`; a seek arm is
checked (`ServeArm`) and raised (`RaiseArm`) in two steps, since the daemon may
flush in between. The drain is `Drain`, the gate, `PopChunk`, `Trim`, the write, and
the edge that tells the daemon ring and sink are dry (`EdgeSeen`, `TakeLoop`,
`Call`).

*Scenes* (`PcmCells`). The harness compiled with FAKE_LIBPULSE_TEST_MAIN runs each
cell in one schedule, fixed with sleeps. Here a cell is a record: the daemon's
calls, its writes, the connections of player and plugin, each with what it
`needs` to have seen happen before (calls returned, writes, answers, streams begun
or ended, bytes read), which clocks and faults it `may` meet, and how it `ends` for
the last client (`"none"`: the harness asserts nothing of it). The checker runs
every schedule of it. `Disconnected` is a scene without a cell: a session that
ends with a client attached.

Assumed of the daemon: it starts no write while its own flush, connect or teardown
runs, holds the lock of the main loop during its calls, and does not tear a stream
down from inside a write (`g_tls_in_write` is for that case). Abstracted: a write
to the player takes a chunk whole, stalls or fails; `HTTP_DRAIN_BUDGET` is a choice
to end the tick after any chunk; the 5 ms wait for a newcomer's head is one read;
`FLUSH_BACKLOG_PASS_MAX` is larger than any modelled backlog. The clocks (hold,
arm TTL, keep window, decision window, head timeout), hang-ups and peers that
vanish occur in the scenes whose `may` lists them; the other scenes take the
harness's view that they are too slow to matter.

## 3. Runs

| Run | Shows |
|---|---|
| `Login5` | nothing of replaced credentials is remembered (token, verdict, damping); one mint per credential generation; every waiting caller is answered once (`ImplementsTokenService`); the health chain is never lost nor outlives a shutdown, and ticks for ever |
| `Login5Active` | pairing a second account leaves a working active account in its slot |
| `SpClient` | the counter equals the slots held, whatever dies and calls `$userCb` a second time; a 401 is never retried with a bearer already rejected; every request that was issued is answered, also while gated callers never release (a delayed one because a slot comes back), as long as lookups that die leave a slot |
| `SpClientReload` | (violation) see 6 |
| `Pathfinder` | slots equal started, unanswered jobs; nobody queues beside a free slot; a waiter has a scrape and a scrape a waiter; scrapes keep the cooldown whatever fails; every query is answered |
| `PathfinderLate` | (violation) see 6 |
| `DaemonOne` | one daemon per player; after a sync stop a prompt restart; after a shutdown no helper, and no process but one whose chain was not over; nothing gets past the backoff |
| `DaemonLive` | a player that should have a daemon has one again and again; two players share the poll, and it runs |
| `PcmBridge` | all cells of the bridge's harness and one more scene in every interleaving: the ring is a queue (`FifoSpec`), holds freeze it, no write is miscounted or sleeps for ever; no byte of the next title reaches the old client, none past its marker; no control request, no wake-up and no underrun edge is lost; streams are freed after their writers; and each cell comes to the harness's verdict (`CellVerdict`) |
| `DaemonExempt`, `DaemonOrphan`, `DaemonRollback` | (violations) see 6 |

Bounds. One account is enough for everything in Login5 but the active slot,
since all other state is per account; three mint names allow a mint of the
current and of two superseded generations to overlap, one reload lets a mint of
an older plugin run answer in the new one. Two requests and a gated call are one
more than the slots, so that a call must wait; one request may be served from the response cache, the other is
fetched in any case, and both are stored. The same holds for three queries over
two slots; three releases let a retried query be rejected a second time, and a
`BrokenRetry` of two ticks tells the two windows apart. One player with two process ids
lets a successor start over an exiting predecessor; three events are a crash or
a stop, another while it is handled, and one more. Two players share the poll;
three are needed for the rollback, the poll's visitor, the freed entry and the
streaming daemon. `LongCount` and `RollbackCrashes` are lowered where a run does
not count crashes. The ring has three units, a batch and a chunk two, so that a
write splits into batches, finds room for part of one, and is cut by a marker; the
margin is one, the sink holds two, so that either is the tighter limit; two arms
are the code's clamp; a backlog of two puts a request behind another; a drain
reach of two leaves anchors in and out of reach. Two writers and two streams are
what the harness uses. The scenes together have 187,000 states.

`CHECK_DEADLOCK FALSE` everywhere: LMS may stop, all requests may be done, and
the events of a bounded world may be used up; these are legal ends.

Fairness. LMS timers fire and its HTTP client calls one of its callbacks within
the timeout (`SimpleAsyncHTTP` guarantees both), so answers, scrapes, ticks,
delayed calls, chain steps and backoffs are weakly fair. For a delayed call of SpClient
that promises little: at the cap its timer only delays it again, so that it ends
because slots come back, and because the requests are finitely many (there is no queue;
an endless stream of others could overtake it). Nothing is assumed of
processes, of gated callers, or of users. In the bridge every thread goes on:
each wait of the C code has a timeout or a wake-up, `poll` and `pthread_cond_timedwait`
return, and the kernel schedules threads; the scene's calls, writes and
connections are made once what they need has happened; a peer that connected
sends its head or goes; clocks that a scene lists run. `HttpStep` is fair as a
whole, so nothing is assumed of which branch it takes.

## 4. Proofs

`Login5Proofs` proves, for any set of accounts, callers, ticks and mints and any
bounds, under `Login5Assumption` only: type correctness; that a cached token was
minted with the account's current credentials; that no verdict on replaced
credentials is remembered; that at most one mint per generation and plugin run is
outstanding; that the health chain is kept; and that a pairing leaves a working
active account alone. The invariant is `TypeOK` together with the facts that
make these inductive: a posted mint carries a generation its account has had, no
older than which the token can be; a mint of the current generation and plugin
run owns the slot; a slot names a posted mint of that generation; credentials
are bad whenever a current verdict says so; a waiting tick sits in a queue. Each
step lemma treats one action.

The module goes on to show that no caller is lost (`NobodyIsLost`) and that Login5
implements `TokenService!Safety`, the initial state and the steps of `TokenService`
without its fairness (`ServesTokens`). Both rest on `QueuesFit`: whoever waits
sits in the queue of one mint and no other. That is not inductive alone; it takes
from the first invariant that a slot names a mint that is posted, so that a
caller who joins joins a queue that will be answered. `NoCallerLost` counts the
queues of a caller, which are then one or none. An answer settles exactly the
queue it clears, so it is `TokenService`'s `Settle` of that set.

`SpClientProofs` proves, for any requests, gated calls and bounds, under
`SpClientAssumption` only: type correctness; that the counter equals the slots held less those a reload forgot;
the cap; that a retry never carries a bearer already
rejected, and that there is one. What every handler does to the slots is stated
once (`SlotEffect`: the counter moves with the holders) and shown to keep the slot
properties; each handler is then an instance of it, those that dispatch by way of
`TakeEffect` and `ReturnedOnce` (whoever takes slots and is over gives each back
once, however often `$userCb` is called). The bearer properties need three more facts to be inductive: only a slot
in the phase `token` waits for Login5 (`WaitersHold`), every bearer seen has been
minted (`BearersMinted`), so that a fresh one is unlike all those rejected, and a
request on its retry was rejected exactly once (`RejectedOnce`).

`PathfinderProofs` proves, for any queries, slots and windows, under
`PathfinderAssumption` only: type correctness;
slots equal started and unanswered queries, within the cap; nobody queues beside
a free slot; a waiter has a scrape; at most three POSTs; the cooldown between
scrapes. `TurnSafe` does most of it: a turn that a handler was ready for
(`TurnReady`: it moves jobs that hold a slot, to outcomes that fit them, and
leaves the scrape to the waiters that stay) keeps everything. What it adds to the
properties: the queue holds no job twice, a job's posts are covered by the retries
it used up (`PostsUsed`), and the cooldown's anchor is the last scrape that cost
bundles, or, while one runs, the one to return to (`Anchored`).

`DaemonManagerProofs` proves, for any players, process ids, worlds and bounds, under
`DaemonManagerAssumption` only: type correctness; that one daemon runs per player; that
a sync stop is followed by a prompt re-init; that nothing gets past the backoff. The
invariant `IInv` is `TypeOK`, `SyncRestartPrompt` and `PlayersSound`, a fact about each
player's record alone, in three parts. `OwnProcess`: a helper's process is the only
one of its player that may run, and without a helper only the one that is exiting
may; this is what `OneDaemon` follows from, and it needs to know of the exiting
process because a start that overtakes it would be the second daemon. `GateShut`: a
backoff ends before its incident, and no deferred start goes past the crash gate.
`Owes`: a process that was stopped for a sync change owes the re-init while it
runs. Since a handler applies operators to some players' records, each operator is
treated once (`Moved`: it keeps a record sound, a player in backoff down, and what
is owed owed), and a handler that visits many players is a statement about one.
`AliveWatched` is no invariant of the code (run `DaemonRollback`). What is
proved is how far that goes: `OnlyRollback` says that the one step which can
break it is a poll that finds a rollback to do, and `AllWatched` that it holds
wherever no binary is replaced (`"binary" \notin World`), which is the world of
`DaemonLive`. In the same way `FewLeftBehind` says how far the finding `DaemonOrphan`
goes. Its `OnlyExitingLeft`, which `DaemonOne` checks, is that after a shutdown no player has
a helper (`Down`) and, by `OwnProcess`, all that can still run of a player is the one
process whose kill chain was not over, next to those that survived SIGKILL.

`PcmRingProofs` proves, for any writers, capacity and batch, under `RingAssumption`
only: the counters, the frozen read position of a hold, the account of every
write, that no writer sleeps beside room, that a write from before a flush adds
nothing after it, and that the ring implements `PcmFifo`. The invariant `RingInv`
has three parts that actions disturb one at a time: the cursors with the hold,
the calls (each fits the current epoch), and the set of counted writers. What
`NextBatch`, the broadcast and an ordinary change of one call do to it is stated in
lemmas that all pushes share.

`PcmBridgeProofs` carries this into the whole bridge, for any scenes, sizes,
writers and streams, under the named assumptions of the modules. First every
action is shown to be one of the ring's or to leave it alone (`RingStep`,
`BridgeUsesRing`), which transfers the ring's theorems. Then three properties of
the composition are proved with the invariant `BridgeInv`:

- `NothingPastMarker` needs that the chunk in hand was popped, so that a marker
  planted later, at or past the read position, lies behind it; that a marker just
  planted still does when the next step gives it to the client; and the
  arithmetic of the trim (`TrimEnds`), which must hold although a flush may move the
  read position between the pop and the trim.
- `NoNewTitle` needs that from `FlushRing` to `FlushRaise` nobody writes: what is in
  progress is of an older epoch, and the daemon starts nothing. So the write
  position still is where the flush left it when the disconnect is raised.
- `PacedNeverWaits` needs that a daemon with a promise is alone with the ring, and
  that what its write has left always fits: `fill + left + rest <= Capacity`.

The steps are grouped by thread (`HttpSound`, `DaemonSound`). What the HTTP thread
does to the ring is summarised once (`HttpRingMove`: it takes, wakes, and writes
nothing), and `TitleKept`, `MarkerKept` and `PacedKept` say which steps cannot matter.

`PcmDaemonProofs` adds what the daemon relies on.

- `SinkTruth` speaks only of moments at which nobody writes. Between them the sink
  has counted bytes that are not in the ring: `pa_stream_write` counts a write when
  it is admitted and takes back at its end what the ring refused or dropped.
  `SinkInv` bounds the claim by what was written since the last emptying plus what
  is still owed. The sum over the writers is the size of a set of pairs (`Owed`: a
  writer, and a number up to its amount), so that no recursion is needed: a step
  changes one writer's column, and `FiniteSetTheorems` counts it.
- `NoWriterAfterFree` needs `StreamInv`: a writer's stream is the active one, or its
  teardown is under way and waits for the writer, or another stream has been
  connected since. The third case is where the code makes no promise: `pa_stream_unref`
  waits only for writers of the active stream. So the theorem has the hypothesis
  `Orderly`, on the daemon: it frees a stream before it connects the next.

`PcmRequestProofs` follows the control requests. `Load(K)` is how many connections of
a set `K` are in the backlog or in the slot, plus the requests being served or
answered. `AcceptBalance` and `SettleBalance` say that `_pending_accept` and
`_pending_settle` only move requests; with them every step of the HTTP thread keeps
`Load(K)` (`HttpLoad`), for any set that a look at the socket does not change
(`Countable`), as long as a request that is awaited in the slot has no newcomer and
no timeout to fear (`Owing`).

- For the requests that have come in (`Ready`) `Owing` holds by itself, so
  `NeverDropsRequest` has no hypothesis: no step lets go of a request it could have
  seen. This is an action property of its own, `NoRequestDropped`.
- `NoControlLost` counts connections from the moment they are made, when the
  request may not have come in yet (`Coming`). The code does lose such a connection, to
  another one or to the head timeout, and means to. The hypothesis `Prompt`, on the
  server, excludes that: its request comes with its connection, or late if no other
  follows and the timeout is not reached. `PromptInv` says where a request that is
  awaited can then be: alone in the slot, or last in the backlog.

`Orderly` and `Prompt` are defined in `PcmBridge`; `MCPcmBridge` assumes them of all its
scenes (`MCSceneAssumption`), which TLC evaluates: they hold of every cell of the
harness, so the theorems and the run speak of the same behaviours.

Some of these facts are proved only, since they need no run of their own: `CapRespected`
and `OneRemint` of SpClient, `PostsBounded` of Pathfinder, `RingCounts` and
`StaleWriteSilent` of the ring, `OnlyRollback`, `NoRequestDropped`.

Only model-checked: liveness (`HealthKeepsTicking`, `RequestsEnd`, `QueriesEnd`,
`Recovers`, `CellVerdict`, `LetsGo`, `StarvedTold`, and the fairness of
`TokenService`), which is beyond the prover; and the properties of runs that expect a
violation, which do not hold. Every invariant and every action property of the
passing runs is a theorem.

## 5. Plan

In this order; each with its MC configuration, properties and theorems.

1. `Generation`: proof eligibility of a binary generation (`_processPendingSwitches`,
   `_noteGenerationStart`, the rollback window), composed with `Renewal`.
2. `TrackRequests`: deferred track requests against `DaemonManager`'s starts;
   abstract specification `OneAnswer` (a request is answered once, within its
   budget), refined.
3. `Control` with `SoloistWS`: wanted and observed state of one player, armed
   commands, watchdog, takeover; abstract specification: what is observed
   converges to what was last wanted while the transport is up.
4. Done: the ring and the threads of fake-libpulse (`PcmRing` to `PcmBridge`).
5. `Connect`, then the relay of the Rust daemon.
6. Proofs: `OneAnswer` and what else the modules above state. Done: the invariants and
   action properties of all modules there are, and Login5 as an implementation of
   `TokenService`.

## 6. Where the code disagrees with what it says

- **SpClient reset** (`SpClientReload`): a plugin reload zeroes the slot counter
  with requests outstanding; each of their callbacks then takes one off a count
  that no longer contains it.
- **A late 412** (`PathfinderLate`): the second of two queries rejected with the
  old hash removes the hash the first has just scraped; the operation is broken
  for the cooldown although its hash was never rejected.
- **A lost cause of death** (`DaemonExempt`): the poll reads and clears why a
  daemon was stopped before it looks at the backoff; a no_login stop within a
  long backoff is then counted as a crash of the binary.
- **Orphan** (`DaemonOrphan`): a process between TERM and KILL when LMS stops is
  no helper any more, and its timers end with LMS.
- **Rollback in the poll** (`DaemonRollback`): the rollback replaces the entries
  the poll iterates over; the poll can die before its re-arm and leave a streaming
  daemon unwatched until the watchdog comes by.

No run is devoted to one more in SpClient: "any die after $inflightCount++ must exit
through $userCb", says H1 (line 483), "or the counter leaks". The dispatch of the host
lookup (line 328), if it dies in the callback of a mint, ends in the log of Login5's
drain; the caller has no answer and the slot is lost (phase `lost`, which `RequestsEnd`
makes room for).

Nor to these inside fake-libpulse.c, met while modelling the bridge:

- The underflow callback: the HTTP thread decides, and takes the lock of the main
  loop, on a `g_active_stream` it reads several times (lines 3170-3182), while
  `pa_stream_unref` sets it to NULL; the model then stops in `pc = "crashed"`. No
  property forbids it; the scenes unref the active stream only while no client
  is attached. Likewise an unref of a stream that is not the active one does not wait
  for a writer inside it (the comment at 797-800 speaks of all writers).
- A seek arm is compared with the pending flush before it is counted: a flush in
  between is answered by a disconnect, and the arm stays until its TTL. The scenes
  in which that can happen list the clock `"ttl"`.
- A flush between the attach of a client and the reset of `g_flush_disconnect`
  (lines 2860-2870) loses that flush's disconnect.
- `_ring_flush` moves the read position past a standing marker before its caller
  removes the marker, contrary to the order its comment relies on.
- The comment on the write ceiling says the rest of that call is refused at once;
  a later batch of the call is pushed again once there is room.

## 7. Not modelled

Components without a module are listed in PROJECT.json with the reason: planned,
pure I/O, third-party, or nothing a state machine would say. In the modelled
ones, request building and parsing of SpClient, credential file formats, log
following and the librespot branch of DaemonManager are left out, and so are
exceptions that LMS catches in its timer loop (the one of the rollback aside), and
SpClient's renewal of stored tracks. Of
fake-libpulse.c: the context and main loop objects and their callbacks, sample
conversion, timing info, the pipe output used without HTTP, and the request parser.
