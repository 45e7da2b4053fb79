----------------------------- MODULE Pathfinder -----------------------------
(***************************************************************************)
(* The persisted queries of API/Pathfinder.pm for one operation: the job   *)
(* queue and its slots, the bearer from Login5, the hash of the operation  *)
(* and the scrape of the web player bundles that finds it, and the retries *)
(* after a 401 and a 412.                                                  *)
(*                                                                         *)
(* One action is one callback of the LMS event loop, with everything that  *)
(* callback sets going: finished jobs free slots, the pump starts queued   *)
(* jobs, and those may finish at once or start the next scrape.            *)
(* A hash is the version of the web player that declared it.               *)
(***************************************************************************)
EXTENDS Naturals, FiniteSets, Sequences, Functions

CONSTANTS
  Jobs,          \* calls of query
  MaxConcurrent, \* PF_MAX_CONCURRENT
  Cooldown,      \* PF_RESCRAPE_COOLDOWN_S, in ticks
  BrokenRetry,   \* PF_BROKEN_RETRY_S, in ticks
  MaxVersion     \* bound on the releases of the web player

ASSUME PathfinderAssumption ==
  /\ IsFiniteSet(Jobs)
  /\ MaxConcurrent \in Nat \ {0}
  /\ Cooldown \in Nat \ {0}
  /\ BrokenRetry \in Nat
  /\ Cooldown <= BrokenRetry
  /\ MaxVersion \in Nat \ {0}

VARIABLES
  queue,    \* @_queue
  inflight, \* $_inflight
  job,      \* where each job is, and what its closure remembers
  store,    \* the module's caches and health
  version,  \* the web player's release: the hash Spotify accepts
  spent,    \* history: age of the last scrape that got past the page request
  scraped   \* history: the hash of the last scrape, 0 once it was rejected

vars == <<queue, inflight, job, store, version, spent, scraped>>

\* An age in ticks; BrokenRetry stands for every greater one, and for undef.
Ages == 0 .. BrokenRetry

Holding == {"token", "scrape", "rescrape", "posted"}
Holders == {j \in Jobs : job[j].phase \in Holding}
In(ph) == {j \in Jobs : job[j].phase = ph}

TypeOK ==
  /\ queue \in Seq(Jobs)
  /\ inflight \in Nat
  /\ job \in [Jobs -> [phase : Holding \cup {"idle", "queued", "done"},
                       sent : 0 .. MaxVersion,
                       retried401 : BOOLEAN, rescraped : BOOLEAN, posts : Nat]]
  /\ store \in [hash : 0 .. MaxVersion,  \* PF_HASH_CACHE_PREFIX . $op
                limited : BOOLEAN,       \* PF_RATE_LIMIT_KEY is set
                scraping : BOOLEAN,      \* $_scrapeRunning
                last : Ages,             \* age of $_h{lastScrapeAt}
                prior : Ages,            \* age of $priorScrapeAt
                healed : BOOLEAN,        \* $_h{scrapeHealed}
                broken : BOOLEAN,        \* $_h{brokenOps}{$op}
                missing : BOOLEAN]       \* $_h{opsMissing}{$op}
  /\ version \in 1 .. MaxVersion
  /\ spent \in Ages
  /\ scraped \in 0 .. MaxVersion

NewJob == [phase |-> "idle", sent |-> 0, retried401 |-> FALSE, rescraped |-> FALSE, posts |-> 0]

\* After reset(), at the start of the plugin: only the hash survived in the cache.
Init ==
  /\ queue = <<>>
  /\ inflight = 0
  /\ job = [j \in Jobs |-> NewJob]
  /\ version = 1
  /\ \E h \in {0, 1} :
       store = [hash |-> h, limited |-> FALSE, scraping |-> FALSE, last |-> BrokenRetry,
                prior |-> BrokenRetry, healed |-> TRUE, broken |-> FALSE, missing |-> FALSE]
  /\ spent = BrokenRetry
  /\ scraped = 0

-----------------------------------------------------------------------------
(* What a handler leads to.                                                *)

\* A running scrape can be joined; otherwise the window of the last one counts.
ScrapeAllowed(s) ==
  \/ s.scraping
  \/ s.last >= (IF s.healed THEN Cooldown ELSE BrokenRetry)

\* _withHash: the cached hash is posted; without one, a scrape or a refusal.
WithHash(s) ==
  CASE s.hash # 0 -> "posted"
    [] s.hash = 0 /\ ScrapeAllowed(s) -> "scrape"
    [] s.hash = 0 /\ ~ScrapeAllowed(s) -> "refused"

\* _attempt: over at once under a rate limit, without a bearer or when it dies;
\* waiting for a bearer; or with one and on to the hash.
Attempt(s) == IF s.limited THEN {"over"} ELSE {"over", "token", WithHash(s)}

\* The outcomes in which $finish runs.
Over == {"over", "refused"}

\* Job j after an outcome: its closure goes when it is over, and remembers the
\* hash it was posted with and the retries it used up.
Enter(j, out, h) ==
  CASE out \in Over -> [NewJob EXCEPT !.phase = "done"]
    [] out = "posted" -> [job[j] EXCEPT !.phase = "posted", !.sent = h, !.posts = @ + 1]
    [] out = "remint" -> [job[j] EXCEPT !.phase = "token", !.sent = 0, !.retried401 = TRUE]
    [] out = "rescrape" -> [job[j] EXCEPT !.phase = "rescrape", !.sent = 0, !.rescraped = TRUE]
    [] OTHER -> [job[j] EXCEPT !.phase = out, !.sent = 0]

\* Mutant: the flag is not set, so that nobody can join and the next caller
\* starts a scrape of its own.
AfterUncoalesced(s, outs) ==
  [s EXCEPT !.broken = @ \/ ("refused" \in outs /\ ~s.missing),
            !.prior = IF outs \cap {"scrape", "rescrape"} # {} THEN s.last ELSE @,
            !.last = IF outs \cap {"scrape", "rescrape"} # {} THEN 0 ELSE @]

\* The store after a turn with these outcomes: a refusal marks the operation
\* broken unless it is known to be missing; the first caller of refreshHashes
\* starts the scrape, and its admission is the cooldown's anchor.
After(s, outs) ==
  LET starts == ~s.scraping /\ outs \cap {"scrape", "rescrape"} # {} IN
  [s EXCEPT !.broken = @ \/ ("refused" \in outs /\ ~s.missing),
            !.scraping = @ \/ starts,
            !.prior = IF starts THEN s.last ELSE @,
            !.last = IF starts THEN 0 ELSE @]

\* The jobs of `moved` reach their outcome, and _pump, with `held` slots taken,
\* starts the first n jobs of q, as many as there are free slots for; those that are
\* over at once free theirs again.
MoveAndPump(moved, q, s, held) ==
  \E n \in 0 .. Len(q) : \E out \in [1 .. n -> Attempt(s)] :
    LET Kept(i) == Cardinality({k \in 1 .. i : out[k] \notin Over})
        Place(j) == CHOOSE i \in 1 .. n : q[i] = j
        begun == {q[i] : i \in 1 .. n}
        dest == [j \in DOMAIN moved \cup begun |->
                   IF j \in begun THEN out[Place(j)] ELSE moved[j]]
    IN /\ \A i \in 1 .. n : held + Kept(i - 1) < MaxConcurrent
       /\ n < Len(q) => held + Kept(n) >= MaxConcurrent
       /\ inflight' = held + Kept(n)
       /\ queue' = SubSeq(q, n + 1, Len(q))
       /\ job' = [j \in Jobs |-> IF j \in DOMAIN dest THEN Enter(j, dest[j], s.hash)
                                 ELSE IF j \in Range(q) THEN [job[j] EXCEPT !.phase = "queued"]
                                 ELSE job[j]]
       /\ store' = After(s, Range(dest))

Freed(moved) == Cardinality({j \in DOMAIN moved : moved[j] \in Over})

\* Mutant: a finished job keeps its slot.
TurnLeaking(moved, q, s) == MoveAndPump(moved, q, s, inflight)

\* Mutant: without the $done guard, $finish runs twice.
TurnTwice(moved, q, s) == MoveAndPump(moved, q, s, inflight - 2 * Freed(moved))

\* Mutant: a finished job is not followed by a pump.
TurnUnpumped(moved, q, s) ==
  \/ /\ q # queue
     /\ MoveAndPump(moved, q, s, inflight)
  \/ /\ q = queue
     /\ inflight' = inflight - Freed(moved)
     /\ queue' = q
     /\ job' = [j \in Jobs |-> IF j \in DOMAIN moved THEN Enter(j, moved[j], s.hash) ELSE job[j]]
     /\ store' = After(s, Range(moved))

\* The rest of a turn of the event loop: the jobs of `moved` reach their outcome,
\* those that are over free their slots, and the pump runs.
Turn(moved, q, s) == MoveAndPump(moved, q, s, inflight - Freed(moved))

Ends(j) == [i \in {j} |-> "over"]

-----------------------------------------------------------------------------
(* query and the answers it waits for.                                     *)

Query(j) ==
  /\ job[j].phase = "idle"
  /\ Turn(<<>>, Append(queue, j), store)
  /\ UNCHANGED <<version, spent, scraped>>

\* Login5 settles the mint the jobs in S wait for, in one turn.
TokenAnswer(S) ==
  /\ S # {}
  /\ S \subseteq In("token")
  /\ \E out \in {"over", WithHash(store)} : Turn([j \in S |-> out], queue, store)
  /\ UNCHANGED <<version, spent, scraped>>

\* A decoded result: the operation works.
HttpOk(j) ==
  /\ job[j].phase = "posted"
  /\ Turn(Ends(j), queue,
          [store EXCEPT !.healed = TRUE, !.broken = FALSE, !.missing = FALSE])
  /\ UNCHANGED <<version, spent, scraped>>

Http429(j) ==
  /\ job[j].phase = "posted"
  /\ Turn(Ends(j), queue, [store EXCEPT !.limited = TRUE])
  /\ UNCHANGED <<version, spent, scraped>>

\* A 403, any other error, an answer that does not parse or carries errors[].
HttpError(j) ==
  /\ job[j].phase = "posted"
  /\ Turn(Ends(j), queue, store)
  /\ UNCHANGED <<version, spent, scraped>>

\* A 401 removes the bearer, so that the one retry waits for a new one.
Http401(j) ==
  /\ job[j].phase = "posted"
  /\ \/ Turn(Ends(j), queue, store)       \* the second one, or the retry fails at once
     \/ /\ ~job[j].retried401
        /\ ~store.limited
        /\ Turn([i \in {j} |-> "remint"], queue, store)
  /\ UNCHANGED <<version, spent, scraped>>

\* A 412, which only a hash of another release gets: the cached hash goes --
\* whichever hash it is by now -- and the job rescrapes, once and if a scrape is
\* allowed.
OnHashRejected(j) ==
  /\ job[j].phase = "posted"
  /\ job[j].sent # version
  /\ scraped' = IF job[j].sent = scraped THEN 0 ELSE scraped
  /\ LET s == [store EXCEPT !.hash = 0] IN
       \/ /\ job[j].rescraped
          /\ Turn(Ends(j), queue, [s EXCEPT !.broken = TRUE, !.healed = FALSE])
       \/ /\ ~job[j].rescraped
          /\ ~ScrapeAllowed(s)
          /\ Turn(Ends(j), queue, [s EXCEPT !.broken = TRUE])
       \/ /\ ~job[j].rescraped
          /\ ScrapeAllowed(s)
          /\ Turn([i \in {j} |-> "rescrape"], queue, s)
  /\ UNCHANGED <<version, spent>>

-----------------------------------------------------------------------------
(* The scrape's end.                                                       *)

Waiters == In("scrape") \cup In("rescrape")

\* Mutant: a failure of any kind gives the cooldown back.
AnchorAnyFailure(result) == IF result \in {"page", "nothing"} THEN store.prior ELSE store.last

\* The cooldown's anchor once a scrape has ended: a transport failure of the page
\* request gives it back.
Anchor(result) == IF result = "page" THEN store.prior ELSE store.last

\* The scrape ends: the page could not be read, the bundles declare nothing, or
\* not this operation, or they declare it.  Every waiter is answered: with a hash,
\* those of _withHash post and those of _onHashRejected attempt again; without
\* one, all are over.
ScrapeEnds(result) ==
  /\ store.scraping
  /\ LET s == [store EXCEPT !.scraping = FALSE,
                            !.last = Anchor(result),
                            !.hash = IF result = "found" THEN version ELSE @]
     IN \/ /\ s.hash # 0
           /\ \E again \in [In("rescrape") -> Attempt(s)] :
                Turn([j \in Waiters |-> IF j \in In("scrape") THEN "posted" ELSE again[j]],
                     queue, [s EXCEPT !.missing = @ /\ In("scrape") = {}])
        \/ /\ s.hash = 0
           /\ Turn([j \in Waiters |-> "over"], queue,
                   IF result = "undeclared" THEN [s EXCEPT !.missing = TRUE, !.healed = FALSE]
                                            ELSE [s EXCEPT !.broken = TRUE])
  /\ spent' = IF result = "page" THEN spent ELSE store.last
  /\ scraped' = IF result = "found" THEN version ELSE 0
  /\ UNCHANGED version

-----------------------------------------------------------------------------
(* Time and Spotify.                                                       *)

Older(age) == IF age < BrokenRetry THEN age + 1 ELSE age

Tick ==
  /\ store' = [store EXCEPT !.last = Older(@), !.prior = Older(@)]
  /\ spent' = Older(spent)
  /\ UNCHANGED <<queue, inflight, job, version, scraped>>

RateLapses ==
  /\ store.limited
  /\ store' = [store EXCEPT !.limited = FALSE]
  /\ UNCHANGED <<queue, inflight, job, version, spent, scraped>>

\* PF_HASH_TTL, 30 days after the scrape.
HashExpires ==
  /\ store.hash # 0
  /\ store.last = BrokenRetry
  /\ store' = [store EXCEPT !.hash = 0]
  /\ UNCHANGED <<queue, inflight, job, version, spent, scraped>>

\* A new release of the web player: new hashes.
Rotate ==
  /\ version < MaxVersion
  /\ version' = version + 1
  /\ UNCHANGED <<queue, inflight, job, store, spent, scraped>>

\* The request job j waits for answers.
Answer(j) ==
  \/ HttpOk(j) \/ Http429(j) \/ HttpError(j) \/ Http401(j) \/ OnHashRejected(j)
  \/ \E S \in SUBSET Jobs : j \in S /\ TokenAnswer(S)

ScrapeAnswers == \E result \in {"page", "nothing", "undeclared", "found"} : ScrapeEnds(result)

Next ==
  \/ \E j \in Jobs : Query(j) \/ Answer(j)
  \/ ScrapeAnswers
  \/ Tick \/ RateLapses \/ HashExpires \/ Rotate

\* Every SimpleAsyncHTTP request -- login5, query, page or bundle -- calls one of
\* its callbacks within its timeout.
Fairness ==
  /\ \A j \in Jobs : WF_vars(Answer(j))
  /\ WF_vars(ScrapeAnswers)

Spec == Init /\ [][Next]_vars
FairSpec == Spec /\ Fairness

-----------------------------------------------------------------------------
(* Properties.                                                             *)

\* A slot is taken by exactly the jobs that were started and are not answered yet,
\* however they fail and however often they are sent again; never more than
\* PF_MAX_CONCURRENT of them.
JobsHoldSlots ==
  /\ inflight = Cardinality(Holders)
  /\ inflight <= MaxConcurrent

\* A job waits in the queue only while every slot is taken: whoever frees a slot
\* starts the next one.
QueueMoves ==
  /\ Range(queue) = In("queued")
  /\ queue # <<>> => inflight = MaxConcurrent

\* A job waits for a scrape only while one runs that will answer it, and a scrape
\* runs only for somebody.
WaitersServed == store.scraping <=> Waiters # {}

\* A query costs at most three POSTs: the first, one after a 401, one after a 412.
PostsBounded == \A j \in Jobs : job[j].posts <= 3

\* T-85-32: between two scrapes that cost bundles lies the cooldown, whatever
\* failed in between.
ScrapesSpaced == store.scraping => spent >= Cooldown

\* brokenOps: "ops whose scraped hash is still rejected (412)".  An operation
\* becomes broken only once the hash of the last scrape was rejected, or when that
\* scrape found none.
BrokenMeansRejected ==
  [][~store.broken /\ store'.broken => scraped' = 0]_vars

\* Every query is answered: whatever Spotify answers, and however often the page
\* cannot be read, the queue and the slots are empty in the end.
QueriesEnd == <>[](queue = <<>> /\ Holders = {})

=============================================================================
