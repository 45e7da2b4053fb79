--------------------------- MODULE PathfinderProofs ---------------------------
(***************************************************************************)
(* The safety properties of Pathfinder, proved for any queries and bounds. *)
(* All handlers end in one turn, so one lemma, TurnSafe, carries most of   *)
(* the proof: what the jobs a handler moves may come to (Fits), and what   *)
(* the store must satisfy in which the turn begins (StoreReady).           *)
(***************************************************************************)
EXTENDS Pathfinder, FiniteSetTheorems, SequenceTheorems, TLAPS

USE PathfinderAssumption DEF PathfinderAssumption

Phases == Holding \cup {"idle", "queued", "done"}

JobSet == [phase : Phases, sent : 0 .. MaxVersion,
           retried401 : BOOLEAN, rescraped : BOOLEAN, posts : Nat]

StoreSet == [hash : 0 .. MaxVersion, limited : BOOLEAN, scraping : BOOLEAN,
             last : Ages, prior : Ages,
             healed : BOOLEAN, broken : BOOLEAN, missing : BOOLEAN]

\* A job that was posted k times has used up k - 1 retries, and the next one
\* where it is not posted.
Retries(rec) == (IF rec.retried401 THEN 1 ELSE 0) + (IF rec.rescraped THEN 1 ELSE 0)
PostsUsed(rec) == rec.posts <= Retries(rec) + (IF rec.phase = "posted" THEN 1 ELSE 0)

\* No job is queued twice.
QueueDistinct == \A i, k \in 1 .. Len(queue) : queue[i] = queue[k] => i = k

\* The anchor of the cooldown is the last scrape that cost bundles: of a running
\* scrape, the one to return to.
Anchored(s, sp) == IF s.scraping THEN s.prior = sp /\ sp >= Cooldown ELSE s.last = sp

IInv ==
  /\ TypeOK
  /\ JobsHoldSlots
  /\ QueueMoves
  /\ QueueDistinct
  /\ WaitersServed
  /\ \A j \in Jobs : PostsUsed(job[j])
  /\ Anchored(store, spent)

-----------------------------------------------------------------------------
(* One job.                                                                *)

Outcomes == Over \cup {"token", "posted", "scrape", "remint", "rescrape"}

\* The outcomes that job j may come to, given where it is and which retries it has.
Fits(j, out) ==
  \/ out \in Over
  \/ out \in {"token", "posted", "scrape"} /\ job[j].phase \notin {"posted", "done"}
  \/ out = "remint" /\ job[j].phase = "posted" /\ ~job[j].retried401
  \/ out = "rescrape" /\ job[j].phase = "posted" /\ ~job[j].rescraped

PhaseAfter(out) ==
  IF out \in Over THEN "done" ELSE IF out = "remint" THEN "token" ELSE out

\* A fitting outcome leaves a proper job that has not used up too many posts.
LEMMA EnterFits ==
  ASSUME NEW j \in Jobs, job[j] \in JobSet, PostsUsed(job[j]),
         NEW out \in Outcomes, Fits(j, out), NEW h \in 0 .. MaxVersion
  PROVE  /\ Enter(j, out, h) \in JobSet
         /\ PostsUsed(Enter(j, out, h))
         /\ Enter(j, out, h).phase = PhaseAfter(out)
<1> DEFINE r == job[j]
           e == Enter(j, out, h)
<1>r. /\ r \in JobSet /\ r.posts \in Nat /\ r.retried401 \in BOOLEAN /\ r.rescraped \in BOOLEAN
      /\ r.posts <= Retries(r) + (IF r.phase = "posted" THEN 1 ELSE 0)
  BY DEF JobSet, PostsUsed
<1>z. 0 \in 0 .. MaxVersion /\ r.posts + 1 \in Nat
  BY <1>r
<1>1. CASE out \in Over
  <2>1. e = [phase |-> "done", sent |-> 0, retried401 |-> FALSE, rescraped |-> FALSE, posts |-> 0]
    BY <1>1 DEF Enter, Over, NewJob
  <2>2. /\ e.phase = "done" /\ e.posts = 0 /\ ~e.retried401 /\ ~e.rescraped /\ e.sent = 0
    BY <2>1
  <2>3. e \in JobSet
    BY <1>z, <2>1 DEF JobSet, Phases, Holding
  <2> QED
    BY <1>1, <2>2, <2>3, <1>r DEF PostsUsed, Retries, Fits, PhaseAfter, Over
<1>2. CASE out = "posted"
  <2>1. e = [r EXCEPT !.phase = "posted", !.sent = h, !.posts = r.posts + 1]
    BY <1>2 DEF Enter, Over
  <2>2. /\ e.phase = "posted" /\ e.posts = r.posts + 1
        /\ e.retried401 = r.retried401 /\ e.rescraped = r.rescraped
    BY <1>r, <2>1 DEF JobSet
  <2>3. e \in JobSet
    BY <1>r, <1>z, <2>1 DEF JobSet, Phases, Holding
  <2> QED
    BY <1>2, <2>2, <2>3, <1>r DEF PostsUsed, Retries, Fits, PhaseAfter, Over
<1>3. CASE out = "remint"
  <2>1. e = [r EXCEPT !.phase = "token", !.sent = 0, !.retried401 = TRUE]
    BY <1>3 DEF Enter, Over
  <2>2. /\ e.phase = "token" /\ e.posts = r.posts /\ e.retried401 = TRUE
        /\ e.rescraped = r.rescraped
    BY <1>r, <2>1 DEF JobSet
  <2>3. e \in JobSet
    BY <1>r, <1>z, <2>1 DEF JobSet, Phases, Holding
  <2> QED
    BY <1>3, <2>2, <2>3, <1>r DEF PostsUsed, Retries, Fits, PhaseAfter, Over
<1>4. CASE out = "rescrape"
  <2>1. e = [r EXCEPT !.phase = "rescrape", !.sent = 0, !.rescraped = TRUE]
    BY <1>4 DEF Enter, Over
  <2>2. /\ e.phase = "rescrape" /\ e.posts = r.posts /\ e.rescraped = TRUE
        /\ e.retried401 = r.retried401
    BY <1>r, <2>1 DEF JobSet
  <2>3. e \in JobSet
    BY <1>r, <1>z, <2>1 DEF JobSet, Phases, Holding
  <2> QED
    BY <1>4, <2>2, <2>3, <1>r DEF PostsUsed, Retries, Fits, PhaseAfter, Over
<1>5. CASE out \in {"token", "scrape"}
  <2>1. e = [r EXCEPT !.phase = out, !.sent = 0]
    BY <1>5 DEF Enter, Over
  <2>2. /\ e.phase = out /\ e.posts = r.posts
        /\ e.retried401 = r.retried401 /\ e.rescraped = r.rescraped
    BY <1>r, <2>1 DEF JobSet
  <2>3. e \in JobSet
    BY <1>5, <1>r, <1>z, <2>1 DEF JobSet, Phases, Holding
  <2> QED
    BY <1>5, <2>2, <2>3, <1>r DEF PostsUsed, Retries, Fits, PhaseAfter, Over
<1> QED
  BY <1>1, <1>2, <1>3, <1>4, <1>5 DEF Outcomes

\* What an attempt may come to.
LEMMA AttemptOutcomes ==
  ASSUME NEW s \in StoreSet, NEW out \in Attempt(s)
  PROVE  /\ out \in Over \cup {"token", "posted", "scrape"}
         /\ out = "scrape" => ScrapeAllowed(s)
BY DEF Attempt, WithHash, Over, StoreSet

\* How the store looks after a turn with these outcomes.
LEMMA AfterStore ==
  ASSUME NEW s \in StoreSet, NEW outs \in SUBSET Outcomes, NEW sp \in Ages,
         outs \cap {"scrape", "rescrape"} # {} => ScrapeAllowed(s),
         Anchored(s, sp)
  PROVE  /\ After(s, outs) \in StoreSet
         /\ After(s, outs).scraping <=> s.scraping \/ outs \cap {"scrape", "rescrape"} # {}
         /\ Anchored(After(s, outs), sp)
<1>1. 0 \in Ages
  BY DEF Ages
<1>2. CASE s.scraping \/ outs \cap {"scrape", "rescrape"} = {}
  BY <1>2 DEF After, StoreSet, Anchored
<1>3. CASE ~s.scraping /\ outs \cap {"scrape", "rescrape"} # {}
  <2>1. s.last >= Cooldown
    BY <1>3 DEF ScrapeAllowed, StoreSet, Ages
  <2>2. /\ After(s, outs).scraping = TRUE
        /\ After(s, outs).prior = s.last
        /\ After(s, outs) \in StoreSet
    BY <1>1, <1>3 DEF After, StoreSet
  <2> QED
    BY <1>3, <2>1, <2>2 DEF Anchored
<1> QED
  BY <1>2, <1>3 DEF StoreSet

-----------------------------------------------------------------------------
(* Counting.                                                               *)

\* Taking members of a finite set away takes as many off its cardinality.
LEMMA CardinalityMinus ==
  ASSUME NEW T, IsFiniteSet(T), NEW S \in SUBSET T
  PROVE  /\ IsFiniteSet(S) /\ Cardinality(S) \in Nat /\ Cardinality(S) <= Cardinality(T)
         /\ IsFiniteSet(T \ S)
         /\ Cardinality(T) \in Nat
         /\ Cardinality(T \ S) = Cardinality(T) - Cardinality(S)
<1>1. /\ IsFiniteSet(S) /\ Cardinality(S) \in Nat /\ Cardinality(T) \in Nat
      /\ Cardinality(S) <= Cardinality(T)
  BY FS_Subset, FS_CardinalityType
<1>2. /\ IsFiniteSet(T \ S)
      /\ Cardinality(T \ S) = Cardinality(T) - Cardinality(T \cap S)
  BY FS_Difference
<1>3. T \cap S = S
  OBVIOUS
<1> QED
  BY <1>1, <1>2, <1>3

\* Different places of a queue without repetitions hold as many jobs.
LEMMA DistinctJobs ==
  ASSUME NEW q, NEW I, IsFiniteSet(I), \A i, k \in I : q[i] = q[k] => i = k
  PROVE  /\ IsFiniteSet({q[i] : i \in I})
         /\ Cardinality({q[i] : i \in I}) = Cardinality(I)
<1> DEFINE T == {q[i] : i \in I}
           f == [i \in I |-> q[i]]
<1>1. f \in [I -> T]
  OBVIOUS
<1>2. IsInjective(f)
  BY DEF IsInjective
<1>3. \A t \in T : \E i \in I : f[i] = t
  OBVIOUS
<1>4. f \in Bijection(I, T)
  BY <1>1, <1>2, <1>3 DEF Bijection, Injection, Surjection
<1>5. ExistsBijection(I, T)
  BY <1>4 DEF ExistsBijection
<1> QED
  BY <1>5, FS_Bijection

\* The places of the jobs that were begun and kept their slot.
KeptAt(out, i) == {k \in 1 .. i : out[k] \notin Over}

\* One more job begun takes at most one more slot.
LEMMA KeptGrows ==
  ASSUME NEW out, NEW n \in Nat
  PROVE  /\ IsFiniteSet(KeptAt(out, n)) /\ Cardinality(KeptAt(out, n)) \in Nat
         /\ n = 0 => Cardinality(KeptAt(out, n)) = 0
         /\ n # 0 => Cardinality(KeptAt(out, n)) <= Cardinality(KeptAt(out, n - 1)) + 1
<1>1. \A m \in Nat : IsFiniteSet(KeptAt(out, m)) /\ Cardinality(KeptAt(out, m)) \in Nat
  <2> TAKE m \in Nat
  <2>1. IsFiniteSet(1 .. m)
    BY FS_Interval
  <2>2. KeptAt(out, m) \in SUBSET (1 .. m)
    BY DEF KeptAt
  <2> QED
    BY <2>1, <2>2, FS_Subset, FS_CardinalityType
<1>2. CASE n = 0
  <2>1. KeptAt(out, n) = {}
    BY <1>2 DEF KeptAt
  <2> QED
    BY <1>1, <1>2, <2>1, FS_EmptySet, Zenon
<1>3. CASE n # 0
  <2> DEFINE K == KeptAt(out, n - 1)
  <2>1. n - 1 \in Nat /\ IsFiniteSet(K) /\ Cardinality(K) \in Nat
    BY <1>1, <1>3
  <2>2. /\ IsFiniteSet(K \cup {n})
        /\ Cardinality(K \cup {n}) = IF n \in K THEN Cardinality(K) ELSE Cardinality(K) + 1
    BY <2>1, FS_AddElement
  <2>3. KeptAt(out, n) \in SUBSET (K \cup {n})
    BY <1>3 DEF KeptAt
  <2>4. Cardinality(KeptAt(out, n)) <= Cardinality(K \cup {n})
    BY <2>2, <2>3, FS_Subset
  <2> QED
    BY <1>1, <1>3, <2>1, <2>2, <2>4
<1> QED
  BY <1>2, <1>3

-----------------------------------------------------------------------------
(* A turn.                                                                 *)

\* What a handler must see to before its turn: it moves jobs that hold a slot, to
\* outcomes that fit; the queue holds what waits; and the store's scrape is the
\* one of the waiters that stay.
TurnReady(moved, q, s, sp) ==
  /\ DOMAIN moved \subseteq Holders
  /\ \A j \in DOMAIN moved :
       /\ moved[j] \in Outcomes /\ Fits(j, moved[j])
       /\ moved[j] \in {"scrape", "rescrape"} => ScrapeAllowed(s)
  /\ q \in Seq(Jobs)
  /\ \A i, k \in 1 .. Len(q) : q[i] = q[k] => i = k
  /\ \A i \in 1 .. Len(q) : job[q[i]].phase \in {"idle", "queued"}
  /\ In("queued") \subseteq Range(q)
  /\ s \in StoreSet
  /\ s.scraping <=> Waiters \ DOMAIN moved # {}
  /\ Anchored(s, sp)

\* The turn in terms of where every job it moves gets: the first n of the queue
\* come to out, the others to what the handler moved them to.
TurnTo(moved, q, s, n, out, dest) ==
  LET held == inflight - Freed(moved) IN
  /\ DOMAIN dest = DOMAIN moved \cup {q[i] : i \in 1 .. n}
  /\ \A i \in 1 .. n : dest[q[i]] = out[i]
  /\ \A j \in DOMAIN moved : dest[j] = moved[j]
  /\ \A i \in 1 .. n : held + Cardinality(KeptAt(out, i - 1)) < MaxConcurrent
  /\ n < Len(q) => held + Cardinality(KeptAt(out, n)) >= MaxConcurrent
  /\ inflight' = held + Cardinality(KeptAt(out, n))
  /\ queue' = SubSeq(q, n + 1, Len(q))
  /\ job' = [j \in Jobs |-> IF j \in DOMAIN dest THEN Enter(j, dest[j], s.hash)
                            ELSE IF j \in Range(q) THEN [job[j] EXCEPT !.phase = "queued"]
                            ELSE job[j]]
  /\ store' = After(s, Range(dest))

LEMMA TurnIsTurnTo ==
  ASSUME NEW moved, NEW q, NEW s, NEW sp, TurnReady(moved, q, s, sp), Turn(moved, q, s)
  PROVE  \E n \in 0 .. Len(q) : \E out \in [1 .. n -> Attempt(s)] : \E dest :
           TurnTo(moved, q, s, n, out, dest)
<1> DEFINE held == inflight - Freed(moved)
           Place(n, j) == CHOOSE i \in 1 .. n : q[i] = j
           begun(n) == {q[i] : i \in 1 .. n}
           D(n, out) == [j \in DOMAIN moved \cup begun(n) |->
                           IF j \in begun(n) THEN out[Place(n, j)] ELSE moved[j]]
<1> DEFINE Body(n, out) ==
             /\ \A i \in 1 .. n : held + Cardinality(KeptAt(out, i - 1)) < MaxConcurrent
             /\ n < Len(q) => held + Cardinality(KeptAt(out, n)) >= MaxConcurrent
             /\ inflight' = held + Cardinality(KeptAt(out, n))
             /\ queue' = SubSeq(q, n + 1, Len(q))
             /\ job' = [j \in Jobs |-> IF j \in DOMAIN D(n, out) THEN Enter(j, D(n, out)[j], s.hash)
                                       ELSE IF j \in Range(q) THEN [job[j] EXCEPT !.phase = "queued"]
                                       ELSE job[j]]
             /\ store' = After(s, Range(D(n, out)))
<1>n. PICK n \in 0 .. Len(q) : \E out \in [1 .. n -> Attempt(s)] : Body(n, out)
  BY DEF Turn, MoveAndPump, KeptAt
<1>1. PICK out \in [1 .. n -> Attempt(s)] : Body(n, out)
  BY <1>n
<1> DEFINE dest == D(n, out)
<1>2. DOMAIN dest = DOMAIN moved \cup {q[i] : i \in 1 .. n}
  OBVIOUS
<1>3. \A i \in 1 .. n : dest[q[i]] = out[i]
  <2> TAKE i \in 1 .. n
  <2>1. Len(q) \in Nat /\ 1 .. n \subseteq 1 .. Len(q)
    BY DEF TurnReady
  <2>2. \A k \in 1 .. n : q[k] = q[i] => k = i
    BY <2>1 DEF TurnReady
  <2>3. Place(n, q[i]) = i
    BY <2>2
  <2>4. q[i] \in begun(n)
    OBVIOUS
  <2> QED
    BY <2>3, <2>4
<1>4. \A j \in DOMAIN moved : dest[j] = moved[j]
  <2>1. \A j \in DOMAIN moved : job[j].phase \in Holding
    BY DEF TurnReady, Holders
  <2>2. Len(q) \in Nat /\ 1 .. n \subseteq 1 .. Len(q)
    BY DEF TurnReady
  <2>3. \A j \in begun(n) : job[j].phase \in {"idle", "queued"}
    BY <2>2 DEF TurnReady
  <2>4. \A j \in DOMAIN moved : j \notin begun(n)
    BY <2>1, <2>3 DEF Holding
  <2> QED
    BY <2>4
<1> HIDE DEF dest
<1>5. TurnTo(moved, q, s, n, out, dest)
  <2>1. /\ job' = [j \in Jobs |-> IF j \in DOMAIN dest THEN Enter(j, dest[j], s.hash)
                                  ELSE IF j \in Range(q) THEN [job[j] EXCEPT !.phase = "queued"]
                                  ELSE job[j]]
        /\ store' = After(s, Range(dest))
    BY <1>1 DEF dest
  <2> QED
    BY <1>1, <1>2, <1>3, <1>4, <2>1 DEF TurnTo
<1> QED
  BY <1>5

\* What the inductive invariant says of the jobs and slots a turn begins with.
TurnFrom ==
  /\ inflight \in Nat
  /\ job \in [Jobs -> JobSet]
  /\ JobsHoldSlots
  /\ \A j \in Jobs : PostsUsed(job[j])

\* What it says after one.
TurnDone(sp) ==
  /\ queue' \in Seq(Jobs)
  /\ inflight' \in Nat
  /\ job' \in [Jobs -> JobSet]
  /\ store' \in StoreSet
  /\ JobsHoldSlots'
  /\ QueueMoves'
  /\ QueueDistinct'
  /\ WaitersServed'
  /\ \A j \in Jobs : PostsUsed(job'[j])
  /\ Anchored(store', sp)

\* The jobs a turn moves come to fitting outcomes, and no scrape is started
\* against the cooldown.
LEMMA Destinations ==
  ASSUME NEW moved, NEW q, NEW s, NEW sp, TurnFrom, TurnReady(moved, q, s, sp),
         NEW n \in 0 .. Len(q), NEW out \in [1 .. n -> Attempt(s)], NEW dest,
         TurnTo(moved, q, s, n, out, dest)
  PROVE  /\ DOMAIN dest \subseteq Jobs
         /\ \A j \in DOMAIN dest :
              /\ dest[j] \in Outcomes /\ Fits(j, dest[j])
              /\ dest[j] \in {"scrape", "rescrape"} => ScrapeAllowed(s)
<1>1. Len(q) \in Nat /\ 1 .. n \subseteq 1 .. Len(q) /\ \A i \in 1 .. Len(q) : q[i] \in Jobs
  BY DEF TurnReady
<1>2. DOMAIN dest = DOMAIN moved \cup {q[i] : i \in 1 .. n}
  BY DEF TurnTo
<1>3. DOMAIN moved \subseteq Jobs
  BY DEF TurnReady, Holders
<1>4. ASSUME NEW i \in 1 .. n
      PROVE  /\ dest[q[i]] \in Outcomes /\ Fits(q[i], dest[q[i]])
             /\ dest[q[i]] \in {"scrape", "rescrape"} => ScrapeAllowed(s)
  <2>1. dest[q[i]] = out[i]
    BY DEF TurnTo
  <2>2. out[i] \in Attempt(s)
    OBVIOUS
  <2>3. /\ out[i] \in Over \cup {"token", "posted", "scrape"}
        /\ out[i] = "scrape" => ScrapeAllowed(s)
    BY <2>2, AttemptOutcomes DEF TurnReady
  <2>4. job[q[i]].phase \in {"idle", "queued"}
    BY <1>1 DEF TurnReady
  <2> QED
    BY <2>1, <2>3, <2>4 DEF Outcomes, Fits, Over
<1>5. ASSUME NEW j \in DOMAIN moved
      PROVE  /\ dest[j] \in Outcomes /\ Fits(j, dest[j])
             /\ dest[j] \in {"scrape", "rescrape"} => ScrapeAllowed(s)
  <2>1. dest[j] = moved[j]
    BY DEF TurnTo
  <2> QED
    BY <2>1 DEF TurnReady
<1> QED
  BY <1>1, <1>2, <1>3, <1>4, <1>5

\* What becomes of each job.
LEMMA JobsAfter ==
  ASSUME NEW moved, NEW q, NEW s, NEW sp, TurnFrom, TurnReady(moved, q, s, sp),
         NEW n \in 0 .. Len(q), NEW out \in [1 .. n -> Attempt(s)], NEW dest,
         TurnTo(moved, q, s, n, out, dest)
  PROVE  /\ job' \in [Jobs -> JobSet]
         /\ \A j \in Jobs : PostsUsed(job'[j])
         /\ \A j \in DOMAIN dest : job'[j].phase = PhaseAfter(dest[j])
         /\ \A j \in Range(q) \ DOMAIN dest : job'[j].phase = "queued"
         /\ \A j \in Jobs \ (Range(q) \cup DOMAIN dest) : job'[j].phase = job[j].phase
<1>1. job' = [j \in Jobs |-> IF j \in DOMAIN dest THEN Enter(j, dest[j], s.hash)
                             ELSE IF j \in Range(q) THEN [job[j] EXCEPT !.phase = "queued"]
                             ELSE job[j]]
  BY DEF TurnTo
<1>2. s.hash \in 0 .. MaxVersion
  BY DEF TurnReady, StoreSet
<1>3. Range(q) \subseteq Jobs /\ \A j \in Range(q) : job[j].phase \in {"idle", "queued"}
  <2>1. Range(q) = {q[i] : i \in 1 .. Len(q)} /\ \A i \in 1 .. Len(q) : q[i] \in Jobs
    BY DEF TurnReady, Range
  <2> QED
    BY <2>1 DEF TurnReady
<1>4. \A j \in Jobs : job[j] \in JobSet /\ PostsUsed(job[j])
  BY DEF TurnFrom
<1>5. ASSUME NEW j \in Jobs, j \in DOMAIN dest
      PROVE  job'[j] \in JobSet /\ PostsUsed(job'[j]) /\ job'[j].phase = PhaseAfter(dest[j])
  <2>1. job'[j] = Enter(j, dest[j], s.hash)
    BY <1>1, <1>5
  <2>2. dest[j] \in Outcomes /\ Fits(j, dest[j])
    BY <1>5, Destinations
  <2>3. job[j] \in JobSet /\ PostsUsed(job[j])
    BY <1>4
  <2>4. /\ Enter(j, dest[j], s.hash) \in JobSet
        /\ PostsUsed(Enter(j, dest[j], s.hash))
        /\ Enter(j, dest[j], s.hash).phase = PhaseAfter(dest[j])
    BY <1>2, <2>2, <2>3, EnterFits
  <2> QED
    BY <2>1, <2>4
<1>6. ASSUME NEW j \in Jobs, j \in Range(q), j \notin DOMAIN dest
      PROVE  job'[j] \in JobSet /\ PostsUsed(job'[j]) /\ job'[j].phase = "queued"
  <2> DEFINE r == job[j]
             e == [r EXCEPT !.phase = "queued"]
  <2>1. job'[j] = e
    BY <1>1, <1>6
  <2>2. /\ r \in JobSet /\ r.posts \in Nat /\ r.phase # "posted"
        /\ r.posts <= Retries(r) + (IF r.phase = "posted" THEN 1 ELSE 0)
    BY <1>3, <1>4, <1>6 DEF JobSet, PostsUsed
  <2>3. /\ e \in JobSet /\ e.phase = "queued" /\ e.posts = r.posts
        /\ e.retried401 = r.retried401 /\ e.rescraped = r.rescraped
    BY <2>2 DEF JobSet, Phases
  <2>4. PostsUsed(e)
    BY <2>2, <2>3 DEF PostsUsed, Retries
  <2> QED
    BY <2>1, <2>3, <2>4
<1>7. ASSUME NEW j \in Jobs, j \notin Range(q), j \notin DOMAIN dest
      PROVE  job'[j] = job[j]
  BY <1>1, <1>7
<1>8. DOMAIN dest \subseteq Jobs
  BY Destinations
<1>9. DOMAIN job' = Jobs /\ job' = [j \in Jobs |-> job'[j]]
  BY <1>1
<1>10. \A j \in Jobs : job'[j] \in JobSet /\ PostsUsed(job'[j])
  BY <1>4, <1>5, <1>6, <1>7
<1>11. job' \in [Jobs -> JobSet]
  BY <1>9, <1>10
<1> QED
  BY <1>3, <1>5, <1>6, <1>7, <1>8, <1>10, <1>11

\* The slots are those of the jobs that hold one, and no more than there are.
LEMMA SlotsAfter ==
  ASSUME NEW moved, NEW q, NEW s, NEW sp, TurnFrom, TurnReady(moved, q, s, sp),
         NEW n \in 0 .. Len(q), NEW out \in [1 .. n -> Attempt(s)], NEW dest,
         TurnTo(moved, q, s, n, out, dest)
  PROVE  /\ inflight' \in Nat
         /\ JobsHoldSlots'
         /\ n < Len(q) => inflight' = MaxConcurrent
<1> DEFINE ended == {j \in DOMAIN moved : moved[j] \in Over}
           kept == {q[i] : i \in KeptAt(out, n)}
<1>1. Len(q) \in Nat /\ 1 .. n \subseteq 1 .. Len(q) /\ n \in Nat
  BY DEF TurnReady
<1>2. /\ ended \in SUBSET Holders
      /\ IsFiniteSet(Holders)
      /\ inflight = Cardinality(Holders) /\ inflight <= MaxConcurrent /\ inflight \in Nat
      /\ MaxConcurrent \in Nat
  <2>1. Holders \in SUBSET Jobs
    BY DEF Holders
  <2> QED
    BY <2>1, FS_Subset DEF TurnFrom, JobsHoldSlots, TurnReady
<1>3. /\ IsFiniteSet(Holders \ ended)
      /\ Cardinality(ended) \in Nat /\ Cardinality(ended) <= inflight
      /\ Cardinality(Holders \ ended) = inflight - Cardinality(ended)
  BY <1>2, CardinalityMinus
<1>4. Freed(moved) = Cardinality(ended)
  BY DEF Freed
<1>5. /\ IsFiniteSet(KeptAt(out, n)) /\ Cardinality(KeptAt(out, n)) \in Nat
      /\ n = 0 => Cardinality(KeptAt(out, n)) = 0
      /\ n # 0 => Cardinality(KeptAt(out, n)) <= Cardinality(KeptAt(out, n - 1)) + 1
      /\ n # 0 => Cardinality(KeptAt(out, n - 1)) \in Nat
  <2>1. n # 0 => n - 1 \in Nat
    BY <1>1
  <2> QED
    BY <1>1, <2>1, KeptGrows
<1>6. IsFiniteSet(kept) /\ Cardinality(kept) = Cardinality(KeptAt(out, n))
  <2>1. KeptAt(out, n) \subseteq 1 .. Len(q)
    BY <1>1 DEF KeptAt
  <2>2. \A i, k \in KeptAt(out, n) : q[i] = q[k] => i = k
    BY <2>1 DEF TurnReady
  <2> QED
    BY <1>5, <2>2, DistinctJobs
<1>7. (Holders \ ended) \cap kept = {}
  <2>1. \A i \in KeptAt(out, n) : job[q[i]].phase \in {"idle", "queued"}
    BY <1>1 DEF KeptAt, TurnReady
  <2> QED
    BY <2>1 DEF Holders, Holding
<1>8. Holders' = (Holders \ ended) \cup kept
  <2>1. \A j \in Jobs : j \in Holders' <=> job'[j].phase \in Holding
    BY DEF Holders
  <2>2. \A j \in DOMAIN dest : job'[j].phase = PhaseAfter(dest[j]) /\ dest[j] \in Outcomes
    BY JobsAfter, Destinations
  <2>3. \A j \in DOMAIN dest : job'[j].phase \in Holding <=> dest[j] \notin Over
    BY <2>2 DEF PhaseAfter, Outcomes, Over, Holding
  <2>4. DOMAIN dest = DOMAIN moved \cup {q[i] : i \in 1 .. n} /\ DOMAIN dest \subseteq Jobs
    <3>1. DOMAIN dest \subseteq Jobs
      BY Destinations
    <3> QED
      BY <3>1 DEF TurnTo
  <2>5. ASSUME NEW j \in DOMAIN moved
        PROVE  (j \in Holders') <=> (j \in (Holders \ ended) \cup kept)
    <3>1. dest[j] = moved[j] /\ j \in Jobs /\ j \in Holders
      BY <2>4 DEF TurnTo, TurnReady
    <3>2. j \in Holders' <=> j \notin ended
      BY <2>1, <2>3, <2>4, <3>1
    <3>3. j \notin kept
      <4>1. \A i \in KeptAt(out, n) : job[q[i]].phase \in {"idle", "queued"}
        BY <1>1 DEF KeptAt, TurnReady
      <4> QED
        BY <3>1, <4>1 DEF Holders, Holding
    <3> QED
      BY <3>1, <3>2, <3>3
  <2>6. ASSUME NEW i \in 1 .. n
        PROVE  (q[i] \in Holders') <=> (q[i] \in (Holders \ ended) \cup kept)
    <3>1. dest[q[i]] = out[i] /\ q[i] \in DOMAIN dest /\ q[i] \in Jobs
      BY <2>4 DEF TurnTo
    <3>2. job[q[i]].phase \in {"idle", "queued"}
      BY <1>1 DEF TurnReady
    <3>3. q[i] \notin Holders
      BY <3>2 DEF Holders, Holding
    <3>4. q[i] \in kept <=> out[i] \notin Over
      <4>1. ASSUME NEW k \in KeptAt(out, n), q[k] = q[i] PROVE k = i
        BY <1>1, <4>1 DEF KeptAt, TurnReady
      <4> QED
        BY <4>1 DEF KeptAt
    <3> QED
      BY <2>1, <2>3, <3>1, <3>3, <3>4
  <2>7. ASSUME NEW j \in Jobs, j \notin DOMAIN dest
        PROVE  (j \in Holders') <=> (j \in (Holders \ ended) \cup kept)
    <3>1. j \notin ended /\ j \notin kept
      BY <2>4, <2>7 DEF KeptAt
    <3>2. CASE j \in Range(q)
      <4>1. job'[j].phase = "queued"
        BY <2>7, <3>2, JobsAfter
      <4>2. job[j].phase \in {"idle", "queued"}
        BY <3>2 DEF TurnReady, Range
      <4> QED
        BY <2>1, <3>1, <4>1, <4>2 DEF Holders, Holding
    <3>3. CASE j \notin Range(q)
      <4>1. job'[j].phase = job[j].phase
        BY <2>7, <3>3, JobsAfter
      <4> QED
        BY <2>1, <3>1, <4>1 DEF Holders
    <3> QED
      BY <3>2, <3>3
  <2>8. kept \subseteq Jobs /\ Holders \subseteq Jobs /\ Holders' \subseteq Jobs
    BY <2>4 DEF KeptAt, Holders
  <2>9. \A j \in Jobs : (j \in Holders') <=> (j \in (Holders \ ended) \cup kept)
    BY <2>4, <2>5, <2>6, <2>7
  <2> QED
    BY <2>8, <2>9
<1>9. Cardinality(Holders') = inflight - Cardinality(ended) + Cardinality(KeptAt(out, n))
  <2>1. Cardinality((Holders \ ended) \cup kept)
          = Cardinality(Holders \ ended) + Cardinality(kept)
              - Cardinality((Holders \ ended) \cap kept)
    BY <1>3, <1>6, FS_Union
  <2>2. Cardinality((Holders \ ended) \cap kept) = 0
    BY <1>7, FS_EmptySet, Zenon
  <2>3. Cardinality(Holders') = Cardinality((Holders \ ended) \cup kept)
    BY <1>8, Zenon
  <2>4. Cardinality((Holders \ ended) \cup kept)
          = Cardinality(Holders \ ended) + Cardinality(kept)
    BY <1>2, <1>3, <1>5, <1>6, <2>1, <2>2
  <2> QED
    BY <1>2, <1>3, <1>5, <1>6, <2>3, <2>4
<1>10. /\ inflight' = inflight - Cardinality(ended) + Cardinality(KeptAt(out, n))
       /\ \A i \in 1 .. n :
            inflight - Cardinality(ended) + Cardinality(KeptAt(out, i - 1)) < MaxConcurrent
       /\ n < Len(q) =>
            inflight - Cardinality(ended) + Cardinality(KeptAt(out, n)) >= MaxConcurrent
  BY <1>4 DEF TurnTo
<1>11. inflight' \in Nat /\ inflight' <= MaxConcurrent
  <2>1. CASE n = 0
    BY <1>2, <1>3, <1>5, <1>10, <2>1
  <2>2. CASE n # 0
    <3>1. inflight - Cardinality(ended) + Cardinality(KeptAt(out, n - 1)) < MaxConcurrent
      BY <1>1, <1>10, <2>2
    <3> QED
      BY <1>2, <1>3, <1>5, <1>10, <2>2, <3>1
  <2> QED
    BY <2>1, <2>2
<1> QED
  BY <1>2, <1>9, <1>10, <1>11 DEF JobsHoldSlots

\* What is left of the queue waits, all of it and nothing else.
LEMMA QueueAfter ==
  ASSUME NEW moved, NEW q, NEW s, NEW sp, TurnFrom, TurnReady(moved, q, s, sp),
         NEW n \in 0 .. Len(q), NEW out \in [1 .. n -> Attempt(s)], NEW dest,
         TurnTo(moved, q, s, n, out, dest)
  PROVE  queue' \in Seq(Jobs) /\ QueueDistinct' /\ QueueMoves'
<1>1. Len(q) \in Nat /\ n \in Nat /\ \A i \in 1 .. Len(q) : q[i] \in Jobs
  BY DEF TurnReady
<1>2. /\ queue' \in Seq(Jobs)
      /\ Len(queue') = Len(q) - n
      /\ \A i \in 1 .. Len(q) - n : queue'[i] = q[n + i]
  <2>1. queue' = SubSeq(q, n + 1, Len(q))
    BY DEF TurnTo
  <2>2. \A i \in n + 1 .. Len(q) : q[i] \in Jobs
    BY <1>1
  <2>3. /\ SubSeq(q, n + 1, Len(q)) \in Seq(Jobs)
        /\ Len(SubSeq(q, n + 1, Len(q))) =
             IF n + 1 <= Len(q) THEN Len(q) - (n + 1) + 1 ELSE 0
        /\ \A i \in 1 .. Len(q) - (n + 1) + 1 :
             SubSeq(q, n + 1, Len(q))[i] = q[n + 1 + i - 1]
    BY <1>1, <2>2, SubSeqProperties
  <2> QED
    BY <1>1, <2>1, <2>3
<1>3. QueueDistinct'
  <2> SUFFICES ASSUME NEW i \in 1 .. Len(queue'), NEW k \in 1 .. Len(queue'),
                      queue'[i] = queue'[k]
               PROVE  i = k
    BY DEF QueueDistinct
  <2>1. n + i \in 1 .. Len(q) /\ n + k \in 1 .. Len(q) /\ q[n + i] = q[n + k]
    BY <1>1, <1>2
  <2>2. n + i = n + k
    BY <2>1 DEF TurnReady
  <2> QED
    BY <1>1, <2>2
<1>4. Range(queue') = In("queued")'
  <2> DEFINE begun == {q[i] : i \in 1 .. n}
             left == {q[i] : i \in n + 1 .. Len(q)}
  <2>1. Range(queue') = left
    <3>1. Range(queue') = {queue'[i] : i \in 1 .. Len(q) - n}
      BY <1>2 DEF Range
    <3>2. \A i \in 1 .. Len(q) - n : n + i \in n + 1 .. Len(q)
      BY <1>1
    <3>3. \A i \in n + 1 .. Len(q) : i - n \in 1 .. Len(q) - n /\ n + (i - n) = i
      BY <1>1
    <3>4. \A i \in 1 .. Len(q) - n : queue'[i] \in left
      BY <1>2, <3>2
    <3>5. \A i \in n + 1 .. Len(q) : queue'[i - n] = q[i]
      BY <1>2, <3>3
    <3> QED
      BY <3>1, <3>3, <3>4, <3>5
  <2>2. Range(q) = begun \cup left
    <3>1. Range(q) = {q[i] : i \in 1 .. Len(q)}
      BY DEF TurnReady, Range
    <3>2. 1 .. Len(q) = 1 .. n \cup (n + 1 .. Len(q))
      BY <1>1
    <3> QED
      BY <3>1, <3>2
  <2>3. DOMAIN dest = DOMAIN moved \cup begun
    BY DEF TurnTo
  <2>4. left \cap DOMAIN dest = {}
    <3>1. ASSUME NEW i \in n + 1 .. Len(q) PROVE q[i] \notin DOMAIN dest
      <4>1. i \in 1 .. Len(q) /\ \A k \in 1 .. n : k \in 1 .. Len(q) /\ k # i
        BY <1>1
      <4>2. q[i] \notin begun
        BY <4>1 DEF TurnReady
      <4>3. q[i] \notin DOMAIN moved
        BY <4>1 DEF TurnReady, Holders, Holding
      <4> QED
        BY <2>3, <4>2, <4>3
    <3> QED
      BY <3>1
  <2>5. /\ \A j \in DOMAIN dest : job'[j].phase = PhaseAfter(dest[j]) /\ dest[j] \in Outcomes
        /\ \A j \in Range(q) \ DOMAIN dest : job'[j].phase = "queued"
        /\ \A j \in Jobs \ (Range(q) \cup DOMAIN dest) : job'[j].phase = job[j].phase
    BY JobsAfter, Destinations
  <2>6. \A j \in DOMAIN dest : job'[j].phase # "queued"
    BY <2>5 DEF PhaseAfter, Outcomes, Over
  <2>7. \A j \in left : j \in Jobs /\ job'[j].phase = "queued"
    BY <1>1, <2>2, <2>4, <2>5
  <2>8. \A j \in Jobs : job'[j].phase = "queued" => j \in left
    <3> SUFFICES ASSUME NEW j \in Jobs, job'[j].phase = "queued", j \notin left PROVE FALSE
      OBVIOUS
    <3>1. j \notin DOMAIN dest
      BY <2>6
    <3>2. j \notin Range(q)
      BY <2>2, <2>3, <3>1
    <3>3. job[j].phase = "queued"
      BY <2>5, <3>1, <3>2
    <3>4. j \in In("queued")
      BY <3>3 DEF In
    <3> QED
      BY <3>2, <3>4 DEF TurnReady
  <2> QED
    BY <2>1, <2>7, <2>8 DEF In
<1>5. queue' # <<>> => inflight' = MaxConcurrent
  <2>1. queue' # <<>> => Len(queue') # 0
    BY <1>2, EmptySeq
  <2>2. queue' # <<>> => n < Len(q)
    BY <1>1, <1>2, <2>1
  <2> QED
    BY <2>2, SlotsAfter
<1> QED
  BY <1>2, <1>3, <1>4, <1>5 DEF QueueMoves

\* The store's scrape is the one of the waiters, and it kept the cooldown.
LEMMA ScrapeAfter ==
  ASSUME NEW moved, NEW q, NEW s, NEW sp \in Ages, TurnFrom, TurnReady(moved, q, s, sp),
         NEW n \in 0 .. Len(q), NEW out \in [1 .. n -> Attempt(s)], NEW dest,
         TurnTo(moved, q, s, n, out, dest)
  PROVE  store' \in StoreSet /\ WaitersServed' /\ Anchored(store', sp)
<1> DEFINE outs == Range(dest)
<1>1. /\ outs \in SUBSET Outcomes
      /\ outs \cap {"scrape", "rescrape"} # {} => ScrapeAllowed(s)
  BY Destinations DEF Range
<1>2. store' = After(s, outs)
  BY DEF TurnTo
<1>3. s \in StoreSet /\ Anchored(s, sp) /\ (s.scraping <=> Waiters \ DOMAIN moved # {})
  BY DEF TurnReady
<1>4. /\ After(s, outs) \in StoreSet
      /\ After(s, outs).scraping <=> s.scraping \/ outs \cap {"scrape", "rescrape"} # {}
      /\ Anchored(After(s, outs), sp)
  BY <1>1, <1>3, AfterStore
<1>5. Waiters' # {} <=> Waiters \ DOMAIN moved # {} \/ outs \cap {"scrape", "rescrape"} # {}
  <2>1. \A j \in Jobs : j \in Waiters' <=> job'[j].phase \in {"scrape", "rescrape"}
    BY DEF Waiters, In
  <2>2. \A j \in Jobs : j \in Waiters <=> job[j].phase \in {"scrape", "rescrape"}
    BY DEF Waiters, In
  <2>3. Waiters \subseteq Jobs /\ Waiters' \subseteq Jobs
    BY DEF Waiters, In
  <2>4. DOMAIN dest \subseteq Jobs
    BY Destinations
  <2>5. /\ \A j \in DOMAIN dest : job'[j].phase = PhaseAfter(dest[j]) /\ dest[j] \in Outcomes
        /\ \A j \in Range(q) \ DOMAIN dest : job'[j].phase = "queued"
        /\ \A j \in Jobs \ (Range(q) \cup DOMAIN dest) : job'[j].phase = job[j].phase
    BY JobsAfter, Destinations
  <2>6. \A j \in DOMAIN dest : j \in Waiters' <=> dest[j] \in {"scrape", "rescrape"}
    BY <2>1, <2>4, <2>5 DEF PhaseAfter, Outcomes, Over
  <2>7. \A j \in Range(q) : j \in Jobs /\ j \notin Waiters
    <3>1. \A i \in 1 .. Len(q) : q[i] \in Jobs /\ job[q[i]].phase \in {"idle", "queued"}
      BY DEF TurnReady
    <3>2. Range(q) = {q[i] : i \in 1 .. Len(q)}
      BY DEF TurnReady, Range
    <3> QED
      BY <2>2, <3>1, <3>2
  <2>8. DOMAIN dest \subseteq DOMAIN moved \cup Range(q) /\ DOMAIN moved \subseteq DOMAIN dest
    <3>1. DOMAIN dest = DOMAIN moved \cup {q[i] : i \in 1 .. n}
      BY DEF TurnTo
    <3>2. 1 .. n \subseteq 1 .. Len(q) /\ Range(q) = {q[i] : i \in 1 .. Len(q)}
      BY DEF TurnReady, Range
    <3> QED
      BY <3>1, <3>2
  <2>9. \A j \in Jobs \ DOMAIN dest : j \in Waiters' <=> j \in Waiters
    BY <2>1, <2>2, <2>5, <2>7
  <2>10. \A j \in Jobs \ DOMAIN dest : j \in Waiters => j \in Waiters \ DOMAIN moved
    BY <2>8
  <2>11. \A j \in Waiters \ DOMAIN moved : j \in Jobs \ DOMAIN dest
    BY <2>3, <2>7, <2>8
  <2>12. outs \cap {"scrape", "rescrape"} # {}
           <=> \E j \in DOMAIN dest : dest[j] \in {"scrape", "rescrape"}
    BY DEF Range
  <2>13. CASE Waiters' # {}
    BY <2>3, <2>6, <2>9, <2>10, <2>12, <2>13
  <2>14. CASE \E j \in DOMAIN dest : dest[j] \in {"scrape", "rescrape"}
    BY <2>6, <2>12, <2>14
  <2>15. CASE Waiters \ DOMAIN moved # {}
    BY <2>9, <2>11, <2>15
  <2> QED
    BY <2>12, <2>13, <2>14, <2>15
<1> QED
  BY <1>2, <1>3, <1>4, <1>5 DEF WaitersServed

\* A turn that a handler was ready for keeps everything the invariant says.
LEMMA TurnSafe ==
  ASSUME NEW moved, NEW q, NEW s, NEW sp \in Ages, TurnFrom, TurnReady(moved, q, s, sp),
         Turn(moved, q, s)
  PROVE  TurnDone(sp)
<1>1. PICK n \in 0 .. Len(q) : \E out \in [1 .. n -> Attempt(s)] : \E dest :
        TurnTo(moved, q, s, n, out, dest)
  BY TurnIsTurnTo
<1>2. PICK out \in [1 .. n -> Attempt(s)] : \E dest : TurnTo(moved, q, s, n, out, dest)
  BY <1>1
<1>3. PICK dest : TurnTo(moved, q, s, n, out, dest)
  BY <1>2
<1>4. job' \in [Jobs -> JobSet] /\ \A j \in Jobs : PostsUsed(job'[j])
  BY <1>3, JobsAfter
<1>5. inflight' \in Nat /\ JobsHoldSlots'
  BY <1>3, SlotsAfter
<1>6. queue' \in Seq(Jobs) /\ QueueDistinct' /\ QueueMoves'
  BY <1>3, QueueAfter
<1>7. store' \in StoreSet /\ WaitersServed' /\ Anchored(store', sp)
  BY <1>3, ScrapeAfter
<1> QED
  BY <1>4, <1>5, <1>6, <1>7 DEF TurnDone

-----------------------------------------------------------------------------
(* The handlers.                                                           *)

LEMMA TypeParts ==
  /\ TypeOK <=> /\ queue \in Seq(Jobs) /\ inflight \in Nat
                /\ job \in [Jobs -> JobSet] /\ store \in StoreSet
                /\ version \in 1 .. MaxVersion /\ spent \in Ages
                /\ scraped \in 0 .. MaxVersion
  /\ TypeOK' <=> /\ queue' \in Seq(Jobs) /\ inflight' \in Nat
                 /\ job' \in [Jobs -> JobSet] /\ store' \in StoreSet
                 /\ version' \in 1 .. MaxVersion /\ spent' \in Ages
                 /\ scraped' \in 0 .. MaxVersion
BY DEF TypeOK, JobSet, StoreSet, Phases

\* The invariant follows from what a turn does.
LEMMA InvAfterTurn ==
  ASSUME TurnDone(spent'), version' \in 1 .. MaxVersion, spent' \in Ages,
         scraped' \in 0 .. MaxVersion
  PROVE  IInv'
<1>1. TypeOK'
  BY TypeParts DEF TurnDone
<1> QED
  BY <1>1 DEF TurnDone, IInv

\* A handler that moves jobs no scrape is answering is ready for its turn, if it
\* leaves the scrape alone.
LEMMA HandlerReady ==
  ASSUME IInv, NEW moved, NEW s \in StoreSet,
         s.scraping = store.scraping, s.last = store.last, s.prior = store.prior,
         DOMAIN moved \subseteq Holders \ Waiters,
         \A j \in DOMAIN moved :
           /\ moved[j] \in Outcomes /\ Fits(j, moved[j])
           /\ moved[j] \in {"scrape", "rescrape"} => ScrapeAllowed(s)
  PROVE  TurnFrom /\ TurnReady(moved, queue, s, spent)
<1>1. /\ queue \in Seq(Jobs) /\ inflight \in Nat
      /\ job \in [Jobs -> JobSet] /\ store \in StoreSet
  BY TypeParts DEF IInv
<1>2. Range(queue) = In("queued") /\ Range(queue) = {queue[i] : i \in 1 .. Len(queue)}
  BY <1>1 DEF IInv, QueueMoves, Range
<1>3. \A i \in 1 .. Len(queue) : job[queue[i]].phase \in {"idle", "queued"}
  BY <1>2 DEF In
<1>4. Waiters \ DOMAIN moved = Waiters
  OBVIOUS
<1>5. s.scraping <=> Waiters \ DOMAIN moved # {}
  BY <1>4 DEF IInv, WaitersServed
<1>6. Anchored(s, spent)
  BY DEF IInv, Anchored
<1> QED
  BY <1>1, <1>2, <1>3, <1>5, <1>6 DEF TurnFrom, TurnReady, IInv, QueueDistinct

\* An answer to the request of one job.
LEMMA AnswerSafe ==
  ASSUME IInv, NEW j \in Jobs, job[j].phase = "posted", NEW out \in Outcomes, Fits(j, out),
         NEW s \in StoreSet,
         s.scraping = store.scraping, s.last = store.last, s.prior = store.prior,
         out \in {"scrape", "rescrape"} => ScrapeAllowed(s),
         Turn([i \in {j} |-> out], queue, s),
         version' = version, spent' = spent, scraped' \in 0 .. MaxVersion
  PROVE  IInv'
<1> DEFINE moved == [i \in {j} |-> out]
<1>1. DOMAIN moved \subseteq Holders \ Waiters
  BY DEF Holders, Waiters, In, Holding
<1>2. \A i \in DOMAIN moved :
        /\ moved[i] \in Outcomes /\ Fits(i, moved[i])
        /\ moved[i] \in {"scrape", "rescrape"} => ScrapeAllowed(s)
  OBVIOUS
<1> HIDE DEF moved
<1>3. TurnFrom /\ TurnReady(moved, queue, s, spent)
  BY <1>1, <1>2, HandlerReady
<1>4. version \in 1 .. MaxVersion /\ spent \in Ages
  BY TypeParts DEF IInv
<1>5. Turn(moved, queue, s)
  BY DEF moved
<1>6. TurnDone(spent)
  BY <1>3, <1>4, <1>5, TurnSafe
<1> QED
  BY <1>4, <1>6, InvAfterTurn

LEMMA HttpStep ==
  ASSUME IInv, NEW j \in Jobs, HttpOk(j) \/ Http429(j) \/ HttpError(j) \/ Http401(j)
  PROVE  IInv'
<1>1. /\ job[j].phase = "posted" /\ store \in StoreSet
      /\ version' = version /\ spent' = spent /\ scraped' \in 0 .. MaxVersion
  BY TypeParts DEF IInv, HttpOk, Http429, HttpError, Http401
<1>2. "over" \in Outcomes /\ Fits(j, "over") /\ "remint" \in Outcomes
  BY DEF Outcomes, Over, Fits
<1>3. CASE HttpOk(j)
  <2> DEFINE s == [store EXCEPT !.healed = TRUE, !.broken = FALSE, !.missing = FALSE]
  <2>1. /\ s \in StoreSet
        /\ s.scraping = store.scraping /\ s.last = store.last /\ s.prior = store.prior
    BY <1>1 DEF StoreSet
  <2>2. Turn([i \in {j} |-> "over"], queue, s)
    BY <1>3 DEF HttpOk, Ends
  <2> HIDE DEF s
  <2> QED
    BY <1>1, <1>2, <2>1, <2>2, AnswerSafe
<1>4. CASE Http429(j)
  <2> DEFINE s == [store EXCEPT !.limited = TRUE]
  <2>1. /\ s \in StoreSet
        /\ s.scraping = store.scraping /\ s.last = store.last /\ s.prior = store.prior
    BY <1>1 DEF StoreSet
  <2>2. Turn([i \in {j} |-> "over"], queue, s)
    BY <1>4 DEF Http429, Ends
  <2> HIDE DEF s
  <2> QED
    BY <1>1, <1>2, <2>1, <2>2, AnswerSafe
<1>5. ASSUME Turn(Ends(j), queue, store) PROVE IInv'
  <2>1. Turn([i \in {j} |-> "over"], queue, store)
    BY <1>5 DEF Ends
  <2> QED
    BY <1>1, <1>2, <2>1, AnswerSafe
<1>6. ASSUME ~job[j].retried401, Turn([i \in {j} |-> "remint"], queue, store) PROVE IInv'
  <2>1. Fits(j, "remint")
    BY <1>1, <1>6 DEF Fits
  <2> QED
    BY <1>1, <1>2, <1>6, <2>1, AnswerSafe
<1> QED
  BY <1>3, <1>4, <1>5, <1>6 DEF HttpError, Http401

LEMMA OnHashRejectedStep ==
  ASSUME IInv, NEW j \in Jobs, OnHashRejected(j)
  PROVE  IInv'
<1> DEFINE s == [store EXCEPT !.hash = 0]
<1>1. /\ job[j].phase = "posted" /\ store \in StoreSet
      /\ version' = version /\ spent' = spent /\ scraped \in 0 .. MaxVersion
  BY TypeParts DEF IInv, OnHashRejected
<1>2. "over" \in Outcomes /\ Fits(j, "over") /\ "rescrape" \in Outcomes
  BY DEF Outcomes, Over, Fits
<1>3. 0 \in 0 .. MaxVersion
  OBVIOUS
<1>4. scraped' \in 0 .. MaxVersion
  BY <1>1, <1>3 DEF OnHashRejected
<1>5. /\ s \in StoreSet
      /\ s.scraping = store.scraping /\ s.last = store.last /\ s.prior = store.prior
  BY <1>1, <1>3 DEF StoreSet
<1>6. \/ Turn(Ends(j), queue, [s EXCEPT !.broken = TRUE, !.healed = FALSE])
      \/ Turn(Ends(j), queue, [s EXCEPT !.broken = TRUE])
      \/ /\ ~job[j].rescraped
         /\ ScrapeAllowed(s)
         /\ Turn([i \in {j} |-> "rescrape"], queue, s)
  BY DEF OnHashRejected
<1> HIDE DEF s
<1>7. CASE Turn(Ends(j), queue, [s EXCEPT !.broken = TRUE, !.healed = FALSE])
  <2> DEFINE t == [s EXCEPT !.broken = TRUE, !.healed = FALSE]
  <2>1. /\ t \in StoreSet
        /\ t.scraping = store.scraping /\ t.last = store.last /\ t.prior = store.prior
    BY <1>5 DEF StoreSet
  <2>2. Turn([i \in {j} |-> "over"], queue, t)
    BY <1>7 DEF Ends
  <2> HIDE DEF t
  <2> QED
    BY <1>1, <1>2, <1>4, <2>1, <2>2, AnswerSafe
<1>8. CASE Turn(Ends(j), queue, [s EXCEPT !.broken = TRUE])
  <2> DEFINE t == [s EXCEPT !.broken = TRUE]
  <2>1. /\ t \in StoreSet
        /\ t.scraping = store.scraping /\ t.last = store.last /\ t.prior = store.prior
    BY <1>5 DEF StoreSet
  <2>2. Turn([i \in {j} |-> "over"], queue, t)
    BY <1>8 DEF Ends
  <2> HIDE DEF t
  <2> QED
    BY <1>1, <1>2, <1>4, <2>1, <2>2, AnswerSafe
<1>9. CASE ~job[j].rescraped /\ ScrapeAllowed(s) /\ Turn([i \in {j} |-> "rescrape"], queue, s)
  <2>1. Fits(j, "rescrape")
    BY <1>1, <1>9 DEF Fits
  <2> QED
    BY <1>1, <1>2, <1>4, <1>5, <1>9, <2>1, AnswerSafe
<1> QED
  BY <1>6, <1>7, <1>8, <1>9

LEMMA QueryStep ==
  ASSUME IInv, NEW j \in Jobs, Query(j)
  PROVE  IInv'
<1> DEFINE q == Append(queue, j)
<1>1. /\ queue \in Seq(Jobs) /\ inflight \in Nat
      /\ job \in [Jobs -> JobSet] /\ store \in StoreSet
      /\ version \in 1 .. MaxVersion /\ spent \in Ages /\ scraped \in 0 .. MaxVersion
  BY TypeParts DEF IInv
<1>2. /\ job[j].phase = "idle" /\ Turn(<<>>, q, store)
      /\ version' = version /\ spent' = spent /\ scraped' = scraped
  BY DEF Query
<1>3. Range(queue) = In("queued") /\ Range(queue) = {queue[i] : i \in 1 .. Len(queue)}
  BY <1>1 DEF IInv, QueueMoves, Range
<1>4. /\ q \in Seq(Jobs)
      /\ Len(q) = Len(queue) + 1 /\ Len(queue) \in Nat
      /\ \A i \in 1 .. Len(queue) : q[i] = queue[i]
      /\ q[Len(queue) + 1] = j
  BY <1>1, AppendProperties
<1> HIDE DEF q
<1>5. \A i \in 1 .. Len(queue) : job[queue[i]].phase = "queued" /\ queue[i] # j
  BY <1>2, <1>3 DEF In
<1>6. \A i \in 1 .. Len(q) : job[q[i]].phase \in {"idle", "queued"}
  BY <1>2, <1>4, <1>5
<1>7. \A i, k \in 1 .. Len(q) : q[i] = q[k] => i = k
  <2> SUFFICES ASSUME NEW i \in 1 .. Len(q), NEW k \in 1 .. Len(q), q[i] = q[k]
               PROVE  i = k
    OBVIOUS
  <2>1. CASE i \in 1 .. Len(queue) /\ k \in 1 .. Len(queue)
    BY <1>4, <2>1 DEF IInv, QueueDistinct
  <2>2. CASE i = Len(queue) + 1 \/ k = Len(queue) + 1
    BY <1>4, <1>5, <2>2
  <2> QED
    BY <1>4, <2>1, <2>2
<1>8. In("queued") \subseteq Range(q)
  <2>1. Range(q) = {q[i] : i \in 1 .. Len(q)}
    BY <1>4 DEF Range
  <2>2. \A i \in 1 .. Len(queue) : i \in 1 .. Len(q) /\ queue[i] = q[i]
    BY <1>4
  <2> QED
    BY <1>3, <2>1, <2>2
<1>9. DOMAIN <<>> = {}
  OBVIOUS
<1>10. store.scraping <=> Waiters \ DOMAIN <<>> # {}
  BY <1>9 DEF IInv, WaitersServed
<1>11. TurnFrom /\ TurnReady(<<>>, q, store, spent)
  BY <1>1, <1>4, <1>6, <1>7, <1>8, <1>9, <1>10 DEF IInv, TurnFrom, TurnReady
<1>12. TurnDone(spent)
  BY <1>1, <1>2, <1>11, TurnSafe
<1> QED
  BY <1>1, <1>2, <1>12, InvAfterTurn

LEMMA TokenAnswerStep ==
  ASSUME IInv, NEW S \in SUBSET Jobs, TokenAnswer(S)
  PROVE  IInv'
<1>1. /\ store \in StoreSet /\ version \in 1 .. MaxVersion
      /\ spent \in Ages /\ scraped \in 0 .. MaxVersion
      /\ version' = version /\ spent' = spent /\ scraped' = scraped
  BY TypeParts DEF IInv, TokenAnswer
<1>2. PICK out \in {"over", WithHash(store)} : Turn([j \in S |-> out], queue, store)
  BY DEF TokenAnswer
<1> DEFINE moved == [j \in S |-> out]
<1>3. /\ out \in {"over", "refused", "posted", "scrape"}
      /\ out = "scrape" => ScrapeAllowed(store)
  BY <1>1 DEF WithHash, StoreSet
<1>4. \A j \in S : job[j].phase = "token"
  BY DEF TokenAnswer, In
<1>5. DOMAIN moved \subseteq Holders \ Waiters
  BY <1>4 DEF Holders, Holding, Waiters, In
<1>6. \A j \in DOMAIN moved :
        /\ moved[j] \in Outcomes /\ Fits(j, moved[j])
        /\ moved[j] \in {"scrape", "rescrape"} => ScrapeAllowed(store)
  BY <1>3, <1>4 DEF Outcomes, Over, Fits
<1> HIDE DEF moved
<1>7. TurnFrom /\ TurnReady(moved, queue, store, spent)
  BY <1>1, <1>5, <1>6, HandlerReady
<1>8. Turn(moved, queue, store)
  BY <1>2 DEF moved
<1>9. TurnDone(spent)
  BY <1>1, <1>7, <1>8, TurnSafe
<1> QED
  BY <1>1, <1>9, InvAfterTurn

\* The turn that ends a scrape answers every waiter.
LEMMA WaitersReady ==
  ASSUME IInv, NEW moved, DOMAIN moved = Waiters, NEW s \in StoreSet, NEW sp,
         \A j \in Waiters :
           /\ moved[j] \in Over \cup {"token", "posted", "scrape"}
           /\ moved[j] = "scrape" => ScrapeAllowed(s),
         ~s.scraping, s.last = sp
  PROVE  TurnFrom /\ TurnReady(moved, queue, s, sp)
<1>1. queue \in Seq(Jobs) /\ inflight \in Nat /\ job \in [Jobs -> JobSet]
  BY TypeParts DEF IInv
<1>2. \A j \in Waiters : job[j].phase \in {"scrape", "rescrape"} /\ j \in Jobs
  BY DEF Waiters, In
<1>3. DOMAIN moved \subseteq Holders
  BY <1>2 DEF Holders, Holding
<1>4. \A j \in DOMAIN moved :
        /\ moved[j] \in Outcomes /\ Fits(j, moved[j])
        /\ moved[j] \in {"scrape", "rescrape"} => ScrapeAllowed(s)
  BY <1>2 DEF Outcomes, Over, Fits
<1>5. Range(queue) = In("queued") /\ Range(queue) = {queue[i] : i \in 1 .. Len(queue)}
  BY <1>1 DEF IInv, QueueMoves, Range
<1>6. \A i \in 1 .. Len(queue) : job[queue[i]].phase \in {"idle", "queued"}
  BY <1>5 DEF In
<1>7. s.scraping <=> Waiters \ DOMAIN moved # {}
  OBVIOUS
<1>8. Anchored(s, sp)
  BY DEF Anchored
<1> QED
  BY <1>1, <1>3, <1>4, <1>5, <1>6, <1>7, <1>8 DEF IInv, TurnFrom, TurnReady, QueueDistinct

LEMMA ScrapeEndsStep ==
  ASSUME IInv, NEW result \in {"page", "nothing", "undeclared", "found"}, ScrapeEnds(result)
  PROVE  IInv'
<1> DEFINE s == [store EXCEPT !.scraping = FALSE,
                              !.last = Anchor(result),
                              !.hash = IF result = "found" THEN version ELSE store.hash]
<1>1. /\ store \in StoreSet /\ version \in 1 .. MaxVersion
      /\ spent \in Ages /\ scraped \in 0 .. MaxVersion
      /\ version' = version /\ store.scraping = TRUE
  BY TypeParts DEF IInv, ScrapeEnds, StoreSet
<1>2. 0 \in 0 .. MaxVersion /\ version \in 0 .. MaxVersion
  BY <1>1
<1>3. scraped' \in 0 .. MaxVersion
  BY <1>1, <1>2 DEF ScrapeEnds
<1>4. spent' \in Ages
  BY <1>1 DEF ScrapeEnds, StoreSet
<1>5. Anchor(result) = spent' /\ Anchor(result) \in Ages
  BY <1>1, <1>4 DEF Anchor, ScrapeEnds, IInv, Anchored
<1>6. s \in StoreSet /\ s.scraping = FALSE /\ s.last = spent'
  BY <1>1, <1>2, <1>5 DEF StoreSet
<1>7. \/ /\ s.hash # 0
         /\ \E again \in [In("rescrape") -> Attempt(s)] :
              Turn([j \in Waiters |-> IF j \in In("scrape") THEN "posted" ELSE again[j]],
                   queue, [s EXCEPT !.missing = s.missing /\ In("scrape") = {}])
      \/ Turn([j \in Waiters |-> "over"], queue, [s EXCEPT !.missing = TRUE, !.healed = FALSE])
      \/ Turn([j \in Waiters |-> "over"], queue, [s EXCEPT !.broken = TRUE])
  BY <1>1, <1>6 DEF ScrapeEnds, StoreSet
<1> HIDE DEF s
<1>8. ASSUME NEW again \in [In("rescrape") -> Attempt(s)],
             Turn([j \in Waiters |-> IF j \in In("scrape") THEN "posted" ELSE again[j]],
                  queue, [s EXCEPT !.missing = s.missing /\ In("scrape") = {}])
      PROVE  IInv'
  <2> DEFINE moved == [j \in Waiters |-> IF j \in In("scrape") THEN "posted" ELSE again[j]]
             t == [s EXCEPT !.missing = s.missing /\ In("scrape") = {}]
  <2>1. /\ t \in StoreSet /\ ~t.scraping /\ t.last = spent'
        /\ t.healed = s.healed /\ t.last = s.last /\ t.scraping = s.scraping
    BY <1>6 DEF StoreSet
  <2>2. ScrapeAllowed(s) => ScrapeAllowed(t)
    BY <2>1 DEF ScrapeAllowed
  <2>3. \A j \in Waiters :
          /\ moved[j] \in Over \cup {"token", "posted", "scrape"}
          /\ moved[j] = "scrape" => ScrapeAllowed(t)
    <3>1. \A j \in In("rescrape") :
            /\ again[j] \in Over \cup {"token", "posted", "scrape"}
            /\ again[j] = "scrape" => ScrapeAllowed(s)
      BY <1>6, AttemptOutcomes
    <3> QED
      BY <2>2, <3>1 DEF Waiters
  <2>4. DOMAIN moved = Waiters /\ Turn(moved, queue, t)
    BY <1>8
  <2> HIDE DEF moved, t
  <2>5. TurnFrom /\ TurnReady(moved, queue, t, spent')
    BY <2>1, <2>3, <2>4, WaitersReady
  <2>6. TurnDone(spent')
    BY <1>4, <2>4, <2>5, TurnSafe
  <2> QED
    BY <1>1, <1>3, <1>4, <2>6, InvAfterTurn
<1>9. ASSUME NEW t \in StoreSet, ~t.scraping, t.last = spent',
             Turn([j \in Waiters |-> "over"], queue, t)
      PROVE  IInv'
  <2> DEFINE moved == [j \in Waiters |-> "over"]
  <2>1. DOMAIN moved = Waiters /\ \A j \in Waiters : moved[j] = "over"
    OBVIOUS
  <2>2. Turn(moved, queue, t)
    BY <1>9
  <2> HIDE DEF moved
  <2>3. TurnFrom /\ TurnReady(moved, queue, t, spent')
    BY <1>9, <2>1, WaitersReady DEF Over
  <2>4. TurnDone(spent')
    BY <1>4, <2>2, <2>3, TurnSafe
  <2> QED
    BY <1>1, <1>3, <1>4, <2>4, InvAfterTurn
<1>10. CASE Turn([j \in Waiters |-> "over"], queue,
                 [s EXCEPT !.missing = TRUE, !.healed = FALSE])
  <2> DEFINE t == [s EXCEPT !.missing = TRUE, !.healed = FALSE]
  <2>1. t \in StoreSet /\ ~t.scraping /\ t.last = spent'
    BY <1>6 DEF StoreSet
  <2>2. Turn([j \in Waiters |-> "over"], queue, t)
    BY <1>10
  <2> HIDE DEF t
  <2> QED
    BY <1>9, <2>1, <2>2
<1>11. CASE Turn([j \in Waiters |-> "over"], queue, [s EXCEPT !.broken = TRUE])
  <2> DEFINE t == [s EXCEPT !.broken = TRUE]
  <2>1. t \in StoreSet /\ ~t.scraping /\ t.last = spent'
    BY <1>6 DEF StoreSet
  <2>2. Turn([j \in Waiters |-> "over"], queue, t)
    BY <1>11
  <2> HIDE DEF t
  <2> QED
    BY <1>9, <2>1, <2>2
<1> QED
  BY <1>7, <1>8, <1>10, <1>11

\* Time, Spotify and stuttering touch no job.
LEMMA WorldStep ==
  ASSUME IInv, Tick \/ RateLapses \/ HashExpires \/ Rotate \/ UNCHANGED vars
  PROVE  IInv'
<1>1. TypeOK
  BY DEF IInv
<1>2. queue' = queue /\ inflight' = inflight /\ job' = job /\ scraped' = scraped
  BY DEF Tick, RateLapses, HashExpires, Rotate, vars
<1>3. store \in StoreSet /\ spent \in Ages /\ version \in 1 .. MaxVersion
  BY <1>1, TypeParts
<1>4. /\ store' \in StoreSet /\ store'.scraping = store.scraping
      /\ spent' \in Ages /\ Anchored(store', spent')
  <2>1. \A a \in Ages : Older(a) \in Ages /\ Older(a) >= a
    BY DEF Older, Ages
  <2>2. CASE Tick
    <3>1. /\ store' = [store EXCEPT !.last = Older(store.last), !.prior = Older(store.prior)]
          /\ spent' = Older(spent)
      BY <2>2 DEF Tick
    <3>2. store.last \in Ages /\ store.prior \in Ages
      BY <1>3 DEF StoreSet
    <3>3. Older(store.last) \in Ages /\ Older(store.prior) \in Ages /\ spent' \in Ages
      BY <1>3, <2>1, <3>1, <3>2
    <3>4. /\ store' \in StoreSet /\ store'.scraping = store.scraping
          /\ store'.last = Older(store.last) /\ store'.prior = Older(store.prior)
      BY <1>3, <3>1, <3>3 DEF StoreSet
    <3>5. spent' >= spent
      BY <1>3, <2>1, <3>1
    <3>6. spent >= Cooldown => spent' >= Cooldown
      BY <1>3, <3>3, <3>5 DEF Ages
    <3> QED
      BY <3>1, <3>3, <3>4, <3>6 DEF IInv, Anchored
  <2>3. CASE RateLapses
    BY <1>3, <2>3 DEF RateLapses, StoreSet, IInv, Anchored
  <2>4. CASE HashExpires
    <3>1. 0 \in 0 .. MaxVersion
      OBVIOUS
    <3> QED
      BY <1>3, <2>4, <3>1 DEF HashExpires, StoreSet, IInv, Anchored
  <2>5. CASE Rotate \/ UNCHANGED vars
    BY <1>3, <2>5 DEF Rotate, vars, IInv
  <2> QED
    BY <2>2, <2>3, <2>4, <2>5
<1>5. version' \in 1 .. MaxVersion
  BY <1>3 DEF Tick, RateLapses, HashExpires, Rotate, vars
<1>6. TypeOK'
  BY <1>1, <1>2, <1>4, <1>5, TypeParts
<1>7. Holders' = Holders /\ Waiters' = Waiters /\ In("queued")' = In("queued")
  BY <1>2 DEF Holders, Waiters, In
<1>8. JobsHoldSlots' /\ QueueMoves' /\ QueueDistinct' /\ WaitersServed'
  <2>1. Cardinality(Holders') = Cardinality(Holders)
    BY <1>7, Zenon
  <2> QED
    BY <1>2, <1>4, <1>7, <2>1
      DEF IInv, JobsHoldSlots, QueueMoves, QueueDistinct, WaitersServed
<1>9. \A j \in Jobs : PostsUsed(job'[j])
  BY <1>2 DEF IInv
<1> QED
  BY <1>4, <1>6, <1>8, <1>9 DEF IInv

-----------------------------------------------------------------------------
(* The theorems.                                                           *)

LEMMA InitIInv == Init => IInv
<1> SUFFICES ASSUME Init PROVE IInv
  OBVIOUS
<1>1. /\ queue = <<>> /\ inflight = 0 /\ job = [j \in Jobs |-> NewJob]
      /\ version = 1 /\ spent = BrokenRetry /\ scraped = 0
  BY DEF Init
<1>2. PICK h \in {0, 1} :
        store = [hash |-> h, limited |-> FALSE, scraping |-> FALSE, last |-> BrokenRetry,
                 prior |-> BrokenRetry, healed |-> TRUE, broken |-> FALSE, missing |-> FALSE]
  BY DEF Init
<1>3. /\ 0 \in 0 .. MaxVersion /\ 1 \in 0 .. MaxVersion /\ 1 \in 1 .. MaxVersion
      /\ BrokenRetry \in Ages
  BY DEF Ages
<1>4. NewJob \in JobSet /\ NewJob.phase = "idle" /\ PostsUsed(NewJob)
  BY <1>3 DEF NewJob, JobSet, Phases, PostsUsed, Retries
<1>5. store \in StoreSet /\ store.scraping = FALSE /\ store.last = BrokenRetry
  BY <1>2, <1>3 DEF StoreSet
<1>6. queue \in Seq(Jobs) /\ Len(queue) = 0 /\ Range(queue) = {}
  BY <1>1, EmptySeq DEF Range
<1>7. TypeOK
  BY <1>1, <1>3, <1>4, <1>5, <1>6, TypeParts
<1>8. Holders = {} /\ Waiters = {} /\ In("queued") = {}
  BY <1>1, <1>4 DEF Holders, Holding, Waiters, In
<1>9. Cardinality(Holders) = 0
  BY <1>8, FS_EmptySet, Zenon
<1>10. JobsHoldSlots /\ QueueMoves /\ QueueDistinct /\ WaitersServed
  <2>1. QueueDistinct
    BY <1>6 DEF QueueDistinct
  <2>2. JobsHoldSlots
    BY <1>1, <1>9 DEF JobsHoldSlots
  <2>3. QueueMoves /\ WaitersServed
    BY <1>1, <1>5, <1>6, <1>8 DEF QueueMoves, WaitersServed
  <2> QED
    BY <2>1, <2>2, <2>3
<1>11. Anchored(store, spent)
  BY <1>1, <1>5 DEF Anchored
<1>12. \A j \in Jobs : PostsUsed(job[j])
  BY <1>1, <1>4
<1> QED
  BY <1>7, <1>10, <1>11, <1>12 DEF IInv

LEMMA NextIInv == IInv /\ [Next]_vars => IInv'
<1> SUFFICES ASSUME IInv, [Next]_vars PROVE IInv'
  OBVIOUS
<1>1. ASSUME NEW j \in Jobs, Query(j) PROVE IInv'
  BY <1>1, QueryStep
<1>2. ASSUME NEW j \in Jobs, Answer(j) PROVE IInv'
  <2>1. CASE HttpOk(j) \/ Http429(j) \/ HttpError(j) \/ Http401(j)
    BY <2>1, HttpStep
  <2>2. CASE OnHashRejected(j)
    BY <2>2, OnHashRejectedStep
  <2>3. ASSUME NEW S \in SUBSET Jobs, TokenAnswer(S) PROVE IInv'
    BY <2>3, TokenAnswerStep
  <2> QED
    BY <1>2, <2>1, <2>2, <2>3 DEF Answer
<1>3. CASE ScrapeAnswers
  BY <1>3, ScrapeEndsStep DEF ScrapeAnswers
<1>4. CASE Tick \/ RateLapses \/ HashExpires \/ Rotate \/ UNCHANGED vars
  BY <1>4, WorldStep
<1> QED
  BY <1>1, <1>2, <1>3, <1>4 DEF Next

\* The inductive invariant holds in every state of every behaviour.
THEOREM Invariance == Spec => []IInv
BY InitIInv, NextIInv, PTL DEF Spec

\* Pathfinder's state keeps its types.
THEOREM TypeCorrect == Spec => []TypeOK
<1>1. IInv => TypeOK
  BY DEF IInv
<1> QED
  BY <1>1, Invariance, PTL

\* Exactly the queries started and not answered yet take a slot each, and never
\* more than PF_MAX_CONCURRENT, however many queries there are.
THEOREM SlotsMatchJobs == Spec => []JobsHoldSlots
<1>1. IInv => JobsHoldSlots
  BY DEF IInv
<1> QED
  BY <1>1, Invariance, PTL

\* No query waits in the queue while a slot is free.
THEOREM QueueNeverStalls == Spec => []QueueMoves
<1>1. IInv => QueueMoves
  BY DEF IInv
<1> QED
  BY <1>1, Invariance, PTL

\* Whoever waits for a scrape has one running, and none runs for nobody.
THEOREM WaitersHaveScrape == Spec => []WaitersServed
<1>1. IInv => WaitersServed
  BY DEF IInv
<1> QED
  BY <1>1, Invariance, PTL

\* A query is posted three times at most: a post uses up a retry.
THEOREM PostsAreBounded == Spec => []PostsBounded
<1>1. IInv => PostsBounded
  <2> SUFFICES ASSUME IInv, NEW j \in Jobs PROVE job[j].posts <= 3
    BY DEF PostsBounded
  <2>1. job[j].posts \in Nat /\ PostsUsed(job[j])
    BY TypeParts DEF IInv, JobSet
  <2> QED
    BY <2>1 DEF PostsUsed, Retries
<1> QED
  BY <1>1, Invariance, PTL

\* The cooldown lies between two scrapes that cost bundles, also when page
\* requests that failed gave it back in between.
THEOREM ScrapesKeepCooldown == Spec => []ScrapesSpaced
<1>1. IInv => ScrapesSpaced
  BY DEF IInv, Anchored, ScrapesSpaced
<1> QED
  BY <1>1, Invariance, PTL

=============================================================================
