------------------------------ MODULE SpClient ------------------------------
(***************************************************************************)
(* The request pipeline of API/SpClient.pm for one account: the rate-limit *)
(* key, the concurrency cap, the bearer from Login5 (seen through          *)
(* TokenService), the host lookup, the HTTP call and its single 401        *)
(* remint; and gate(), through which Soloist's playback-settings calls     *)
(* share the same key and the same slots.                                  *)
(*                                                                         *)
(* One action is one callback of the LMS event loop.  Of a request only    *)
(* its use of the response cache is kept (of one path: a request for any   *)
(* other behaves like one that skips the cached response); a token is its  *)
(* number in minting order.                                                *)
(***************************************************************************)
EXTENDS Naturals, Integers, FiniteSets

CONSTANTS
  Requests,     \* calls of _request
  Readers,      \* requests that may be served from the response cache: not those
                \* with _noCache or _refreshCache
  Writers,      \* requests whose response is stored: not those with _noCache
  Gated,        \* calls of gate
  MaxConcurrent,\* MAX_CONCURRENT_REQUESTS
  MaxBoots      \* bound on plugin reloads (reset with requests outstanding)

ASSUME SpClientAssumption ==
  /\ Requests \cap Gated = {}
  /\ IsFiniteSet(Requests \cup Gated)
  /\ MaxConcurrent \in Nat \ {0}
  /\ MaxBoots \in Nat
  /\ Readers \subseteq Writers /\ Writers \subseteq Requests

VARIABLES
  inflightCount,  \* $inflightCount
  rateLimited,    \* SPCLIENT_RATE_LIMIT_KEY lies in the future
  phase,          \* where a request or a gated call is
  answer,         \* Login5's answer to a request's getToken
  token,          \* the cached bearer, 0 when there is none
  minted,         \* bearers minted so far
  bearer,         \* the bearer a request was last sent with
  rejected,       \* bearers a request was answered 401 for
  retried,        \* _retried401
  unauth,         \* the account is in %_unauthUntil
  hostCached,     \* HOST_CACHE_KEY is set
  stored,         \* the response cache has a response
  boots,          \* plugin reloads so far
  forgotten       \* history: slots that were held when reset zeroed the counter

slotVars  == <<inflightCount, phase>>
loginVars == <<answer, token, minted>>
reqVars   == <<bearer, rejected, retried>>
reloads   == <<boots, forgotten>>
vars == <<slotVars, loginVars, reqVars, stored, rateLimited, unauth, hostCached, reloads>>

Jobs == Requests \cup Gated

Login == INSTANCE TokenService WITH Callers <- Requests

Waiting == {r \in Requests : answer[r] = "waiting"}

\* The phases in which a job has taken a slot and not given it back.  "lost": the
\* dispatch of its host lookup died where nobody calls $userCb.
Holding == {"token", "host", "sent", "running", "lost"}
Holders == {j \in Jobs : phase[j] \in Holding}
Lost == {j \in Jobs : phase[j] = "lost"}

TypeOK ==
  /\ inflightCount \in Int
  /\ rateLimited \in BOOLEAN
  /\ phase \in [Jobs -> Holding \cup {"idle", "delayed", "late", "done"}]
  /\ Login!TypeOK
  /\ token \in Nat
  /\ minted \in Nat
  /\ bearer \in [Requests -> Nat]
  /\ rejected \in [Requests -> SUBSET Nat]
  /\ retried \in [Requests -> BOOLEAN]
  /\ unauth \in BOOLEAN
  /\ hostCached \in BOOLEAN
  /\ stored \in BOOLEAN
  /\ boots \in 0 .. MaxBoots
  /\ forgotten \in 0 .. Cardinality(Jobs)

Init ==
  /\ inflightCount = 0
  /\ rateLimited = FALSE
  /\ phase = [j \in Jobs |-> "idle"]
  /\ Login!Init
  /\ token \in {0, 1}       \* the cache survives a restart
  /\ minted = token
  /\ bearer = [r \in Requests |-> 0]
  /\ rejected = [r \in Requests |-> {}]
  /\ retried = [r \in Requests |-> FALSE]
  /\ unauth = FALSE
  /\ hostCached = FALSE
  /\ stored \in BOOLEAN
  /\ boots = 0
  /\ forgotten = 0

-----------------------------------------------------------------------------
(* Effects shared by the handlers.                                         *)

\* Mutant: a second call of $userCb gives the slot back again.
ReturnedTwice(S, again) == Cardinality(S) + Cardinality(again)

\* The slots that come back when $userCb is called for every request in S, and a
\* second time for those in `again`: $userCbCalled lets each count once.
Returned(S, again) == Cardinality(S \cup again)

\* $userCb for the requests in S, in a callback of its own of the event loop.  (A
\* caller's callback that dies here is caught by the loop, or by Login5.)
Finish(S) ==
  /\ inflightCount' = inflightCount - Returned(S, {})
  /\ phase' = [j \in Jobs |-> IF j \in S THEN "done" ELSE phase[j]]

\* The callback of a job that never took a slot.
Refuse(j) ==
  /\ phase' = [phase EXCEPT ![j] = "done"]
  /\ UNCHANGED inflightCount

\* Mutant: parked in a state nothing leaves.
DelayForgotten(j) ==
  /\ phase' = [phase EXCEPT ![j] = "parked"]
  /\ UNCHANGED inflightCount

\* No free slot: the same call again in 0.1 s.
Delay(j) ==
  /\ phase' = [phase EXCEPT ![j] = "delayed"]
  /\ UNCHANGED inflightCount

\* S is dispatched under an eval, with `taken` slots just taken, and goes on to
\* the phase `next`; those in `dead` are over: the dispatch died or failed at
\* once.  When the caller's callback dies as well, in `again`, the eval calls
\* $userCb a second time.
Dispatch(S, dead, next, taken) ==
  /\ phase' = [j \in Jobs |-> IF j \in dead THEN "done"
                              ELSE IF j \in S THEN next ELSE phase[j]]
  /\ \E again \in SUBSET dead :
       inflightCount' = inflightCount + taken - Returned(dead, again)

\* The requests in S have the bearer t: with the host known each is sent,
\* otherwise it is looked up first.  A lookup whose own dispatch dies has no eval
\* around it in _resolveHost: that of _request ends the request if the bearer came
\* at once; if Login5 called back later, Login5 logs the die and $userCb is never
\* called (`late`).
Proceed(S, t, taken, late) ==
  /\ bearer' = [r \in Requests |-> IF r \in S THEN t ELSE bearer[r]]
  /\ \E dead \in SUBSET S :
       \/ /\ hostCached
          /\ Dispatch(S, dead, "sent", taken)
       \/ /\ ~hostCached
          /\ ~late
          /\ Dispatch(S, dead, "host", taken)
       \/ /\ ~hostCached
          /\ late
          /\ phase' = [j \in Jobs |-> IF j \in dead THEN "lost"
                                      ELSE IF j \in S THEN "host" ELSE phase[j]]
          /\ inflightCount' = inflightCount + taken

\* _doRequest of r, with the cached bearer cached and `taken` slots just taken:
\* getToken answers at once with the cached bearer or a failure, or r waits.
DoRequest(r, cached, taken) ==
  /\ Login!Ask(r)
  /\ cached # 0 <=> answer'[r] = "token"
  /\ \/ /\ answer'[r] = "token"
        /\ Proceed({r}, cached, taken, FALSE)
     \/ /\ answer'[r] = "failed"
        /\ Dispatch({r}, {r}, "token", taken)
        /\ UNCHANGED bearer
     \/ /\ answer'[r] = "waiting"
        /\ Dispatch({r}, {}, "token", taken)
        /\ UNCHANGED bearer

-----------------------------------------------------------------------------
(* _request.                                                               *)

\* The response cache answers r.
Hit(r) == r \in Readers /\ stored

\* Called, or called again by the 0.1 s timer: refused under a rate limit,
\* served from the response cache, put off at the cap, or dispatched.
Request(r) ==
  /\ phase[r] \in {"idle", "delayed"}
  /\ \/ /\ rateLimited \/ Hit(r)
        /\ Refuse(r)
        /\ UNCHANGED <<loginVars, bearer>>
     \/ /\ ~rateLimited /\ ~Hit(r)
        /\ inflightCount >= MaxConcurrent
        /\ Delay(r)
        /\ UNCHANGED <<loginVars, bearer>>
     \/ /\ ~rateLimited /\ ~Hit(r)
        /\ inflightCount < MaxConcurrent
        /\ DoRequest(r, token, 1)
        /\ UNCHANGED <<token, minted>>
  /\ UNCHANGED <<rejected, retried, stored, rateLimited, unauth, hostCached, reloads>>

\* Login5 settles the mint the requests in S wait for; all of them continue in
\* the same turn of the event loop.
TokenAnswer(S) ==
  /\ Login!Settle(S)
  /\ \/ /\ \A r \in S : answer'[r] = "failed"
        /\ Finish(S)
        /\ UNCHANGED <<token, minted, bearer>>
     \/ /\ \A r \in S : answer'[r] = "token"
        /\ minted' = minted + 1
        /\ token' = minted + 1
        /\ Proceed(S, minted + 1, 0, TRUE)
  /\ UNCHANGED <<rejected, retried, stored, rateLimited, unauth, hostCached, reloads>>

\* apresolve answers (the host is cached) or fails (the fallback host is used
\* for this request only); the request is sent, or its dispatch dies.
HostAnswer(r) ==
  /\ phase[r] = "host"
  /\ hostCached' \in {hostCached, TRUE}
  /\ \E dead \in SUBSET {r} : Dispatch({r}, dead, "sent", 0)
  /\ UNCHANGED <<loginVars, reqVars, stored, rateLimited, unauth, reloads>>

\* A 2xx: the unauthorized memory is lifted, and the response stored -- unless r
\* skips the cache, the body does not parse, or the path has no TTL.
HttpOk(r) ==
  /\ phase[r] = "sent"
  /\ unauth' = FALSE
  /\ \/ UNCHANGED stored
     \/ r \in Writers /\ stored' = TRUE
  /\ Finish({r})
  /\ UNCHANGED <<loginVars, reqVars, rateLimited, hostCached, reloads>>

\* A 429 sets the rate-limit key.
Http429(r) ==
  /\ phase[r] = "sent"
  /\ rateLimited' = TRUE
  /\ Finish({r})
  /\ UNCHANGED <<loginVars, reqVars, stored, unauth, hostCached, reloads>>

\* Any other error.
HttpError(r) ==
  /\ phase[r] = "sent"
  /\ Finish({r})
  /\ UNCHANGED <<loginVars, reqVars, stored, rateLimited, unauth, hostCached, reloads>>

\* Mutant: the cached bearer is not removed.
TokenKeptAfter401 == token

\* What a 401 does to the cached bearer: an account confirmed unauthorized
\* keeps it, any other 401 removes it -- whichever bearer it is by now.
TokenAfter401 == IF unauth THEN token ELSE 0

\* A 401 is retried once with a fresh bearer (D-07a), reported as unauthorized
\* the second time, and reported at once while the memory is set.
Http401(r) ==
  /\ phase[r] = "sent"
  /\ rejected' = [rejected EXCEPT ![r] = @ \cup {bearer[r]}]
  /\ token' = TokenAfter401
  /\ \/ /\ ~unauth
        /\ ~retried[r]
        /\ retried' = [retried EXCEPT ![r] = TRUE]
        /\ DoRequest(r, TokenAfter401, 0)
        /\ UNCHANGED <<minted, unauth>>
     \/ /\ unauth \/ retried[r]
        /\ unauth' = TRUE
        /\ Finish({r})
        /\ UNCHANGED <<answer, minted, bearer, retried>>
  /\ UNCHANGED <<stored, rateLimited, hostCached, reloads>>

-----------------------------------------------------------------------------
(* gate.                                                                   *)

\* gate(): blocked under a rate limit, put off at the cap, or run with a slot.  A
\* run that dies, before or after it released, has the eval release for it.
Gate(g) ==
  /\ phase[g] \in {"idle", "delayed"}
  /\ \/ /\ rateLimited
        /\ Refuse(g)
     \/ /\ ~rateLimited
        /\ inflightCount >= MaxConcurrent
        /\ Delay(g)
     \/ /\ ~rateLimited
        /\ inflightCount < MaxConcurrent
        /\ \E dead \in SUBSET {g} : Dispatch({g}, dead, "running", 1)
  /\ UNCHANGED <<loginVars, reqVars, stored, rateLimited, unauth, hostCached, reloads>>

\* The gated request answers and releases its slot (a no-op when it was freed
\* before); a 429 it saw is reported through noteRateLimit.
GateAnswer(g) ==
  /\ phase[g] \in {"running", "late"}
  /\ rateLimited' \in {rateLimited, TRUE}
  /\ phase' = [phase EXCEPT ![g] = "done"]
  /\ inflightCount' = IF phase[g] = "running" THEN inflightCount - 1 ELSE inflightCount
  /\ UNCHANGED <<loginVars, reqVars, stored, unauth, hostCached, reloads>>

\* Mutant: a freed gate keeps its slot in the counter.
GateTimeoutKeepsSlot(g) ==
  /\ phase[g] = "running"
  /\ phase' = [phase EXCEPT ![g] = "late"]
  /\ UNCHANGED <<inflightCount, loginVars, reqVars, stored, rateLimited, unauth,
                 hostCached, reloads>>

\* GATE_MAX_HOLD seconds without an answer: the slot is freed.
GateTimeout(g) ==
  /\ phase[g] = "running"
  /\ phase' = [phase EXCEPT ![g] = "late"]
  /\ inflightCount' = inflightCount - 1
  /\ UNCHANGED <<loginVars, reqVars, stored, rateLimited, unauth, hostCached, reloads>>

-----------------------------------------------------------------------------
(* Time and the plugin.                                                    *)

RateLapses ==
  /\ rateLimited
  /\ rateLimited' = FALSE
  /\ UNCHANGED <<slotVars, loginVars, reqVars, stored, unauth, hostCached, reloads>>

UnauthLapses ==
  /\ unauth
  /\ unauth' = FALSE
  /\ UNCHANGED <<slotVars, loginVars, reqVars, stored, rateLimited, hostCached, reloads>>

TokenExpires ==
  /\ token # 0
  /\ token' = 0
  /\ UNCHANGED <<slotVars, answer, minted, reqVars, stored, rateLimited, unauth,
                 hostCached, reloads>>

StoredExpires ==
  /\ stored
  /\ stored' = FALSE
  /\ UNCHANGED <<slotVars, loginVars, reqVars, rateLimited, unauth, hostCached,
                 reloads>>

HostExpires ==
  /\ hostCached
  /\ hostCached' = FALSE
  /\ UNCHANGED <<slotVars, loginVars, reqVars, stored, rateLimited, unauth, reloads>>

\* reset(), from initPlugin of a plugin reload.
Reset ==
  /\ boots < MaxBoots
  /\ boots' = boots + 1
  /\ inflightCount' = 0
  /\ forgotten' = Cardinality(Holders)
  /\ rateLimited' = FALSE
  /\ hostCached' = FALSE
  /\ UNCHANGED <<phase, loginVars, reqVars, stored, unauth>>

Next ==
  \/ \E r \in Requests :
       \/ Request(r) \/ HostAnswer(r)
       \/ HttpOk(r) \/ Http429(r) \/ HttpError(r) \/ Http401(r)
  \/ \E S \in SUBSET Requests : TokenAnswer(S)
  \/ \E g \in Gated : Gate(g) \/ GateAnswer(g) \/ GateTimeout(g)
  \/ RateLapses \/ UnauthLapses \/ TokenExpires \/ StoredExpires \/ HostExpires
  \/ Reset

\* Timers fire: the 0.1 s timer of a delayed call (at the cap all it does is to
\* delay again: such a call ends by a rate limit, a cache hit or a free slot) and
\* that of a gate.  Every SimpleAsyncHTTP request -- login5, apresolve or spclient --
\* calls one of its callbacks within its timeout.  A gated caller may never answer.
Fairness ==
  /\ \A r \in Requests :
       /\ WF_vars(phase[r] = "delayed" /\ Request(r))
       /\ WF_vars(HostAnswer(r))
       /\ WF_vars(HttpOk(r) \/ Http429(r) \/ HttpError(r) \/ Http401(r))
       /\ WF_vars(\E S \in SUBSET Requests : r \in S /\ TokenAnswer(S))
  /\ \A g \in Gated :
       /\ WF_vars(phase[g] = "delayed" /\ Gate(g))
       /\ WF_vars(GateTimeout(g))

Spec == Init /\ [][Next]_vars
FairSpec == Spec /\ Fairness

-----------------------------------------------------------------------------
(* Properties.                                                             *)

\* The counter equals the number of jobs holding a slot: every path out of a
\* dispatch -- answer, 401 retry, a die, a freed gate -- gives back exactly one.
\* Only a reload makes the counter forget slots.
SlotsAccounted == inflightCount = Cardinality(Holders) - forgotten

\* Never more than MAX_CONCURRENT_REQUESTS jobs hold a slot, unless a reload made
\* the counter forget some.
CapRespected == forgotten = 0 => Cardinality(Holders) <= MaxConcurrent

\* D-09: "concurrency cap 2".
CapAlways == Cardinality(Holders) <= MaxConcurrent

\* The D-07a retry carries a fresh bearer: no request is sent again with a
\* bearer it was already rejected with.
RetryIsFresh ==
  \A r \in Requests : phase[r] \in {"host", "sent"} => bearer[r] \notin rejected[r]

\* An account costs at most one remint per request: no request collects a third
\* 401, and one that was rejected twice is over.
OneRemint ==
  \A r \in Requests :
    /\ Cardinality(rejected[r]) <= 2
    /\ Cardinality(rejected[r]) = 2 => phase[r] = "done"

\* Every request that was issued is answered, though gated callers may never
\* release their slots: only its own lookup may keep it from that, or lookups that
\* lost all the slots.  (For a finite number of requests: there is no queue, so an
\* endless stream of them may overtake one.)
RequestsEnd ==
  \A r \in Requests :
    phase[r] # "idle" ~> phase[r] \in {"done", "lost"} \/ Cardinality(Lost) >= MaxConcurrent

=============================================================================
