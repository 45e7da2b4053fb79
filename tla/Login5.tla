------------------------------- MODULE Login5 -------------------------------
(***************************************************************************)
(* Bearer tokens for Spotify's client endpoints: API/Login5.pm (mint,      *)
(* in-flight coalescing, negative cache, health tick) together with the    *)
(* account bookkeeping that invalidates what Login5 remembers              *)
(* (Credentials::installAccountCredentials, TokenManager::removeAccount    *)
(* and _storeAccountPrefs).                                                *)
(*                                                                         *)
(* LMS runs the plugin in one event loop, so an action here is one         *)
(* callback or call of that loop, run to its end.  What interleaves is the *)
(* login5 round-trip: a mint is POSTed in one action and answered in       *)
(* another, and the credentials may be replaced or removed in between.     *)
(*                                                                         *)
(* A token, a verdict and a damping entry are abstracted to the credential *)
(* generation or the outcome they stand for.                               *)
(***************************************************************************)
EXTENDS Naturals, FiniteSets

CONSTANTS
  Accounts,     \* account ids
  NoAccount,    \* "no active account" (the empty pref)
  Callers,      \* users of getToken: SpClient, Pathfinder, Quality requests
  Ticks,        \* health-tick activations that may be outstanding at once
  MintIds,      \* names for outstanding mints (bounds how many at once)
  NoMint,       \* %_mintInflight has no queue for the account
  MaxGen,       \* bound on the credential generations of one account
  MaxBoots      \* bound on plugin reloads

ASSUME Login5Assumption ==
  /\ NoAccount \notin Accounts
  /\ NoMint \notin MintIds
  /\ Callers \cap Ticks = {}
  /\ MaxGen \in Nat
  /\ MaxBoots \in Nat

VARIABLES
  cred,         \* credentials.json of an account, and what Spotify thinks of it
  flagged,      \* the persistent needsPlaybackAuth flag
  known,        \* accounts in the prefs
  active,       \* the activeAccount pref
  credGen,      \* %_credGen
  token,        \* cached token: the generation it was minted with, or NoToken
  damped,       \* %_mintDamped: the remembered outcome, or NotDamped
  loginState,   \* %_loginState
  mints,        \* the closures of the mints a login5 POST is outstanding for
  inflight,     \* %_mintInflight: whose queue new callers join
  answer,       \* what each caller is doing or was answered last
  netFailing,   \* $_networkFailing
  timer,        \* a health-tick timer is pending
  shut,         \* $_shutdown
  boots         \* how often initPlugin has run again

credVars   == <<cred, flagged, known, active, credGen>>
mintVars   == <<token, damped, loginState, mints, inflight, answer>>
healthVars == <<netFailing, timer, shut, boots>>
vars == <<credVars, mintVars, healthVars>>

Everyone == Callers \cup Ticks

\* Generations start at 1 so that 0 can stand for "no token cached".
NoToken     == 0
Generations == 1 .. MaxGen + 1

NotDamped == "not_damped"

\* The outcomes of a login5 round-trip.  "throttled" and "transient" are
\* mint_failed with the detail { throttled => 1 } or { transient => 1 }.
HttpFailures == {"mint_failed", "invalid_credentials", "throttled", "transient"}
Outcomes     == HttpFailures \cup {"token", "no_credentials"}

Free == [acct |-> NoAccount, gen |-> 0, boot |-> 0, queue |-> {}]

Posted(m) == mints[m] # Free

\* The queue of a mint whose account was forgotten since it started (WR-15).
Stale(m) == mints[m].gen # credGen[mints[m].acct]

Waiting(c) == answer[c] = "waiting"

TypeOK ==
  /\ cred \in [Accounts -> {"absent", "good", "revoked"}]
  /\ flagged \in [Accounts -> BOOLEAN]
  /\ known \subseteq Accounts
  /\ active \in Accounts \cup {NoAccount}
  /\ credGen \in [Accounts -> Generations]
  /\ token \in [Accounts -> Generations \cup {NoToken}]
  /\ damped \in [Accounts -> HttpFailures \cup {NotDamped}]
  /\ loginState \in [Accounts -> {"unknown", "ok", "invalid_credentials",
                                  "no_credentials", "transient"}]
  /\ mints \in [MintIds -> {Free} \cup
                  [acct: Accounts, gen: Generations, boot: 0 .. MaxBoots,
                   queue: SUBSET Everyone]]
  /\ inflight \in [Accounts -> MintIds \cup {NoMint}]
  /\ answer \in [Everyone -> Outcomes \cup {"idle", "waiting"}]
  /\ netFailing \in BOOLEAN
  /\ timer \in BOOLEAN
  /\ shut \in BOOLEAN
  /\ boots \in 0 .. MaxBoots

\* initPlugin of a fresh server: no mint outstanding, the first tick armed
\* (+20 s).  Accounts may have been paired, and tokens cached, in an earlier run.
Init ==
  /\ cred \in [Accounts -> {"absent", "good", "revoked"}]
  /\ flagged = [a \in Accounts |-> FALSE]
  /\ known = {a \in Accounts : cred[a] # "absent"}
  /\ active \in known \cup {NoAccount}
  /\ credGen = [a \in Accounts |-> 1]
  /\ token \in [Accounts -> {NoToken, 1}]
  /\ \A a \in Accounts : token[a] # NoToken => a \in known
  /\ damped = [a \in Accounts |-> NotDamped]
  /\ loginState = [a \in Accounts |-> "unknown"]
  /\ mints = [m \in MintIds |-> Free]
  /\ inflight = [a \in Accounts |-> NoMint]
  /\ answer = [c \in Everyone |-> "idle"]
  /\ netFailing = FALSE
  /\ timer = TRUE
  /\ shut = FALSE
  /\ boots = 0

-----------------------------------------------------------------------------
(* The mint.                                                               *)

\* Mutant: an outcome that is none of the four states is stored as it is.
RecordedStateVerbatim(o) == IF o = "token" THEN "ok" ELSE o

\* _recordLoginState: outcomes that are none of the four states clear it.
RecordedState(o) ==
  CASE o = "token" -> "ok"
    [] o \in {"invalid_credentials", "no_credentials", "transient"} -> o
    [] OTHER -> "unknown"

\* _mintToken up to the POST.  A caller joins the account's queue, or starts a
\* mint: without stored credentials, or when the credential check, the decoding
\* of auth_data or the dispatch fails, it resolves at once (nothing was sent,
\* so nothing is damped); otherwise the POST goes out and the caller waits.
MintToken(c, a) ==
  \/ /\ inflight[a] # NoMint
     /\ mints' = [mints EXCEPT ![inflight[a]].queue = @ \cup {c}]
     /\ answer' = [answer EXCEPT ![c] = "waiting"]
     /\ UNCHANGED <<token, loginState, inflight>>
  \/ /\ inflight[a] = NoMint
     /\ \E o \in IF cred[a] = "absent" THEN {"no_credentials", "mint_failed"}
                                       ELSE {"mint_failed"} :
          /\ loginState' = [loginState EXCEPT ![a] = RecordedState(o)]
          /\ answer' = [answer EXCEPT ![c] = o]
     /\ UNCHANGED <<token, mints, inflight>>
  \/ /\ inflight[a] = NoMint
     /\ cred[a] # "absent"
     /\ \E m \in MintIds :
          /\ ~Posted(m)
          /\ mints' = [mints EXCEPT ![m] = [acct |-> a, gen |-> credGen[a],
                                            boot |-> boots, queue |-> {c}]]
          /\ inflight' = [inflight EXCEPT ![a] = m]
     /\ answer' = [answer EXCEPT ![c] = "waiting"]
     /\ UNCHANGED <<token, loginState>>

\* getToken: cached token, else the damped answer, else a mint.
GetToken(c, a) ==
  /\ ~Waiting(c)
  /\ \/ /\ token[a] # NoToken
        /\ answer' = [answer EXCEPT ![c] = "token"]
        /\ UNCHANGED <<token, damped, loginState, mints, inflight>>
     \/ /\ token[a] = NoToken
        /\ damped[a] # NotDamped
        /\ answer' = [answer EXCEPT ![c] = damped[a]]
        /\ UNCHANGED <<token, damped, loginState, mints, inflight>>
     \/ /\ token[a] = NoToken
        /\ damped[a] = NotDamped
        /\ MintToken(c, a)
        /\ UNCHANGED damped
  /\ UNCHANGED <<credVars, healthVars>>

\* What may come back for mint m.  Spotify does not reject credentials that are
\* still the account's and good; about superseded or withdrawn ones (the answer
\* may have been under way) anything is possible.
PossibleAnswers(m) ==
  IF ~Stale(m) /\ cred[mints[m].acct] = "good"
  THEN (HttpFailures \cup {"token"}) \ {"invalid_credentials"}
  ELSE HttpFailures \cup {"token"}

\* Mutant: the state is recorded for forgotten credentials too.
ResolveUnchecked(m, o) ==
  LET a == mints[m].acct IN
  /\ loginState' = [loginState EXCEPT ![a] = RecordedState(o)]
  /\ inflight' = IF inflight[a] = m THEN [inflight EXCEPT ![a] = NoMint]
                 ELSE inflight
  /\ answer' = [c \in Everyone |-> IF c \in mints[m].queue THEN o ELSE answer[c]]
  /\ mints' = [mints EXCEPT ![m] = Free]

\* Mutant: the callers drained are those of the queue the slot holds now.
ResolveSlotQueue(m, o) ==
  LET a == mints[m].acct IN
  LET drained == IF inflight[a] = NoMint THEN {} ELSE mints[inflight[a]].queue IN
  /\ loginState' = IF Stale(m) THEN loginState
                   ELSE [loginState EXCEPT ![a] = RecordedState(o)]
  /\ inflight' = [inflight EXCEPT ![a] = NoMint]
  /\ answer' = [c \in Everyone |-> IF c \in drained THEN o ELSE answer[c]]
  /\ mints' = [mints EXCEPT ![m] = Free]

\* Mutant: the slot is deleted although a newer mint owns it.
ResolveFreesSlot(m, o) ==
  LET a == mints[m].acct IN
  /\ loginState' = IF Stale(m) THEN loginState
                   ELSE [loginState EXCEPT ![a] = RecordedState(o)]
  /\ inflight' = [inflight EXCEPT ![a] = NoMint]
  /\ answer' = [c \in Everyone |-> IF c \in mints[m].queue THEN o ELSE answer[c]]
  /\ mints' = [mints EXCEPT ![m] = Free]

\* $resolve on mint m: record the state and release the slot unless another
\* mint owns it, then answer every queued caller.
Resolve(m, o) ==
  LET a == mints[m].acct IN
  /\ loginState' = IF Stale(m) THEN loginState
                   ELSE [loginState EXCEPT ![a] = RecordedState(o)]
  /\ inflight' = IF inflight[a] = m THEN [inflight EXCEPT ![a] = NoMint]
                 ELSE inflight
  /\ answer' = [c \in Everyone |-> IF c \in mints[m].queue THEN o ELSE answer[c]]
  /\ mints' = [mints EXCEPT ![m] = Free]

\* Mutant: the outcome is remembered whatever was forgotten meanwhile.
CacheAnyOutcome(m, o) ==
  LET a == mints[m].acct IN
  IF o = "token"
    THEN /\ token' = [token EXCEPT ![a] = mints[m].gen]
         /\ damped' = [damped EXCEPT ![a] = NotDamped]
    ELSE /\ damped' = [damped EXCEPT ![a] = o]
         /\ UNCHANGED token

\* $resolveHttp before it calls $resolve: cache the token and lift the damping,
\* or damp the failure -- neither for forgotten credentials.
CacheOutcome(m, o) ==
  LET a == mints[m].acct IN
  IF Stale(m) THEN UNCHANGED <<token, damped>>
  ELSE IF o = "token"
    THEN /\ token' = [token EXCEPT ![a] = mints[m].gen]
         /\ damped' = [damped EXCEPT ![a] = NotDamped]
    ELSE /\ damped' = [damped EXCEPT ![a] = o]
         /\ UNCHANGED token

\* Mutant: armed whatever shutdown said.
ArmTimerAlways == timer' = TRUE

\* _armHealthTimer: refuses after shutdown (WR-09).
ArmTimer == timer' = (timer \/ ~shut)

\* Mutant: a failed mint ends the chain.
TickDoneUnlessFailed(o) ==
  /\ netFailing' = CASE o = "token" -> FALSE
                     [] o = "transient" -> TRUE
                     [] OTHER -> netFailing
  /\ timer' = (timer \/ (~shut /\ o \in {"token", "transient"}))
  /\ UNCHANGED <<shut, boots>>

\* healthTick's mint callback for outcome o: the network flag, then re-arm.
TickDone(o) ==
  /\ netFailing' = CASE o = "token" -> FALSE
                     [] o = "transient" -> TRUE
                     [] OTHER -> netFailing
  /\ ArmTimer
  /\ UNCHANGED <<shut, boots>>

\* login5 answers (or the request times out): _handleResponse or the HTTP
\* error callback, the queue drained, a waiting health tick run to its end.
Answer(m, o) ==
  /\ Posted(m)
  /\ o \in PossibleAnswers(m)
  /\ CacheOutcome(m, o)
  /\ Resolve(m, o)
  /\ IF mints[m].queue \cap Ticks # {} THEN TickDone(o) ELSE UNCHANGED healthVars
  /\ UNCHANGED credVars

-----------------------------------------------------------------------------
(* The health tick.                                                        *)

\* healthTick: without an active account it only re-arms; otherwise a mint that
\* bypasses the cache and the damping.  A mint that resolves at once runs the
\* tick's callback in the same call.
HealthTick(t) ==
  /\ timer
  /\ ~Waiting(t)
  /\ \/ /\ active = NoAccount
        /\ timer' = ~shut
        /\ UNCHANGED <<netFailing, shut, boots, mintVars>>
     \/ /\ active # NoAccount
        /\ MintToken(t, active)
        /\ timer' = (answer'[t] # "waiting" /\ ~shut)
        /\ UNCHANGED <<damped, netFailing, shut, boots>>
  /\ UNCHANGED credVars

\* shutdownPlugin -> Login5::shutdown.
Shutdown ==
  /\ ~shut
  /\ shut' = TRUE
  /\ timer' = FALSE
  /\ UNCHANGED <<netFailing, boots, credVars, mintVars>>

\* initPlugin of a plugin reload: reset(), then the first tick is armed.  The
\* mints still outstanding keep their queues (closures), the cache keeps tokens.
Reload ==
  /\ shut
  /\ boots < MaxBoots
  /\ boots' = boots + 1
  /\ inflight' = [a \in Accounts |-> NoMint]
  /\ loginState' = [a \in Accounts |-> "unknown"]
  /\ damped' = [a \in Accounts |-> NotDamped]
  /\ netFailing' = FALSE
  /\ shut' = FALSE
  /\ timer' = TRUE
  /\ UNCHANGED <<token, mints, answer, credVars>>

-----------------------------------------------------------------------------
(* Accounts.                                                               *)

\* forgetAccount: everything remembered about the credentials of account a goes,
\* and the generation moves on so that a mint still in flight is orphaned.
ForgetAccount(a) ==
  /\ credGen[a] <= MaxGen
  /\ credGen' = [credGen EXCEPT ![a] = @ + 1]
  /\ loginState' = [loginState EXCEPT ![a] = "unknown"]
  /\ damped' = [damped EXCEPT ![a] = NotDamped]
  /\ inflight' = [inflight EXCEPT ![a] = NoMint]
  /\ token' = [token EXCEPT ![a] = NoToken]
  /\ UNCHANGED <<mints, answer>>

\* Mutant: only an account whose last mint succeeded counts.
HasProvenLogin(a) ==
  /\ cred[a] # "absent"
  /\ ~flagged[a]
  /\ loginState[a] = "ok"

\* hasValidLogin, on the state the pairing of another account sees.
HasValidLogin(a) ==
  /\ cred[a] # "absent"
  /\ ~flagged[a]
  /\ loginState[a] # "invalid_credentials"

\* installAccountCredentials with _storeAccountPrefs: the staged file becomes
\* the account's credentials, and the account takes the active slot when that
\* is empty or its owner has no valid login (D-06).
Pair(a) ==
  /\ cred' = [cred EXCEPT ![a] = "good"]
  /\ ForgetAccount(a)
  /\ known' = known \cup {a}
  /\ active' = IF active = NoAccount \/ (active # a /\ ~HasValidLogin(active))
               THEN a ELSE active
  /\ flagged' = [flagged EXCEPT ![a] = FALSE]
  /\ UNCHANGED healthVars

\* installAccountCredentials when neither rename nor move succeeds: the old
\* file is already unlinked, and nothing else happens.
PairFails(a) ==
  /\ cred[a] # "absent"
  /\ cred' = [cred EXCEPT ![a] = "absent"]
  /\ UNCHANGED <<flagged, known, active, credGen, mintVars, healthVars>>

\* removeAccount; remove_tree may fail and leave the file behind.
Remove(a) ==
  /\ a \in known
  /\ known' = known \ {a}
  /\ ForgetAccount(a)
  /\ cred' \in {cred, [cred EXCEPT ![a] = "absent"]}
  /\ active' = IF active = a THEN NoAccount ELSE active
  /\ UNCHANGED <<flagged, healthVars>>

-----------------------------------------------------------------------------
(* The environment.                                                        *)

\* The cache drops a token whose TTL is over, or SpClient removes it on a 401.
TokenGone(a) ==
  /\ token[a] # NoToken
  /\ token' = [token EXCEPT ![a] = NoToken]
  /\ UNCHANGED <<damped, loginState, mints, inflight, answer, credVars, healthVars>>

\* The damping window is over.
DampLapses(a) ==
  /\ damped[a] # NotDamped
  /\ damped' = [damped EXCEPT ![a] = NotDamped]
  /\ UNCHANGED <<token, loginState, mints, inflight, answer, credVars, healthVars>>

\* Spotify stops accepting the stored credentials.
Revoke(a) ==
  /\ cred[a] = "good"
  /\ cred' = [cred EXCEPT ![a] = "revoked"]
  /\ UNCHANGED <<flagged, known, active, credGen, mintVars, healthVars>>

\* A daemon reports a playback-auth failure: markNeedsPlaybackAuth.
MarkNeedsPlaybackAuth(a) ==
  /\ a \in known
  /\ ~flagged[a]
  /\ flagged' = [flagged EXCEPT ![a] = TRUE]
  /\ UNCHANGED <<cred, known, active, credGen, mintVars, healthVars>>

Next ==
  \/ \E c \in Callers, a \in Accounts : GetToken(c, a)
  \/ \E m \in MintIds, o \in Outcomes : Answer(m, o)
  \/ \E t \in Ticks : HealthTick(t)
  \/ Shutdown
  \/ Reload
  \/ \E a \in Accounts :
       \/ Pair(a) \/ PairFails(a) \/ Remove(a) \/ MarkNeedsPlaybackAuth(a)
       \/ TokenGone(a) \/ DampLapses(a) \/ Revoke(a)

\* SimpleAsyncHTTP calls exactly one of its callbacks within REQUEST_TIMEOUT,
\* and LMS timers fire.
Fairness ==
  /\ \A m \in MintIds : WF_vars(\E o \in Outcomes : Answer(m, o))
  /\ \A t \in Ticks : WF_vars(HealthTick(t))

Spec == Init /\ [][Next]_vars
FairSpec == Spec /\ Fairness

-----------------------------------------------------------------------------
(* Properties.                                                             *)

\* A cached token was minted with the credentials the account has now: the
\* answer to a mint of replaced credentials is never cached, and replacing them
\* drops the token (WR-10, WR-17).
TokenOfCurrentCredentials ==
  \A a \in Accounts : token[a] # NoToken => token[a] = credGen[a]

\* "invalid_credentials" is only remembered, as the login state or as the damped
\* answer, about credentials Spotify does reject: a verdict on replaced
\* credentials never reaches a freshly paired account (WR-15).
NoStaleVerdict ==
  \A a \in Accounts :
    \/ loginState[a] = "invalid_credentials"
    \/ damped[a] = "invalid_credentials"
    => cred[a] # "good"

\* A caller that was not answered yet sits in the queue of exactly one
\* outstanding mint, whatever was forgotten or reset meanwhile.
NoCallerLost ==
  \A c \in Everyone :
    Cardinality({m \in MintIds : c \in mints[m].queue}) = (IF Waiting(c) THEN 1 ELSE 0)

\* Between two reloads at most one mint of the current credentials of an account
\* is outstanding, and it is the one new callers join.
SingleFlight ==
  \A m \in MintIds :
    Posted(m) /\ ~Stale(m) /\ mints[m].boot = boots => inflight[mints[m].acct] = m

\* The health chain never dies: while the plugin runs, the next tick is armed or
\* a tick waits for its mint -- and after shutdown none is armed (WR-09).
HealthChain ==
  IF shut THEN ~timer ELSE timer \/ \E t \in Ticks : Waiting(t)

\* A pairing never takes the active slot from an account whose own login works
\* (D-04, D-06): the slot is lost only by removing the account.
WorkingActiveKept ==
  [][\A a \in Accounts :
       active = a /\ cred[a] = "good" /\ ~flagged[a] /\ a \in known'
         => active' = a]_vars

\* A plugin that is not shut down for good keeps ticking.
HealthKeepsTicking == []<>(timer \/ shut)

\* What callers see of Login5 is a TokenService: asked, then answered once.
Service == INSTANCE TokenService WITH
  Callers <- Everyone,
  answer  <- [c \in Everyone |->
                IF answer[c] \in {"idle", "waiting", "token"} THEN answer[c] ELSE "failed"]

ImplementsTokenService == Service!Spec

=============================================================================
