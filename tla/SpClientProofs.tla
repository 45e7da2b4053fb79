---------------------------- MODULE SpClientProofs ----------------------------
(***************************************************************************)
(* The safety properties of SpClient, proved for any requests, gated calls *)
(* and bounds.  Most handlers end in the same effect on the slots, stated  *)
(* once as SlotEffect; the inductive invariant adds to the properties who  *)
(* waits for Login5, and what a request still being sent was rejected with.*)
(***************************************************************************)
EXTENDS SpClient, FiniteSetTheorems, TLAPS

USE SpClientAssumption DEF SpClientAssumption, Jobs, reloads

Phases == Holding \cup {"idle", "delayed", "late", "done"}

\* Only a request whose slot is in the phase "token" waits for Login5.
WaitersHold == \A r \in Requests : answer[r] = "waiting" => phase[r] = "token"

\* Every bearer there is has been minted.
BearersMinted ==
  /\ token <= minted
  /\ \A r \in Requests : bearer[r] <= minted /\ rejected[r] \subseteq 0 .. minted

\* A request that is not over was rejected once if it is on its retry, and
\* never before.
RejectedOnce ==
  \A r \in Requests :
    \/ phase[r] = "done" /\ IsFiniteSet(rejected[r]) /\ Cardinality(rejected[r]) <= 2
    \/ ~retried[r] /\ rejected[r] = {}
    \/ /\ retried[r]
       /\ phase[r] \in Holding
       /\ \E t \in 0 .. minted : rejected[r] = {t}

SlotInv == TypeOK /\ SlotsAccounted /\ CapRespected

IInv ==
  /\ SlotInv
  /\ WaitersHold
  /\ BearersMinted
  /\ RejectedOnce
  /\ RetryIsFresh

-----------------------------------------------------------------------------
(* Holders.                                                                *)

\* There are finitely many holders, so they can be counted.
LEMMA HoldersFinite ==
  /\ IsFiniteSet(Holders) /\ Cardinality(Holders) \in Nat
  /\ Cardinality(Holders) <= Cardinality(Jobs)
  /\ IsFiniteSet(Holders') /\ Cardinality(Holders') \in Nat
<1>1. Holders \subseteq Jobs /\ Holders' \subseteq Jobs
  BY DEF Holders
<1> QED
  BY <1>1, FS_Subset, FS_CardinalityType

\* Taking members of a finite set away takes as many off its cardinality.
LEMMA CardinalityMinus ==
  ASSUME NEW T, IsFiniteSet(T), NEW S \in SUBSET T
  PROVE  /\ IsFiniteSet(S) /\ Cardinality(S) \in Nat
         /\ Cardinality(T \ S) = Cardinality(T) - Cardinality(S)
<1>1. IsFiniteSet(S) /\ Cardinality(S) \in Nat /\ Cardinality(T) \in Nat
  BY FS_Subset, FS_CardinalityType
<1>2. Cardinality(T \ S) = Cardinality(T) - Cardinality(T \cap S)
  BY FS_Difference
<1>3. T \cap S = S
  OBVIOUS
<1> QED
  BY <1>1, <1>2, <1>3

\* However often $userCb is called for some of S, each slot comes back once.
LEMMA ReturnedOnce ==
  ASSUME NEW S, NEW again \in SUBSET S
  PROVE  Returned(S, again) = Cardinality(S)
<1>1. S \cup again = S
  OBVIOUS
<1> QED
  BY <1>1 DEF Returned

\* What a handler that concerns the jobs in S does to the slots, if it takes
\* `taken` new ones: the counter follows the holders.
SlotEffect(S, taken) ==
  /\ inflightCount' \in Int
  /\ phase' \in [Jobs -> Phases]
  /\ \A j \in Jobs \ S : phase'[j] = phase[j]
  /\ inflightCount' - Cardinality(Holders') = inflightCount - Cardinality(Holders)
  /\ Cardinality(Holders') <= Cardinality(Holders) + taken

\* Such a handler keeps the slot properties.
LEMMA SlotEffectSafe ==
  ASSUME SlotInv, NEW S \in SUBSET Jobs, NEW taken \in {0, 1}, SlotEffect(S, taken),
         taken = 1 => inflightCount < MaxConcurrent,
         UNCHANGED reloads
  PROVE  SlotsAccounted' /\ CapRespected'
<1> USE DEF SlotInv, SlotEffect
<1>1. SlotsAccounted'
  BY HoldersFinite DEF SlotsAccounted, TypeOK
<1>2. CapRespected'
  <2>1. /\ inflightCount \in Int /\ forgotten' = forgotten
        /\ Cardinality(Holders) = inflightCount + forgotten
        /\ Cardinality(Holders') <= Cardinality(Holders) + taken
    BY HoldersFinite DEF SlotsAccounted, TypeOK
  <2> QED
    BY <2>1, HoldersFinite DEF CapRespected
<1> QED
  BY <1>1, <1>2

\* Finish frees the slots of S.
LEMMA FinishEffect ==
  ASSUME SlotInv, NEW S \in SUBSET Holders, Finish(S)
  PROVE  SlotEffect(S, 0) /\ \A j \in S : phase'[j] = "done"
<1> USE DEF SlotInv
<1>1. S \subseteq Jobs
  BY DEF Holders
<1>2. Holders' = Holders \ S
  BY <1>1 DEF Finish, Holders, Holding, TypeOK
<1>3. phase' \in [Jobs -> Phases]
  BY DEF Finish, TypeOK, Phases
<1>4. inflightCount' = inflightCount - Cardinality(S)
  BY ReturnedOnce DEF Finish
<1>5. \A j \in Jobs \ S : phase'[j] = phase[j]
  BY DEF Finish, TypeOK
<1>6. \A j \in S : phase'[j] = "done"
  BY <1>1 DEF Finish, TypeOK
<1>7. /\ Cardinality(S) \in Nat /\ inflightCount \in Int
      /\ Cardinality(Holders') = Cardinality(Holders) - Cardinality(S)
  BY <1>2, HoldersFinite, CardinalityMinus DEF TypeOK
<1> QED
  BY <1>3, <1>4, <1>5, <1>6, <1>7, HoldersFinite DEF SlotEffect

\* A job that holds no slot and gets none: refused, or put off.
LEMMA NoSlotEffect ==
  ASSUME SlotInv, NEW j \in Jobs, phase[j] \in {"idle", "delayed"}, Refuse(j) \/ Delay(j)
  PROVE  SlotEffect({j}, 0) /\ phase'[j] \in {"done", "delayed"}
<1> USE DEF SlotInv
<1>1. Holders' = Holders
  BY DEF Refuse, Delay, Holders, Holding, TypeOK
<1>2. phase' \in [Jobs -> Phases] /\ inflightCount' = inflightCount
  BY DEF Refuse, Delay, TypeOK, Phases
<1>3. /\ \A i \in Jobs \ {j} : phase'[i] = phase[i]
      /\ phase'[j] \in {"done", "delayed"}
  BY DEF Refuse, Delay, TypeOK
<1> QED
  BY <1>1, <1>2, <1>3, HoldersFinite DEF SlotEffect, TypeOK

\* S is about to be dispatched: it holds its slots already, or is one job that
\* takes one now.
Took(S, taken) ==
  \/ taken = 0 /\ S \subseteq Holders
  \/ taken = 1 /\ \E j \in Jobs : S = {j} /\ phase[j] \in {"idle", "delayed"}

\* With its slots taken, S belongs to the holders.
LEMMA TookHolders ==
  ASSUME SlotInv, NEW S \in SUBSET Jobs, NEW taken \in {0, 1}, Took(S, taken)
  PROVE  /\ IsFiniteSet(Holders \cup S)
         /\ Cardinality(Holders \cup S) = Cardinality(Holders) + taken
<1>1. CASE taken = 0 /\ S \subseteq Holders
  <2>1. Holders \cup S = Holders
    BY <1>1
  <2>2. IsFiniteSet(Holders) /\ Cardinality(Holders) \in Nat
    BY HoldersFinite
  <2>3. Cardinality(Holders) = Cardinality(Holders) + taken
    BY <1>1, <2>2
  <2> QED
    BY <2>1, <2>2, <2>3
<1>2. CASE taken = 1 /\ \E j \in Jobs : S = {j} /\ phase[j] \in {"idle", "delayed"}
  <2>1. PICK j \in Jobs : S = {j} /\ phase[j] \in {"idle", "delayed"}
    BY <1>2
  <2>2. j \notin Holders
    BY <2>1 DEF Holders, Holding
  <2> QED
    BY <1>2, <2>1, <2>2, HoldersFinite, FS_AddElement
<1> QED
  BY <1>1, <1>2 DEF Took

\* Of a set that takes its slots, the part that is over gives them back; the rest
\* goes on holding them.
LEMMA TakeEffect ==
  ASSUME SlotInv, NEW S \in SUBSET Jobs, NEW taken \in {0, 1}, Took(S, taken),
         NEW dead \in SUBSET S,
         phase' \in [Jobs -> Phases],
         \A j \in Jobs \ S : phase'[j] = phase[j],
         \A j \in S \ dead : phase'[j] \in Holding,
         \A j \in dead : phase'[j] = "done",
         inflightCount' = inflightCount + taken - Cardinality(dead)
  PROVE  SlotEffect(S, taken)
<1> DEFINE T == Holders \cup S
<1>1. T \subseteq Jobs /\ inflightCount \in Int
  BY DEF SlotInv, TypeOK, Holders
<1>2. Holders' = T \ dead
  BY <1>1 DEF Holders, Holding
<1>3. /\ IsFiniteSet(T) /\ dead \in SUBSET T
      /\ Cardinality(T) = Cardinality(Holders) + taken
  BY TookHolders
<1> HIDE DEF T
<1>4. Cardinality(dead) \in Nat /\ Cardinality(T \ dead) = Cardinality(T) - Cardinality(dead)
  BY <1>3, CardinalityMinus
<1>5. Cardinality(Holders) \in Nat
  BY HoldersFinite
<1>6. Cardinality(Holders') = Cardinality(Holders) + taken - Cardinality(dead)
  <2>1. Cardinality(Holders') = Cardinality(T \ dead)
    BY <1>2
  <2>2. Cardinality(T) \in Nat
    BY <1>3, FS_CardinalityType
  <2> QED
    BY <1>3, <1>4, <1>5, <2>1, <2>2
<1>7. /\ inflightCount' \in Int
      /\ inflightCount' - Cardinality(Holders') = inflightCount - Cardinality(Holders)
      /\ Cardinality(Holders') <= Cardinality(Holders) + taken
  BY <1>1, <1>4, <1>5, <1>6
<1> QED
  BY <1>7 DEF SlotEffect

\* A dispatch: what dies or fails at once is over, whether or not its callback dies
\* too, and the rest goes on.
LEMMA DispatchEffect ==
  ASSUME SlotInv, NEW S \in SUBSET Jobs, NEW dead \in SUBSET S, NEW next \in Holding,
         NEW taken \in {0, 1}, Took(S, taken), Dispatch(S, dead, next, taken)
  PROVE  /\ SlotEffect(S, taken)
         /\ \A j \in S : phase'[j] = (IF j \in dead THEN "done" ELSE next)
<1>1. phase \in [Jobs -> Phases]
  BY DEF SlotInv, TypeOK, Phases
<1>2. /\ phase' \in [Jobs -> Phases]
      /\ \A j \in Jobs \ S : phase'[j] = phase[j]
      /\ \A j \in S : phase'[j] = (IF j \in dead THEN "done" ELSE next)
  BY <1>1 DEF Dispatch, Phases
<1>3. PICK again \in SUBSET dead :
        inflightCount' = inflightCount + taken - Returned(dead, again)
  BY DEF Dispatch
<1>4. inflightCount' = inflightCount + taken - Cardinality(dead)
  BY <1>3, ReturnedOnce
<1> QED
  BY <1>2, <1>4, TakeEffect

\* With a bearer, S looks up the host or is sent; dispatches that die are over, or
\* lose their slot for good.
LEMMA ProceedEffect ==
  ASSUME SlotInv, NEW S \in SUBSET Requests, NEW taken \in {0, 1}, Took(S, taken),
         NEW t \in Nat, NEW late, Proceed(S, t, taken, late)
  PROVE  /\ SlotEffect(S, taken)
         /\ bearer' = [r \in Requests |-> IF r \in S THEN t ELSE bearer[r]]
         /\ \A r \in S : phase'[r] \in {"host", "sent", "lost", "done"}
<1>1. bearer' = [r \in Requests |-> IF r \in S THEN t ELSE bearer[r]] /\ S \in SUBSET Jobs
  BY DEF Proceed
<1>2. PICK dead \in SUBSET S :
        \/ Dispatch(S, dead, "sent", taken)
        \/ Dispatch(S, dead, "host", taken)
        \/ /\ phase' = [j \in Jobs |-> IF j \in dead THEN "lost"
                                       ELSE IF j \in S THEN "host" ELSE phase[j]]
           /\ inflightCount' = inflightCount + taken
  BY DEF Proceed
<1>3. CASE Dispatch(S, dead, "sent", taken)
  BY <1>1, <1>3, DispatchEffect DEF Holding
<1>4. CASE Dispatch(S, dead, "host", taken)
  BY <1>1, <1>4, DispatchEffect DEF Holding
<1>5. CASE /\ phase' = [j \in Jobs |-> IF j \in dead THEN "lost"
                                       ELSE IF j \in S THEN "host" ELSE phase[j]]
           /\ inflightCount' = inflightCount + taken
  <2>1. phase \in [Jobs -> Phases] /\ inflightCount \in Int
    BY DEF SlotInv, TypeOK, Phases
  <2>2. /\ phase' \in [Jobs -> Phases]
        /\ \A j \in Jobs \ S : phase'[j] = phase[j]
        /\ \A j \in S : phase'[j] \in {"host", "lost"}
    BY <1>1, <1>5, <2>1 DEF Phases, Holding
  <2>3. Cardinality({}) = 0
    BY FS_EmptySet
  <2>4. inflightCount' = inflightCount + taken - Cardinality({})
    BY <1>5, <2>1, <2>3
  <2>5. \A j \in S \ {} : phase'[j] \in Holding
    BY <2>2 DEF Holding
  <2>6. SlotEffect(S, taken)
    BY <1>1, <2>2, <2>4, <2>5, TakeEffect
  <2> QED
    BY <1>1, <2>2, <2>6
<1> QED
  BY <1>2, <1>3, <1>4, <1>5

\* _doRequest: r ends up with a bearer, waiting for one, or over.
LEMMA DoRequestEffect ==
  ASSUME SlotInv, NEW r \in Requests, NEW cached \in Nat, NEW taken \in {0, 1},
         Took({r}, taken), DoRequest(r, cached, taken)
  PROVE  /\ SlotEffect({r}, taken)
         /\ answer' \in [Requests -> Login!States]
         /\ bearer' \in [Requests -> Nat]
         /\ \A i \in Requests \ {r} : answer'[i] = answer[i] /\ bearer'[i] = bearer[i]
         /\ bearer'[r] \in {bearer[r], cached}
         /\ phase'[r] \in Holding \cup {"done"}
         /\ answer'[r] = "waiting" => phase'[r] = "token"
         /\ phase'[r] \in {"host", "sent"} => cached # 0 /\ bearer'[r] = cached
<1>1. /\ answer \in [Requests -> Login!States] /\ bearer \in [Requests -> Nat]
      /\ {r} \in SUBSET Jobs
  BY DEF SlotInv, TypeOK, Login!TypeOK
<1>2. /\ answer' \in [Requests -> Login!States]
      /\ \A i \in Requests \ {r} : answer'[i] = answer[i]
      /\ answer'[r] = "token" => cached # 0
  BY <1>1 DEF DoRequest, Login!Ask, Login!States
<1>3. CASE answer'[r] = "token" /\ Proceed({r}, cached, taken, FALSE)
  <2>1. /\ SlotEffect({r}, taken)
        /\ bearer' = [i \in Requests |-> IF i \in {r} THEN cached ELSE bearer[i]]
        /\ phase'[r] \in {"host", "sent", "lost", "done"}
    <3>1. PICK late \in BOOLEAN : Proceed({r}, cached, taken, late)
      BY <1>3
    <3>2. {r} \in SUBSET Requests
      OBVIOUS
    <3> QED
      BY <3>1, <3>2, ProceedEffect
  <2>2. bearer' \in [Requests -> Nat] /\ bearer'[r] = cached
    BY <1>1, <2>1
  <2>3. \A i \in Requests \ {r} : bearer'[i] = bearer[i]
    BY <2>1
  <2>4. phase'[r] \in Holding \cup {"done"}
    BY <2>1 DEF Holding
  <2>5. answer'[r] # "waiting" /\ cached # 0
    BY <1>2, <1>3
  <2> QED
    BY <1>2, <2>1, <2>2, <2>3, <2>4, <2>5
<1>4. CASE /\ answer'[r] = "failed"
           /\ Dispatch({r}, {r}, "token", taken)
           /\ UNCHANGED bearer
  <2>1. SlotEffect({r}, taken) /\ phase'[r] = "done"
    BY <1>1, <1>4, DispatchEffect DEF Holding
  <2> QED
    BY <1>1, <1>2, <1>4, <2>1
<1>5. CASE /\ answer'[r] = "waiting"
           /\ Dispatch({r}, {}, "token", taken)
           /\ UNCHANGED bearer
  <2>1. SlotEffect({r}, taken) /\ phase'[r] = "token"
    BY <1>1, <1>5, DispatchEffect DEF Holding
  <2> QED
    BY <1>1, <1>2, <1>5, <2>1 DEF Holding
<1> QED
  BY <1>3, <1>4, <1>5 DEF DoRequest

-----------------------------------------------------------------------------
(* The initial states, and steps that leave bearers alone.                 *)

LEMMA InitIInv == Init => IInv
<1> SUFFICES ASSUME Init PROVE IInv
  OBVIOUS
<1> USE DEF Init
<1>1. Holders = {} /\ Cardinality(Holders) = 0
  BY FS_EmptySet DEF Holders, Holding
<1>2. TypeOK
  <2>1. Cardinality(Jobs) \in Nat
    BY FS_CardinalityType
  <2>2. Login!TypeOK
    BY DEF Login!Init, Login!TypeOK, Login!States
  <2>3. forgotten \in 0 .. Cardinality(Jobs)
    BY <2>1
  <2>4. token \in Nat /\ minted \in Nat
    OBVIOUS
  <2>5. /\ phase \in [Jobs -> Holding \cup {"idle", "delayed", "late", "done"}]
        /\ bearer \in [Requests -> Nat]
        /\ retried \in [Requests -> BOOLEAN]
    OBVIOUS
  <2>6. rejected \in [Requests -> SUBSET Nat]
    OBVIOUS
  <2>7. boots \in 0 .. MaxBoots /\ inflightCount \in Int
    OBVIOUS
  <2>8. /\ rateLimited \in BOOLEAN /\ unauth \in BOOLEAN /\ hostCached \in BOOLEAN
        /\ stored \in BOOLEAN
    OBVIOUS
  <2> QED
    BY <2>2, <2>3, <2>4, <2>5, <2>6, <2>7, <2>8 DEF TypeOK
<1>3. SlotsAccounted /\ CapRespected
  BY <1>1 DEF SlotsAccounted, CapRespected
<1>4. WaitersHold /\ BearersMinted /\ RejectedOnce /\ RetryIsFresh
  BY DEF WaitersHold, BearersMinted, RejectedOnce, RetryIsFresh, Login!Init
<1> QED
  BY <1>2, <1>3, <1>4 DEF IInv, SlotInv

\* No request but one that is refused, put off, sent or over goes on to another
\* phase, and no bearer appears or is rejected.
Quiet ==
  /\ UNCHANGED <<answer, minted, bearer, rejected, retried>>
  /\ token' \in {token, 0}
  /\ \A r \in Requests :
       \/ phase'[r] = phase[r]
       \/ phase[r] \in {"idle", "delayed"} /\ phase'[r] = "delayed"
       \/ phase[r] = "host" /\ phase'[r] = "sent"
       \/ phase[r] \in {"idle", "delayed", "host", "sent"} /\ phase'[r] = "done"

\* Quiet steps keep what is known of bearers.
LEMMA QuietStep ==
  ASSUME IInv, Quiet
  PROVE  WaitersHold' /\ BearersMinted' /\ RejectedOnce' /\ RetryIsFresh'
<1> USE DEF IInv, SlotInv, Quiet
<1>1. WaitersHold'
  BY DEF WaitersHold
<1>2. BearersMinted'
  BY DEF BearersMinted, TypeOK
<1>3. RejectedOnce'
  <2> SUFFICES ASSUME NEW r \in Requests
               PROVE  \/ phase'[r] = "done" /\ IsFiniteSet(rejected[r]) /\ Cardinality(rejected[r]) <= 2
                      \/ ~retried[r] /\ rejected[r] = {}
                      \/ /\ retried[r]
                         /\ phase'[r] \in Holding
                         /\ \E t \in 0 .. minted : rejected[r] = {t}
    BY DEF RejectedOnce
  <2>1. \A t : IsFiniteSet({t}) /\ Cardinality({t}) = 1
    BY FS_Singleton
  <2>2. CASE phase[r] = "done" /\ IsFiniteSet(rejected[r]) /\ Cardinality(rejected[r]) <= 2
    BY <2>2
  <2>3. CASE ~retried[r] /\ rejected[r] = {}
    BY <2>3
  <2>4. CASE /\ retried[r]
             /\ phase[r] \in Holding
             /\ \E t \in 0 .. minted : rejected[r] = {t}
    <3>1. phase'[r] \in Holding \/ phase'[r] = "done"
      BY <2>4 DEF Holding
    <3>2. PICK t \in 0 .. minted : rejected[r] = {t}
      BY <2>4
    <3>3. IsFiniteSet(rejected[r]) /\ Cardinality(rejected[r]) = 1
      BY <2>1, <3>2, Zenon
    <3> QED
      BY <2>4, <3>1, <3>3
  <2> QED
    BY <2>2, <2>3, <2>4 DEF RejectedOnce
<1>4. RetryIsFresh'
  BY DEF RetryIsFresh
<1> QED
  BY <1>1, <1>2, <1>3, <1>4


\* A quiet step with a slot effect keeps the invariant.
LEMMA QuietSafe ==
  ASSUME IInv, Quiet, NEW S \in SUBSET Jobs, NEW taken \in {0, 1}, SlotEffect(S, taken),
         taken = 1 => inflightCount < MaxConcurrent,
         UNCHANGED reloads,
         rateLimited' \in BOOLEAN, unauth' \in BOOLEAN, hostCached' \in BOOLEAN,
         stored' \in BOOLEAN
  PROVE  IInv'
<1>1. SlotsAccounted' /\ CapRespected'
  BY SlotEffectSafe DEF IInv
<1>2. TypeOK'
  <2>1. TypeOK
    BY DEF IInv, SlotInv
  <2>2. inflightCount' \in Int /\ phase' \in [Jobs -> Phases]
    BY DEF SlotEffect
  <2>3. Login!TypeOK'
    BY <2>1 DEF TypeOK, Login!TypeOK, Quiet
  <2>4. /\ token' \in Nat /\ minted' \in Nat /\ bearer' \in [Requests -> Nat]
        /\ rejected' \in [Requests -> SUBSET Nat] /\ retried' \in [Requests -> BOOLEAN]
    BY <2>1 DEF TypeOK, Quiet
  <2>5. /\ boots' \in 0 .. MaxBoots /\ forgotten' \in 0 .. Cardinality(Jobs)
    BY <2>1 DEF TypeOK
  <2> QED
    BY <2>2, <2>3, <2>4, <2>5 DEF TypeOK, Phases
<1> QED
  BY <1>1, <1>2, QuietStep DEF IInv, SlotInv

\* A step that only looks at time or at the world.
LEMMA WorldStep ==
  ASSUME IInv, RateLapses \/ UnauthLapses \/ TokenExpires \/ StoredExpires \/ HostExpires
  PROVE  IInv'
<1>1. TypeOK
  BY DEF IInv, SlotInv
<1>2. SlotEffect({}, 0)
  <2>1. UNCHANGED slotVars
    BY DEF RateLapses, UnauthLapses, TokenExpires, StoredExpires, HostExpires
  <2>2. Holders' = Holders
    BY <2>1 DEF Holders, slotVars
  <2> QED
    BY <1>1, <2>1, <2>2, HoldersFinite DEF SlotEffect, slotVars, TypeOK, Phases
<1>3. Quiet
  BY DEF RateLapses, UnauthLapses, TokenExpires, StoredExpires, HostExpires, Quiet, slotVars, loginVars, reqVars
<1>4. /\ UNCHANGED reloads
      /\ rateLimited' \in BOOLEAN /\ unauth' \in BOOLEAN /\ hostCached' \in BOOLEAN
      /\ stored' \in BOOLEAN
  BY <1>1 DEF RateLapses, UnauthLapses, TokenExpires, StoredExpires, HostExpires, TypeOK
<1> QED
  BY <1>2, <1>3, <1>4, QuietSafe

\* A request that is answered for good: its slot is free again.
LEMMA HttpEndStep ==
  ASSUME IInv, NEW r \in Requests, HttpOk(r) \/ Http429(r) \/ HttpError(r)
  PROVE  IInv'
<1>1. TypeOK /\ SlotInv
  BY DEF IInv, SlotInv
<1>2. {r} \in SUBSET Holders /\ phase[r] = "sent" /\ Finish({r})
  BY DEF HttpOk, Http429, HttpError, Holders, Holding
<1>3. SlotEffect({r}, 0) /\ phase'[r] = "done"
  BY <1>1, <1>2, FinishEffect
<1>4. Quiet
  BY <1>2, <1>3 DEF HttpOk, Http429, HttpError, Quiet, loginVars, reqVars, SlotEffect
<1>5. /\ UNCHANGED reloads
      /\ rateLimited' \in BOOLEAN /\ unauth' \in BOOLEAN /\ hostCached' \in BOOLEAN
      /\ stored' \in BOOLEAN
  BY <1>1 DEF HttpOk, Http429, HttpError, TypeOK
<1> QED
  BY <1>3, <1>4, <1>5, QuietSafe

\* The host lookup: sent, or over.
LEMMA HostAnswerStep ==
  ASSUME IInv, NEW r \in Requests, HostAnswer(r)
  PROVE  IInv'
<1>1. TypeOK /\ SlotInv
  BY DEF IInv, SlotInv
<1>2. SlotEffect({r}, 0) /\ phase[r] = "host" /\ phase'[r] \in {"sent", "done"}
  <2>1. PICK dead \in SUBSET {r} : Dispatch({r}, dead, "sent", 0)
    BY DEF HostAnswer
  <2>2. phase[r] = "host" /\ {r} \in SUBSET Jobs /\ Took({r}, 0)
    BY DEF HostAnswer, Took, Holders, Holding
  <2> QED
    BY <1>1, <2>1, <2>2, DispatchEffect DEF Holding
<1>3. Quiet
  BY <1>2 DEF HostAnswer, Quiet, loginVars, reqVars, SlotEffect
<1>4. /\ UNCHANGED reloads
      /\ rateLimited' \in BOOLEAN /\ unauth' \in BOOLEAN /\ hostCached' \in BOOLEAN
      /\ stored' \in BOOLEAN
  BY <1>1 DEF HostAnswer, TypeOK
<1> QED
  BY <1>2, <1>3, <1>4, QuietSafe


\* A gated call takes a slot or none, and gives it back once.
LEMMA GateStep ==
  ASSUME IInv, NEW g \in Gated, Gate(g) \/ GateAnswer(g) \/ GateTimeout(g)
  PROVE  IInv'
<1>1. TypeOK /\ SlotInv /\ g \in Jobs /\ g \notin Requests
  BY DEF IInv, SlotInv
<1>2. /\ UNCHANGED reloads
      /\ UNCHANGED <<answer, token, minted, bearer, rejected, retried>>
      /\ rateLimited' \in BOOLEAN /\ unauth' \in BOOLEAN /\ hostCached' \in BOOLEAN
      /\ stored' \in BOOLEAN
  BY <1>1 DEF Gate, GateAnswer, GateTimeout, TypeOK, loginVars, reqVars
<1>3. ASSUME NEW taken \in {0, 1}, SlotEffect({g}, taken),
             taken = 1 => inflightCount < MaxConcurrent
      PROVE  IInv'
  <2>1. Quiet
    BY <1>1, <1>2, <1>3 DEF Quiet, SlotEffect
  <2> QED
    BY <1>1, <1>2, <1>3, <2>1, QuietSafe
<1>4. inflightCount \in Int /\ phase \in [Jobs -> Phases]
  BY <1>1 DEF TypeOK, Phases
<1>5. CASE Gate(g)
  <2>1. CASE Refuse(g) \/ Delay(g)
    <3>1. SlotEffect({g}, 0)
      BY <1>1, <1>5, <2>1, NoSlotEffect DEF Gate
    <3> QED
      BY <1>3, <3>1
  <2>2. CASE inflightCount < MaxConcurrent /\ \E dead \in SUBSET {g} : Dispatch({g}, dead, "running", 1)
    <3>1. PICK dead \in SUBSET {g} : Dispatch({g}, dead, "running", 1)
      BY <2>2
    <3>2. Took({g}, 1) /\ {g} \in SUBSET Jobs
      BY <1>1, <1>5 DEF Gate, Took
    <3>3. SlotEffect({g}, 1)
      BY <1>1, <3>1, <3>2, DispatchEffect DEF Holding
    <3> QED
      BY <1>3, <2>2, <3>3
  <2> QED
    BY <1>5, <2>1, <2>2 DEF Gate
<1>6. CASE GateAnswer(g) \/ GateTimeout(g)
  <2>1. CASE phase[g] = "running"
    <3>1. Holders' = Holders \ {g} /\ g \in Holders
      BY <1>1, <1>4, <1>6, <2>1 DEF GateAnswer, GateTimeout, Holders, Holding
    <3>2. Cardinality(Holders') = Cardinality(Holders) - 1
      BY <3>1, HoldersFinite, FS_RemoveElement
    <3>3. /\ phase' \in [Jobs -> Phases]
          /\ \A j \in Jobs \ {g} : phase'[j] = phase[j]
          /\ inflightCount' = inflightCount - 1
      <4>1. CASE GateAnswer(g)
        BY <1>1, <1>4, <2>1, <4>1 DEF GateAnswer, Phases
      <4>2. CASE GateTimeout(g)
        BY <1>1, <1>4, <2>1, <4>2 DEF GateTimeout, Phases
      <4> QED
        BY <1>6, <4>1, <4>2
    <3>4. SlotEffect({g}, 0)
      BY <1>4, <3>2, <3>3, HoldersFinite DEF SlotEffect
    <3> QED
      BY <1>3, <3>4
  <2>2. CASE phase[g] = "late"
    <3>1. Holders' = Holders
      BY <1>1, <1>4, <1>6, <2>2 DEF GateAnswer, GateTimeout, Holders, Holding
    <3>2. SlotEffect({g}, 0)
      BY <1>1, <1>4, <1>6, <2>2, <3>1, HoldersFinite
         DEF GateAnswer, GateTimeout, SlotEffect, Phases
    <3> QED
      BY <1>3, <3>2
  <2> QED
    BY <1>6, <2>1, <2>2 DEF GateAnswer, GateTimeout
<1> QED
  BY <1>5, <1>6

\* reset: the counter starts anew, and the slots held are the ones forgotten.
LEMMA ResetStep ==
  ASSUME IInv, Reset
  PROVE  IInv'
<1>1. TypeOK
  BY DEF IInv, SlotInv
<1>2. Holders' = Holders
  BY DEF Reset, Holders
<1>3. TypeOK'
  <2>1. forgotten' \in 0 .. Cardinality(Jobs)
    BY HoldersFinite, FS_CardinalityType DEF Reset
  <2>2. inflightCount' \in Int /\ boots' \in 0 .. MaxBoots
    BY <1>1 DEF Reset, TypeOK
  <2>6. rateLimited' \in BOOLEAN /\ hostCached' \in BOOLEAN
    BY DEF Reset
  <2>3. UNCHANGED <<phase, stored, answer, token, minted, bearer, rejected, retried, unauth>>
    BY DEF Reset, loginVars, reqVars
  <2>4. Login!TypeOK'
    BY <1>1, <2>3 DEF TypeOK, Login!TypeOK
  <2>5. /\ phase' \in [Jobs -> Holding \cup {"idle", "delayed", "late", "done"}]
        /\ stored' \in BOOLEAN /\ token' \in Nat /\ minted' \in Nat
        /\ bearer' \in [Requests -> Nat] /\ rejected' \in [Requests -> SUBSET Nat]
        /\ retried' \in [Requests -> BOOLEAN] /\ unauth' \in BOOLEAN
    BY <1>1, <2>3 DEF TypeOK
  <2> QED
    BY <2>1, <2>2, <2>4, <2>5, <2>6 DEF TypeOK
<1>4. SlotsAccounted' /\ CapRespected'
  BY <1>2, HoldersFinite DEF Reset, SlotsAccounted, CapRespected
<1>5. Quiet
  BY DEF Reset, Quiet, loginVars, reqVars
<1> QED
  BY <1>3, <1>4, <1>5, QuietStep DEF IInv, SlotInv


-----------------------------------------------------------------------------
(* Steps that ask for a bearer or get one.                                 *)

\* A request that enters _doRequest -- for the first time, or on its retry with
\* the cached bearer gone -- keeps the invariant.
LEMMA AskSafe ==
  ASSUME IInv, NEW r \in Requests, NEW cached \in Nat, NEW taken \in {0, 1},
         Took({r}, taken), DoRequest(r, cached, taken),
         taken = 1 => inflightCount < MaxConcurrent,
         cached <= minted, minted' = minted, token' \in {token, 0},
         rejected' \in [Requests -> SUBSET Nat], retried' \in [Requests -> BOOLEAN],
         \A i \in Requests \ {r} : rejected'[i] = rejected[i] /\ retried'[i] = retried[i],
         \/ rejected'[r] = {} /\ ~retried'[r]
         \/ retried'[r] /\ cached = 0 /\ \E t \in 0 .. minted : rejected'[r] = {t},
         UNCHANGED <<stored, rateLimited, unauth, hostCached, reloads>>
  PROVE  IInv'
<1>1. TypeOK /\ SlotInv
  BY DEF IInv, SlotInv
<1>2. /\ SlotEffect({r}, taken)
      /\ answer' \in [Requests -> Login!States]
      /\ bearer' \in [Requests -> Nat]
      /\ \A i \in Requests \ {r} : answer'[i] = answer[i] /\ bearer'[i] = bearer[i]
      /\ bearer'[r] \in {bearer[r], cached}
      /\ phase'[r] \in Holding \cup {"done"}
      /\ answer'[r] = "waiting" => phase'[r] = "token"
      /\ phase'[r] \in {"host", "sent"} => cached # 0 /\ bearer'[r] = cached
  BY <1>1, DoRequestEffect, ZenonT(60)
<1>3. \A i \in Requests \ {r} : phase'[i] = phase[i]
  BY <1>2 DEF SlotEffect
<1>4. SlotsAccounted' /\ CapRespected'
  BY <1>1, <1>2, SlotEffectSafe
<1>5. TypeOK'
  <2>1. inflightCount' \in Int /\ phase' \in [Jobs -> Phases]
    BY <1>2 DEF SlotEffect
  <2>2. Login!TypeOK'
    BY <1>2 DEF Login!TypeOK
  <2>3. /\ token' \in Nat /\ minted' \in Nat /\ rateLimited' \in BOOLEAN
        /\ unauth' \in BOOLEAN /\ hostCached' \in BOOLEAN
        /\ stored' \in BOOLEAN
        /\ boots' \in 0 .. MaxBoots /\ forgotten' \in 0 .. Cardinality(Jobs)
    BY <1>1 DEF TypeOK
  <2> QED
    BY <1>2, <2>1, <2>2, <2>3 DEF TypeOK, Phases
<1>6. WaitersHold'
  BY <1>2, <1>3 DEF IInv, WaitersHold
<1>7. BearersMinted'
  <2>1. token' <= minted'
    BY <1>1 DEF IInv, BearersMinted, TypeOK
  <2>2. \A i \in Requests : bearer'[i] <= minted
    BY <1>2 DEF IInv, BearersMinted
  <2>3. \A i \in Requests : rejected'[i] \subseteq 0 .. minted
    BY DEF IInv, BearersMinted
  <2> QED
    BY <2>1, <2>2, <2>3 DEF BearersMinted
<1>8. RejectedOnce'
  <2>1. \A t : IsFiniteSet({t}) /\ Cardinality({t}) = 1
    BY FS_Singleton
  <2>2. \/ phase'[r] = "done" /\ IsFiniteSet(rejected'[r]) /\ Cardinality(rejected'[r]) <= 2
        \/ ~retried'[r] /\ rejected'[r] = {}
        \/ /\ retried'[r]
           /\ phase'[r] \in Holding
           /\ \E t \in 0 .. minted' : rejected'[r] = {t}
    <3>1. CASE rejected'[r] = {} /\ ~retried'[r]
      BY <3>1
    <3>2. CASE retried'[r] /\ \E t \in 0 .. minted : rejected'[r] = {t}
      <4>1. PICK t \in 0 .. minted : rejected'[r] = {t}
        BY <3>2
      <4>2. IsFiniteSet(rejected'[r]) /\ Cardinality(rejected'[r]) = 1
        BY <2>1, <4>1, Zenon
      <4>3. phase'[r] \in Holding \/ phase'[r] = "done"
        BY <1>2
      <4> QED
        BY <3>2, <4>2, <4>3
    <3> QED
      BY <3>1, <3>2
  <2>3. \A i \in Requests \ {r} :
          \/ phase'[i] = "done" /\ IsFiniteSet(rejected'[i]) /\ Cardinality(rejected'[i]) <= 2
          \/ ~retried'[i] /\ rejected'[i] = {}
          \/ /\ retried'[i]
             /\ phase'[i] \in Holding
             /\ \E t \in 0 .. minted' : rejected'[i] = {t}
    BY <1>3 DEF IInv, RejectedOnce
  <2> QED
    BY <2>2, <2>3 DEF RejectedOnce
<1>9. RetryIsFresh'
  <2>1. phase'[r] \in {"host", "sent"} => bearer'[r] \notin rejected'[r]
    BY <1>2
  <2>2. \A i \in Requests \ {r} :
          phase'[i] \in {"host", "sent"} => bearer'[i] \notin rejected'[i]
    BY <1>2, <1>3 DEF IInv, RetryIsFresh
  <2> QED
    BY <2>1, <2>2 DEF RetryIsFresh
<1> QED
  BY <1>4, <1>5, <1>6, <1>7, <1>8, <1>9 DEF IInv, SlotInv


\* _request: refused, put off, or dispatched with a slot.
LEMMA RequestStep ==
  ASSUME IInv, NEW r \in Requests, Request(r)
  PROVE  IInv'
<1>1. TypeOK /\ SlotInv /\ r \in Jobs
  BY DEF IInv, SlotInv
<1>2. UNCHANGED <<rejected, retried, stored, rateLimited, unauth, hostCached, reloads>>
  BY DEF Request
<1>3. phase[r] \in {"idle", "delayed"}
  BY DEF Request
<1>4. CASE (Refuse(r) \/ Delay(r)) /\ UNCHANGED <<loginVars, bearer>>
  <2>1. SlotEffect({r}, 0) /\ phase'[r] \in {"done", "delayed"}
    BY <1>1, <1>3, <1>4, NoSlotEffect
  <2>2. Quiet
    BY <1>2, <1>3, <1>4, <2>1 DEF Quiet, SlotEffect, loginVars
  <2>3. /\ rateLimited' \in BOOLEAN /\ unauth' \in BOOLEAN /\ hostCached' \in BOOLEAN
        /\ stored' \in BOOLEAN
    BY <1>1, <1>2 DEF TypeOK
  <2>4. UNCHANGED reloads
    BY <1>2
  <2> QED
    BY <1>1, <2>1, <2>2, <2>3, <2>4, QuietSafe
<1>5. CASE /\ inflightCount < MaxConcurrent
           /\ DoRequest(r, token, 1)
           /\ UNCHANGED <<token, minted>>
  <2>1. Took({r}, 1)
    BY <1>3 DEF Took
  <2>2. token \in Nat /\ token <= minted
    BY <1>1 DEF TypeOK, IInv, BearersMinted
  <2>3. rejected[r] = {} /\ ~retried[r]
    BY <1>3 DEF IInv, RejectedOnce, Holding
  <2>4. rejected' \in [Requests -> SUBSET Nat] /\ retried' \in [Requests -> BOOLEAN]
    BY <1>1, <1>2 DEF TypeOK
  <2> QED
    BY <1>2, <1>5, <2>1, <2>2, <2>3, <2>4, AskSafe
<1> QED
  BY <1>4, <1>5 DEF Request

\* A 401: reported, or retried with the cached bearer gone.
LEMMA Http401Step ==
  ASSUME IInv, NEW r \in Requests, Http401(r)
  PROVE  IInv'
<1>1. TypeOK /\ SlotInv /\ r \in Jobs
  BY DEF IInv, SlotInv
<1>2. /\ phase[r] = "sent" /\ {r} \in SUBSET Holders
      /\ rejected' = [rejected EXCEPT ![r] = @ \cup {bearer[r]}]
      /\ token' = TokenAfter401
      /\ UNCHANGED <<stored, rateLimited, hostCached, reloads>>
  BY DEF Http401, Holders, Holding
<1>3. rejected' \in [Requests -> SUBSET Nat] /\ bearer[r] \in 0 .. minted
  BY <1>1, <1>2 DEF TypeOK, IInv, BearersMinted
<1>4. CASE /\ ~unauth /\ ~retried[r]
           /\ retried' = [retried EXCEPT ![r] = TRUE]
           /\ DoRequest(r, TokenAfter401, 0)
           /\ UNCHANGED <<minted, unauth>>
  <2>1. TokenAfter401 = 0
    BY <1>4 DEF TokenAfter401
  <2>2. Took({r}, 0)
    BY <1>2 DEF Took
  <2>3. rejected[r] = {}
    BY <1>2, <1>4 DEF IInv, RejectedOnce
  <2>4. /\ retried'[r] /\ rejected'[r] = {bearer[r]}
        /\ retried' \in [Requests -> BOOLEAN]
        /\ \A i \in Requests \ {r} : rejected'[i] = rejected[i] /\ retried'[i] = retried[i]
    BY <1>1, <1>2, <1>4, <2>3 DEF TypeOK
  <2>5. 0 <= minted
    BY <1>1 DEF TypeOK
  <2>6. \E t \in 0 .. minted : rejected'[r] = {t}
    BY <1>3, <2>4
  <2>7. DoRequest(r, 0, 0)
    BY <1>4, <2>1
  <2>8. UNCHANGED <<stored, rateLimited, unauth, hostCached, reloads>> /\ minted' = minted /\ token' \in {token, 0}
    BY <1>2, <1>4, <2>1
  <2> QED
    BY <1>3, <2>2, <2>4, <2>5, <2>6, <2>7, <2>8, AskSafe
<1>5. CASE /\ unauth' = TRUE /\ Finish({r})
           /\ UNCHANGED <<answer, minted, bearer, retried>>
  <2>1. SlotEffect({r}, 0) /\ phase'[r] = "done"
    BY <1>1, <1>2, <1>5, FinishEffect
  <2>2. \A i \in Requests \ {r} : phase'[i] = phase[i] /\ rejected'[i] = rejected[i]
    BY <1>1, <1>2, <2>1 DEF SlotEffect, TypeOK
  <2>3. rejected'[r] = rejected[r] \cup {bearer[r]}
    BY <1>1, <1>2 DEF TypeOK
  <2>4. token' \in {token, 0}
    BY <1>2 DEF TokenAfter401
  <2>5. SlotsAccounted' /\ CapRespected'
    BY <1>1, <1>2, <2>1, SlotEffectSafe
  <2>6. TypeOK'
    <3>1. inflightCount' \in Int /\ phase' \in [Jobs -> Phases]
      BY <2>1 DEF SlotEffect
    <3>2. Login!TypeOK'
      BY <1>1, <1>5 DEF TypeOK, Login!TypeOK
    <3>3. /\ token' \in Nat /\ minted' \in Nat /\ bearer' \in [Requests -> Nat]
          /\ retried' \in [Requests -> BOOLEAN] /\ rateLimited' \in BOOLEAN
          /\ unauth' \in BOOLEAN /\ hostCached' \in BOOLEAN
          /\ stored' \in BOOLEAN
          /\ boots' \in 0 .. MaxBoots /\ forgotten' \in 0 .. Cardinality(Jobs)
      BY <1>1, <1>2, <1>5, <2>4 DEF TypeOK
    <3> QED
      BY <1>3, <3>1, <3>2, <3>3 DEF TypeOK, Phases
  <2>7. WaitersHold'
    BY <1>2, <1>5, <2>2 DEF IInv, WaitersHold
  <2>8. BearersMinted'
    <3>1. token' <= minted'
      BY <1>1, <1>5, <2>4 DEF TypeOK, IInv, BearersMinted
    <3>2. \A i \in Requests : bearer'[i] <= minted' /\ rejected'[i] \subseteq 0 .. minted'
      BY <1>3, <1>5, <2>2, <2>3 DEF IInv, BearersMinted
    <3> QED
      BY <3>1, <3>2 DEF BearersMinted
  <2>9. RejectedOnce'
    <3>1. IsFiniteSet(rejected'[r]) /\ Cardinality(rejected'[r]) <= 2
      <4>1. rejected[r] = {} \/ \E t \in 0 .. minted : rejected[r] = {t}
        BY <1>2 DEF IInv, RejectedOnce
      <4>2. IsFiniteSet(rejected[r]) /\ Cardinality(rejected[r]) \in 0 .. 1
        <5>1. CASE rejected[r] = {}
          BY <5>1, FS_EmptySet
        <5>2. CASE \E t \in 0 .. minted : rejected[r] = {t}
          <6>1. PICK t \in 0 .. minted : rejected[r] = {t}
            BY <5>2
          <6>2. IsFiniteSet({t}) /\ Cardinality({t}) = 1
            BY FS_Singleton
          <6>3. IsFiniteSet(rejected[r]) /\ Cardinality(rejected[r]) = 1
            BY <6>1, <6>2, Zenon
          <6> QED
            BY <6>3
        <5> QED
          BY <4>1, <5>1, <5>2
      <4>3. /\ IsFiniteSet(rejected[r] \cup {bearer[r]})
            /\ \/ Cardinality(rejected[r] \cup {bearer[r]}) = Cardinality(rejected[r])
               \/ Cardinality(rejected[r] \cup {bearer[r]}) = Cardinality(rejected[r]) + 1
        BY <4>2, FS_AddElement
      <4> QED
        BY <2>3, <4>2, <4>3
    <3>2. \A i \in Requests \ {r} :
            \/ phase'[i] = "done" /\ IsFiniteSet(rejected'[i]) /\ Cardinality(rejected'[i]) <= 2
            \/ ~retried'[i] /\ rejected'[i] = {}
            \/ /\ retried'[i]
               /\ phase'[i] \in Holding
               /\ \E t \in 0 .. minted' : rejected'[i] = {t}
      BY <1>5, <2>2 DEF IInv, RejectedOnce
    <3> QED
      BY <2>1, <3>1, <3>2 DEF RejectedOnce
  <2>10. RetryIsFresh'
    BY <1>5, <2>1, <2>2 DEF IInv, RetryIsFresh
  <2> QED
    BY <2>5, <2>6, <2>7, <2>8, <2>9, <2>10 DEF IInv, SlotInv
<1> QED
  BY <1>4, <1>5 DEF Http401


\* Login5's answer: everyone in S fails, or goes on with the bearer just minted.
LEMMA TokenAnswerStep ==
  ASSUME IInv, NEW S \in SUBSET Requests, TokenAnswer(S)
  PROVE  IInv'
<1>1. TypeOK /\ SlotInv /\ S \subseteq Jobs
  BY DEF IInv, SlotInv
<1>2. /\ \A r \in S : answer[r] = "waiting" /\ phase[r] = "token"
      /\ S \in SUBSET Holders
  BY DEF TokenAnswer, Login!Settle, IInv, WaitersHold, Holders, Holding
<1>3. UNCHANGED <<rejected, retried, stored, rateLimited, unauth, hostCached, reloads>>
  BY DEF TokenAnswer
<1>4. /\ answer' \in [Requests -> Login!States]
      /\ \A i \in Requests \ S : answer'[i] = answer[i]
      /\ \A i \in S : answer'[i] # "waiting"
  BY <1>1 DEF TokenAnswer, Login!Settle, Login!States, TypeOK, Login!TypeOK
<1>5. minted \in Nat /\ token <= minted
  BY <1>1 DEF TypeOK, IInv, BearersMinted
<1>6. /\ SlotEffect(S, 0)
      /\ \A r \in S : /\ phase'[r] \in {"host", "sent", "lost", "done"}
                      /\ bearer'[r] \in {bearer[r], minted'}
                      /\ phase'[r] # "done" => bearer'[r] = minted + 1
      /\ \A r \in Requests \ S : bearer'[r] = bearer[r]
      /\ bearer' \in [Requests -> Nat]
      /\ token' \in Nat /\ minted' \in Nat /\ token' <= minted' /\ minted <= minted'
  <2>1. CASE Finish(S) /\ UNCHANGED <<token, minted, bearer>>
    <3>1. SlotEffect(S, 0) /\ \A j \in S : phase'[j] = "done"
      BY <1>1, <1>2, <2>1, FinishEffect
    <3> QED
      BY <1>1, <1>5, <2>1, <3>1 DEF TypeOK
  <2>2. CASE minted' = minted + 1 /\ token' = minted + 1 /\ Proceed(S, minted + 1, 0, TRUE)
    <3>1. Took(S, 0) /\ minted + 1 \in Nat
      BY <1>2, <1>5 DEF Took
    <3>2. /\ SlotEffect(S, 0)
          /\ bearer' = [r \in Requests |-> IF r \in S THEN minted + 1 ELSE bearer[r]]
          /\ \A r \in S : phase'[r] \in {"host", "sent", "lost", "done"}
      BY <1>1, <2>2, <3>1, ProceedEffect
    <3>3. bearer \in [Requests -> Nat]
      BY <1>1 DEF TypeOK
    <3> QED
      BY <1>5, <2>2, <3>1, <3>2, <3>3
  <2> QED
    BY <2>1, <2>2 DEF TokenAnswer
<1>7. \A i \in Requests \ S : phase'[i] = phase[i]
  BY <1>6 DEF SlotEffect
<1>8. SlotsAccounted' /\ CapRespected'
  BY <1>1, <1>3, <1>6, SlotEffectSafe
<1>9. TypeOK'
  <2>1. inflightCount' \in Int /\ phase' \in [Jobs -> Phases]
    BY <1>6 DEF SlotEffect
  <2>2. Login!TypeOK'
    BY <1>4 DEF Login!TypeOK
  <2>3. /\ rejected' \in [Requests -> SUBSET Nat] /\ retried' \in [Requests -> BOOLEAN]
        /\ rateLimited' \in BOOLEAN /\ unauth' \in BOOLEAN /\ hostCached' \in BOOLEAN
        /\ stored' \in BOOLEAN
        /\ boots' \in 0 .. MaxBoots /\ forgotten' \in 0 .. Cardinality(Jobs)
    BY <1>1, <1>3 DEF TypeOK
  <2> QED
    BY <1>6, <2>1, <2>2, <2>3 DEF TypeOK, Phases
<1>10. WaitersHold'
  BY <1>4, <1>7 DEF IInv, WaitersHold
<1>11. BearersMinted'
  <2>1. \A r \in Requests : bearer[r] <= minted /\ rejected[r] \subseteq 0 .. minted
    BY DEF IInv, BearersMinted
  <2>2. \A r \in Requests : bearer[r] \in Nat
    BY <1>1 DEF TypeOK
  <2>3. \A r \in Requests : bearer'[r] <= minted'
    BY <1>5, <1>6, <2>1, <2>2
  <2>4. \A r \in Requests : rejected'[r] \subseteq 0 .. minted'
    BY <1>3, <1>5, <1>6, <2>1
  <2> QED
    BY <1>6, <2>3, <2>4 DEF BearersMinted
<1>12. RejectedOnce'
  <2> SUFFICES ASSUME NEW r \in Requests
               PROVE  \/ phase'[r] = "done" /\ IsFiniteSet(rejected[r]) /\ Cardinality(rejected[r]) <= 2
                      \/ ~retried[r] /\ rejected[r] = {}
                      \/ /\ retried[r]
                         /\ phase'[r] \in Holding
                         /\ \E t \in 0 .. minted' : rejected[r] = {t}
    BY <1>3 DEF RejectedOnce
  <2>1. CASE phase[r] = "done" /\ IsFiniteSet(rejected[r]) /\ Cardinality(rejected[r]) <= 2
    BY <1>2, <1>7, <2>1
  <2>2. CASE ~retried[r] /\ rejected[r] = {}
    BY <2>2
  <2>3. CASE /\ retried[r]
             /\ phase[r] \in Holding
             /\ \E t \in 0 .. minted : rejected[r] = {t}
    <3>1. PICK t \in 0 .. minted : rejected[r] = {t}
      BY <2>3
    <3>2. IsFiniteSet({t}) /\ Cardinality({t}) = 1
      BY FS_Singleton
    <3>3. IsFiniteSet(rejected[r]) /\ Cardinality(rejected[r]) = 1
      BY <3>1, <3>2, Zenon
    <3>4. phase'[r] \in Holding \/ phase'[r] = "done"
      BY <1>6, <1>7, <2>3 DEF Holding
    <3>5. t \in 0 .. minted'
      BY <1>5, <1>6
    <3> QED
      BY <2>3, <3>1, <3>3, <3>4, <3>5
  <2> QED
    BY <2>1, <2>2, <2>3 DEF IInv, RejectedOnce
<1>13. RetryIsFresh'
  <2>1. \A r \in S : phase'[r] \in {"host", "sent"} => bearer'[r] \notin rejected'[r]
    BY <1>3, <1>5, <1>6 DEF IInv, BearersMinted
  <2>2. \A r \in Requests \ S :
          phase'[r] \in {"host", "sent"} => bearer'[r] \notin rejected'[r]
    BY <1>3, <1>6, <1>7 DEF IInv, RetryIsFresh
  <2> QED
    BY <2>1, <2>2 DEF RetryIsFresh
<1> QED
  BY <1>8, <1>9, <1>10, <1>11, <1>12, <1>13 DEF IInv, SlotInv

-----------------------------------------------------------------------------
(* The theorems.                                                           *)

LEMMA NextIInv == IInv /\ [Next]_vars => IInv'
<1> SUFFICES ASSUME IInv, [Next]_vars PROVE IInv'
  OBVIOUS
<1>1. ASSUME NEW r \in Requests,
             \/ Request(r) \/ HostAnswer(r)
             \/ HttpOk(r) \/ Http429(r) \/ HttpError(r) \/ Http401(r)
      PROVE  IInv'
  BY <1>1, RequestStep, HostAnswerStep, HttpEndStep, Http401Step
<1>2. ASSUME NEW S \in SUBSET Requests, TokenAnswer(S) PROVE IInv'
  BY <1>2, TokenAnswerStep
<1>3. ASSUME NEW g \in Gated, Gate(g) \/ GateAnswer(g) \/ GateTimeout(g) PROVE IInv'
  BY <1>3, GateStep
<1>4. CASE RateLapses \/ UnauthLapses \/ TokenExpires \/ StoredExpires \/ HostExpires
  BY <1>4, WorldStep
<1>5. CASE Reset
  BY <1>5, ResetStep
<1>6. CASE UNCHANGED vars
  BY <1>6 DEF vars, slotVars, loginVars, reqVars, IInv, SlotInv, TypeOK, Login!TypeOK,
              SlotsAccounted, CapRespected, Holders, WaitersHold,
              BearersMinted, RejectedOnce, RetryIsFresh
<1> QED
  BY <1>1, <1>2, <1>3, <1>4, <1>5, <1>6 DEF Next

\* The inductive invariant holds in every state of every behaviour.
THEOREM Invariance == Spec => []IInv
BY InitIInv, NextIInv, PTL DEF Spec

\* SpClient's state keeps its types.
THEOREM TypeCorrect == Spec => []TypeOK
<1>1. IInv => TypeOK
  BY DEF IInv, SlotInv
<1> QED
  BY <1>1, Invariance, PTL

\* The counter equals the slots held, less those a reload forgot, on every path of
\* every request and gated call, however many there are.
THEOREM SlotsAlwaysAccounted == Spec => []SlotsAccounted
<1>1. IInv => SlotsAccounted
  BY DEF IInv, SlotInv
<1> QED
  BY <1>1, Invariance, PTL

\* While no reload forgot a slot, MAX_CONCURRENT_REQUESTS is a cap.
THEOREM CapAlwaysRespected == Spec => []CapRespected
<1>1. IInv => CapRespected
  BY DEF IInv, SlotInv
<1> QED
  BY <1>1, Invariance, PTL

\* No request is sent again with a bearer it was rejected with.
THEOREM RetriesFresh == Spec => []RetryIsFresh
<1>1. IInv => RetryIsFresh
  BY DEF IInv
<1> QED
  BY <1>1, Invariance, PTL

\* A request is rejected at most twice, and the second rejection is its end.
THEOREM RemintOnce == Spec => []OneRemint
<1>1. IInv => OneRemint
  <2> SUFFICES ASSUME IInv, NEW r \in Requests
               PROVE  /\ Cardinality(rejected[r]) <= 2
                      /\ Cardinality(rejected[r]) = 2 => phase[r] = "done"
    BY DEF OneRemint
  <2>1. CASE phase[r] = "done" /\ Cardinality(rejected[r]) <= 2
    BY <2>1
  <2>2. CASE rejected[r] = {}
    BY <2>2, FS_EmptySet
  <2>3. CASE \E t \in 0 .. minted : rejected[r] = {t}
    <3>1. PICK t \in 0 .. minted : rejected[r] = {t}
      BY <2>3
    <3>2. Cardinality({t}) = 1
      BY FS_Singleton
    <3>3. Cardinality(rejected[r]) = 1
      BY <3>1, <3>2, Zenon
    <3> QED
      BY <3>3
  <2> QED
    BY <2>1, <2>2, <2>3 DEF IInv, RejectedOnce
<1> QED
  BY <1>1, Invariance, PTL

=============================================================================
