----------------------------- MODULE Login5Proofs -----------------------------
(***************************************************************************)
(* The safety properties of Login5, proved for any accounts, callers and   *)
(* bounds.  The inductive invariant adds to them that the slot of an       *)
(* account always names a mint of that account that is still outstanding,  *)
(* and that no mint was started in a generation or a plugin run to come.   *)
(***************************************************************************)
EXTENDS Login5, FiniteSetTheorems, TLAPS

InflightOwned ==
  \A a \in Accounts :
    inflight[a] # NoMint => Posted(inflight[a]) /\ mints[inflight[a]].acct = a

MintBounds ==
  \A m \in MintIds :
    Posted(m) => mints[m].gen <= credGen[mints[m].acct] /\ mints[m].boot <= boots

IInv ==
  /\ TypeOK
  /\ InflightOwned
  /\ MintBounds
  /\ TokenOfCurrentCredentials
  /\ NoStaleVerdict
  /\ SingleFlight
  /\ HealthChain

USE Login5Assumption DEF Login5Assumption

-----------------------------------------------------------------------------
(* Facts about single mints.                                               *)

\* A mint that was POSTed is a proper record, never Free.
LEMMA PostedType ==
  ASSUME TypeOK, NEW m \in MintIds
  PROVE  Posted(m) <=> mints[m] \in [acct: Accounts, gen: Generations,
                                     boot: 0 .. MaxBoots, queue: SUBSET Everyone]
BY DEF TypeOK, Posted, Free

\* The outcome recorded for a mint is one of the login states.
LEMMA RecordedStateType ==
  ASSUME NEW o \in Outcomes
  PROVE  /\ RecordedState(o) \in {"unknown", "ok", "invalid_credentials",
                                  "no_credentials", "transient"}
         /\ RecordedState(o) = "invalid_credentials" => o = "invalid_credentials"
BY DEF RecordedState, Outcomes, HttpFailures

LEMMA InitIInv == Init => IInv
<1> SUFFICES ASSUME Init PROVE IInv
  OBVIOUS
<1> USE DEF Init
<1>1. TypeOK
  <2>1. token \in [Accounts -> Generations \cup {NoToken}]
    BY DEF Generations, NoToken
  <2>2. credGen \in [Accounts -> Generations]
    BY DEF Generations
  <2>3. active \in Accounts \cup {NoAccount}
    OBVIOUS
  <2>4. boots \in 0 .. MaxBoots
    OBVIOUS
  <2> QED
    BY <2>1, <2>2, <2>3, <2>4 DEF TypeOK, NotDamped
<1>2. InflightOwned /\ MintBounds /\ SingleFlight
  BY DEF InflightOwned, MintBounds, SingleFlight, Posted
<1>3. TokenOfCurrentCredentials
  BY DEF TokenOfCurrentCredentials, NoToken
<1>4. NoStaleVerdict
  BY DEF NoStaleVerdict, NotDamped
<1>5. HealthChain
  BY DEF HealthChain
<1> QED
  BY <1>1, <1>2, <1>3, <1>4, <1>5 DEF IInv

-----------------------------------------------------------------------------
(* The mint.                                                               *)

Parts == TypeOK /\ InflightOwned /\ MintBounds /\ SingleFlight

\* MintToken keeps types, slots and bounds, and remembers no rejection.
LEMMA MintTokenStep ==
  ASSUME Parts, NEW c \in Everyone, NEW a \in Accounts, MintToken(c, a),
         UNCHANGED <<credVars, boots>>
  PROVE  /\ token' = token
         /\ loginState' \in [Accounts -> {"unknown", "ok", "invalid_credentials",
                                          "no_credentials", "transient"}]
         /\ \A b \in Accounts : loginState'[b] = "invalid_credentials"
                                  => loginState[b] = "invalid_credentials"
         /\ mints' \in [MintIds -> {Free} \cup
                          [acct: Accounts, gen: Generations, boot: 0 .. MaxBoots,
                           queue: SUBSET Everyone]]
         /\ inflight' \in [Accounts -> MintIds \cup {NoMint}]
         /\ answer' \in [Everyone -> Outcomes \cup {"idle", "waiting"}]
         /\ \A d \in Everyone : d # c => answer'[d] = answer[d]
         /\ InflightOwned' /\ MintBounds' /\ SingleFlight'
<1> USE DEF Parts
<1>1. CASE /\ inflight[a] # NoMint
           /\ mints' = [mints EXCEPT ![inflight[a]].queue = @ \cup {c}]
           /\ answer' = [answer EXCEPT ![c] = "waiting"]
           /\ UNCHANGED <<token, loginState, inflight>>
  <2> DEFINE i == inflight[a]
  <2>1. i \in MintIds /\ Posted(i) /\ mints[i].acct = a
    BY <1>1 DEF TypeOK, InflightOwned
  <2>2. mints[i] \in [acct: Accounts, gen: Generations, boot: 0 .. MaxBoots,
                      queue: SUBSET Everyone]
    BY <2>1, PostedType
  <2>3. /\ mints' = [mints EXCEPT ![i] = [mints[i] EXCEPT !.queue = @ \cup {c}]]
        /\ mints'[i] \in [acct: Accounts, gen: Generations, boot: 0 .. MaxBoots,
                          queue: SUBSET Everyone]
        /\ mints'[i].acct = mints[i].acct
        /\ mints'[i].gen = mints[i].gen
        /\ mints'[i].boot = mints[i].boot
    BY <1>1, <2>1, <2>2 DEF TypeOK
  <2>4. \A m \in MintIds : /\ Posted(m)' <=> Posted(m)
                           /\ mints'[m].acct = mints[m].acct
                           /\ mints'[m].gen = mints[m].gen
                           /\ mints'[m].boot = mints[m].boot
    BY <2>1, <2>3 DEF TypeOK, Posted, Free
  <2>5. InflightOwned' /\ MintBounds' /\ SingleFlight'
    BY <1>1, <2>4 DEF InflightOwned, MintBounds, SingleFlight, Stale, credVars, TypeOK
  <2> QED
    BY <1>1, <2>1, <2>3, <2>5 DEF TypeOK, Outcomes
<1>2. CASE /\ inflight[a] = NoMint
           /\ \E o \in IF cred[a] = "absent" THEN {"no_credentials", "mint_failed"}
                                             ELSE {"mint_failed"} :
                /\ loginState' = [loginState EXCEPT ![a] = RecordedState(o)]
                /\ answer' = [answer EXCEPT ![c] = o]
           /\ UNCHANGED <<token, mints, inflight>>
  <2>1. PICK o \in {"no_credentials", "mint_failed"} :
           /\ loginState' = [loginState EXCEPT ![a] = RecordedState(o)]
           /\ answer' = [answer EXCEPT ![c] = o]
    BY <1>2
  <2>2. o \in Outcomes /\ RecordedState(o) \in {"no_credentials", "unknown"}
    BY <2>1 DEF Outcomes, HttpFailures, RecordedState
  <2>3. InflightOwned' /\ MintBounds' /\ SingleFlight'
    BY <1>2 DEF InflightOwned, MintBounds, SingleFlight, Posted, Stale, credVars
  <2> QED
    BY <1>2, <2>1, <2>2, <2>3 DEF TypeOK
<1>3. CASE /\ inflight[a] = NoMint
           /\ cred[a] # "absent"
           /\ \E m \in MintIds :
                /\ ~Posted(m)
                /\ mints' = [mints EXCEPT ![m] = [acct |-> a, gen |-> credGen[a],
                                                  boot |-> boots, queue |-> {c}]]
                /\ inflight' = [inflight EXCEPT ![a] = m]
           /\ answer' = [answer EXCEPT ![c] = "waiting"]
           /\ UNCHANGED <<token, loginState>>
  <2>1. PICK m \in MintIds :
           /\ ~Posted(m)
           /\ mints' = [mints EXCEPT ![m] = [acct |-> a, gen |-> credGen[a],
                                             boot |-> boots, queue |-> {c}]]
           /\ inflight' = [inflight EXCEPT ![a] = m]
    BY <1>3
  <2>2. /\ mints'[m] = [acct |-> a, gen |-> credGen[a], boot |-> boots, queue |-> {c}]
        /\ mints'[m] \in [acct: Accounts, gen: Generations, boot: 0 .. MaxBoots,
                          queue: SUBSET Everyone]
        /\ \A n \in MintIds : n # m => mints'[n] = mints[n]
    BY <2>1 DEF TypeOK
  <2>3. /\ inflight'[a] = m
        /\ \A b \in Accounts : b # a => inflight'[b] = inflight[b]
    BY <2>1 DEF TypeOK
  <2>4. \A b \in Accounts : inflight[b] # m
    BY <2>1 DEF InflightOwned, TypeOK
  <2>5. Posted(m)'
    BY <2>2 DEF Posted, Free
  <2>6. InflightOwned'
    BY <2>2, <2>3, <2>4, <2>5 DEF InflightOwned, Posted, TypeOK
  <2>7. MintBounds'
    <3>1. MintBounds' <=> \A n \in MintIds :
            Posted(n)' => mints'[n].gen <= credGen[mints'[n].acct] /\ mints'[n].boot <= boots
      BY DEF MintBounds, credVars
    <3>2. credGen[a] \in Nat /\ boots \in Nat
      BY DEF TypeOK, Generations
    <3> QED
      BY <2>2, <3>1, <3>2 DEF MintBounds, Posted
  <2>8. SingleFlight'
    <3> SUFFICES ASSUME NEW n \in MintIds, Posted(n)', ~Stale(n)', mints'[n].boot = boots
                 PROVE  inflight'[mints'[n].acct] = n
      BY DEF SingleFlight
    <3>1. CASE n = m
      BY <2>2, <2>3, <3>1
    <3>2. CASE n # m
      <4>1. Posted(n) /\ ~Stale(n) /\ mints[n].boot = boots /\ mints[n] = mints'[n]
        BY <2>2, <3>2 DEF Posted, Stale, credVars
      <4>2. inflight[mints[n].acct] = n /\ mints[n].acct \in Accounts
        BY <4>1, PostedType DEF SingleFlight
      <4>3. mints[n].acct # a
        BY <1>3, <4>2
      <4> QED
        BY <2>3, <4>1, <4>2, <4>3
    <3> QED
      BY <3>1, <3>2
  <2> QED
    BY <1>3, <2>1, <2>2, <2>6, <2>7, <2>8 DEF TypeOK
<1> QED
  BY <1>1, <1>2, <1>3 DEF MintToken

-----------------------------------------------------------------------------
(* One lemma per kind of action: it keeps IInv.                            *)

LEMMA GetTokenStep ==
  ASSUME IInv, NEW c \in Callers, NEW a \in Accounts, GetToken(c, a)
  PROVE  IInv'
<1> USE DEF IInv
<1>0. c \in Everyone /\ c \notin Ticks
  BY DEF Everyone
<1>1. UNCHANGED <<credVars, healthVars>>
  BY DEF GetToken
<1>2. CASE UNCHANGED <<token, damped, loginState, mints, inflight>>
  <2>1. answer' \in [Everyone -> Outcomes \cup {"idle", "waiting"}]
        /\ \A d \in Everyone : d # c => answer'[d] = answer[d]
    <3>1. \E x \in Outcomes \cup {"idle", "waiting"} : answer' = [answer EXCEPT ![c] = x]
      <4>1. CASE answer' = [answer EXCEPT ![c] = "token"]
        BY <4>1 DEF Outcomes
      <4>2. CASE damped[a] # NotDamped /\ answer' = [answer EXCEPT ![c] = damped[a]]
        BY <4>2 DEF TypeOK, Outcomes
      <4>3. CASE MintToken(c, a)
        <5>1. CASE answer' = [answer EXCEPT ![c] = "waiting"]
          BY <5>1
        <5>2. CASE \E o \in {"no_credentials", "mint_failed"} : answer' = [answer EXCEPT ![c] = o]
          BY <5>2 DEF Outcomes, HttpFailures
        <5> QED
          BY <4>3, <5>1, <5>2 DEF MintToken
      <4> QED
        BY <4>1, <4>2, <4>3 DEF GetToken
    <3> QED
      BY <3>1, <1>0 DEF TypeOK
  <2>2. TypeOK'
    BY <1>1, <1>2, <2>1 DEF TypeOK, credVars, healthVars
  <2>3. HealthChain'
    BY <1>0, <1>1, <2>1 DEF HealthChain, healthVars, Waiting, Everyone
  <2> QED
    BY <1>1, <1>2, <2>2, <2>3 DEF InflightOwned, MintBounds, TokenOfCurrentCredentials,
       NoStaleVerdict, SingleFlight, Posted, Stale, credVars, healthVars
<1>3. CASE MintToken(c, a) /\ UNCHANGED damped
  <2>1. Parts /\ UNCHANGED <<credVars, boots>>
    BY <1>1 DEF Parts, healthVars
  <2>2. TypeOK' /\ token' = token
    BY <1>0, <1>1, <1>3, <2>1, MintTokenStep DEF TypeOK, credVars, healthVars
  <2>3. InflightOwned' /\ MintBounds' /\ SingleFlight'
    BY <1>0, <1>3, <2>1, MintTokenStep
  <2>4. NoStaleVerdict'
    BY <1>0, <1>1, <1>3, <2>1, MintTokenStep DEF NoStaleVerdict, credVars
  <2>5. HealthChain'
    BY <1>0, <1>1, <1>3, <2>1, MintTokenStep DEF HealthChain, healthVars, Waiting, Everyone
  <2>6. TokenOfCurrentCredentials'
    BY <1>1, <2>2 DEF TokenOfCurrentCredentials, credVars
  <2> QED
    BY <2>2, <2>3, <2>4, <2>5, <2>6
<1> QED
  BY <1>2, <1>3 DEF GetToken

LEMMA HealthTickStep ==
  ASSUME IInv, NEW t \in Ticks, HealthTick(t)
  PROVE  IInv'
<1> USE DEF IInv
<1>0. t \in Everyone /\ UNCHANGED <<credVars, netFailing, shut, boots, damped>>
  BY DEF Everyone, HealthTick, mintVars
<1>1. CASE /\ active = NoAccount
           /\ timer' = ~shut
           /\ UNCHANGED <<netFailing, shut, boots, mintVars>>
  <2>1. TypeOK'
    BY <1>0, <1>1 DEF TypeOK, credVars, mintVars
  <2>2. HealthChain'
    BY <1>1, <2>1 DEF HealthChain, TypeOK
  <2> QED
    BY <1>0, <1>1, <2>1, <2>2 DEF InflightOwned, MintBounds, TokenOfCurrentCredentials,
       NoStaleVerdict, SingleFlight, Posted, Stale, credVars, mintVars
<1>2. CASE /\ active # NoAccount
           /\ MintToken(t, active)
           /\ timer' = (answer'[t] # "waiting" /\ ~shut)
           /\ UNCHANGED <<damped, netFailing, shut, boots>>
  <2>1. Parts /\ active \in Accounts /\ UNCHANGED <<credVars, boots>>
    BY <1>0, <1>2 DEF Parts, TypeOK
  <2>2. TypeOK' /\ token' = token
    BY <1>0, <1>2, <2>1, MintTokenStep DEF TypeOK, credVars
  <2>3. InflightOwned' /\ MintBounds' /\ SingleFlight'
    BY <1>0, <1>2, <2>1, MintTokenStep
  <2>4. NoStaleVerdict'
    BY <1>0, <1>2, <2>1, MintTokenStep DEF NoStaleVerdict, credVars
  <2>5. HealthChain'
    <3>1. CASE shut
      BY <1>2, <3>1 DEF HealthChain
    <3>2. CASE ~shut /\ answer'[t] = "waiting"
      BY <1>2, <3>2 DEF HealthChain, Waiting
    <3>3. CASE ~shut /\ answer'[t] # "waiting"
      BY <1>2, <3>3 DEF HealthChain
    <3> QED
      BY <3>1, <3>2, <3>3
  <2>6. TokenOfCurrentCredentials'
    BY <1>0, <2>2 DEF TokenOfCurrentCredentials, credVars
  <2> QED
    BY <2>2, <2>3, <2>4, <2>5, <2>6
<1> QED
  BY <1>1, <1>2 DEF HealthTick

LEMMA AnswerStep ==
  ASSUME IInv, NEW m \in MintIds, NEW o \in Outcomes, Answer(m, o)
  PROVE  IInv'
<1> DEFINE a == mints[m].acct
<1> USE DEF IInv
<1>0. /\ Posted(m) /\ o \in PossibleAnswers(m)
      /\ CacheOutcome(m, o) /\ Resolve(m, o)
      /\ UNCHANGED <<credVars, shut, boots>>
  BY DEF Answer, TickDone, healthVars
<1>1. mints[m] \in [acct: Accounts, gen: Generations, boot: 0 .. MaxBoots,
                    queue: SUBSET Everyone]
  BY <1>0, PostedType
<1>2. o \in HttpFailures \cup {"token"}
  BY <1>0 DEF PossibleAnswers
<1>3. a \in Accounts /\ mints[m].gen \in Generations
  BY <1>1
<1>4. \A n \in MintIds : (Posted(n)' => n # m /\ Posted(n)) /\ (n # m => mints'[n] = mints[n])
  BY <1>0 DEF Resolve, TypeOK, Posted
<1>5. TypeOK'
  <2>1. token' \in [Accounts -> Generations \cup {NoToken}]
        /\ damped' \in [Accounts -> HttpFailures \cup {NotDamped}]
    <3>1. CASE Stale(m)
      BY <1>0, <3>1 DEF CacheOutcome, TypeOK
    <3>2. CASE ~Stale(m) /\ o = "token"
      BY <1>0, <1>3, <3>2 DEF CacheOutcome, TypeOK
    <3>3. CASE ~Stale(m) /\ o # "token"
      BY <1>0, <1>2, <1>3, <3>3 DEF CacheOutcome, TypeOK
    <3> QED
      BY <3>1, <3>2, <3>3
  <2>2. loginState' \in [Accounts -> {"unknown", "ok", "invalid_credentials",
                                      "no_credentials", "transient"}]
    BY <1>0, RecordedStateType DEF Resolve, TypeOK
  <2>3. /\ mints' \in [MintIds -> {Free} \cup [acct: Accounts, gen: Generations,
                                     boot: 0 .. MaxBoots, queue: SUBSET Everyone]]
        /\ inflight' \in [Accounts -> MintIds \cup {NoMint}]
        /\ answer' \in [Everyone -> Outcomes \cup {"idle", "waiting"}]
    BY <1>0 DEF Resolve, TypeOK
  <2>4. netFailing' \in BOOLEAN /\ timer' \in BOOLEAN
    BY DEF Answer, TickDone, ArmTimer, TypeOK, healthVars
  <2> QED
    BY <1>0, <2>1, <2>2, <2>3, <2>4 DEF TypeOK, credVars
<1>6. InflightOwned'
  <2> SUFFICES ASSUME NEW b \in Accounts, inflight'[b] # NoMint
               PROVE  mints'[inflight'[b]] # Free /\ mints'[inflight'[b]].acct = b
    BY DEF InflightOwned, Posted
  <2>1. inflight'[b] = inflight[b] /\ inflight[b] # m
    <3>1. CASE inflight[a] = m
      BY <1>0, <1>3, <3>1 DEF Resolve, TypeOK, InflightOwned
    <3>2. CASE inflight[a] # m
      BY <1>0, <1>3, <3>2 DEF Resolve, TypeOK, InflightOwned
    <3> QED
      BY <3>1, <3>2
  <2>2. inflight[b] \in MintIds
    BY <2>1 DEF TypeOK
  <2> QED
    BY <1>4, <2>1, <2>2 DEF InflightOwned, Posted
<1>7. MintBounds'
  BY <1>0, <1>4 DEF MintBounds, credVars
<1>8. TokenOfCurrentCredentials'
  <2>1. CASE Stale(m) \/ o # "token"
    BY <1>0, <2>1 DEF CacheOutcome, TokenOfCurrentCredentials, credVars
  <2>2. CASE ~Stale(m) /\ o = "token"
    BY <1>0, <1>3, <2>2 DEF CacheOutcome, TokenOfCurrentCredentials, credVars, Stale, TypeOK
  <2> QED
    BY <2>1, <2>2
<1>9. NoStaleVerdict'
  <2> SUFFICES ASSUME NEW b \in Accounts,
                      loginState'[b] = "invalid_credentials" \/ damped'[b] = "invalid_credentials"
               PROVE  cred[b] # "good"
    BY <1>0 DEF NoStaleVerdict, credVars
  <2>1. CASE loginState[b] = "invalid_credentials" \/ damped[b] = "invalid_credentials"
    BY <2>1 DEF NoStaleVerdict
  <2>2. CASE loginState[b] # "invalid_credentials" /\ damped[b] # "invalid_credentials"
    <3>1. ~Stale(m) /\ b = a /\ o = "invalid_credentials"
      <4>1. ~Stale(m)
        BY <1>0, <2>2 DEF Resolve, CacheOutcome
      <4>2. loginState' = [loginState EXCEPT ![a] = RecordedState(o)]
        BY <1>0, <4>1 DEF Resolve
      <4>3. \/ damped' = [damped EXCEPT ![a] = NotDamped]
            \/ damped' = [damped EXCEPT ![a] = o]
        BY <1>0, <4>1 DEF CacheOutcome
      <4> QED
        BY <1>3, <2>2, <4>1, <4>2, <4>3, RecordedStateType DEF TypeOK, NotDamped
    <3> QED
      BY <1>0, <3>1 DEF PossibleAnswers
  <2> QED
    BY <2>1, <2>2
<1>10. SingleFlight'
  <2> SUFFICES ASSUME NEW n \in MintIds, Posted(n)', ~Stale(n)', mints'[n].boot = boots
               PROVE  inflight'[mints'[n].acct] = n
    BY <1>0 DEF SingleFlight
  <2>1. Posted(n) /\ n # m /\ mints'[n] = mints[n]
    BY <1>4
  <2>2. inflight[mints[n].acct] = n /\ mints[n].acct \in Accounts
    BY <1>0, <2>1, PostedType DEF SingleFlight, Stale, credVars
  <2> QED
    BY <1>0, <1>3, <2>1, <2>2 DEF Resolve, TypeOK
<1>11. HealthChain'
  <2>1. CASE mints[m].queue \cap Ticks # {}
    BY <1>0, <2>1 DEF Answer, TickDone, ArmTimer, HealthChain
  <2>2. CASE mints[m].queue \cap Ticks = {}
    <3>1. \A t \in Ticks : t \in Everyone /\ answer'[t] = answer[t]
      BY <1>0, <2>2 DEF Resolve, Everyone
    <3> QED
      BY <2>2, <3>1 DEF Answer, HealthChain, Waiting, healthVars
  <2> QED
    BY <2>1, <2>2
<1> QED
  BY <1>5, <1>6, <1>7, <1>8, <1>9, <1>10, <1>11

\* Forgetting an account orphans its mints and empties its slot; the parts of
\* the invariant that do not mention the credentials themselves hold after it.
LEMMA ForgetAccountStep ==
  ASSUME IInv, NEW a \in Accounts, ForgetAccount(a), UNCHANGED healthVars
  PROVE  /\ credGen' \in [Accounts -> Generations]
         /\ token' \in [Accounts -> Generations \cup {NoToken}]
         /\ damped' \in [Accounts -> HttpFailures \cup {NotDamped}]
         /\ loginState' \in [Accounts -> {"unknown", "ok", "invalid_credentials",
                                          "no_credentials", "transient"}]
         /\ inflight' \in [Accounts -> MintIds \cup {NoMint}]
         /\ loginState'[a] = "unknown" /\ damped'[a] = NotDamped
         /\ \A b \in Accounts : b # a => loginState'[b] = loginState[b] /\ damped'[b] = damped[b]
         /\ InflightOwned' /\ MintBounds' /\ TokenOfCurrentCredentials' /\ SingleFlight'
<1> USE DEF IInv, ForgetAccount
<1>1. credGen[a] \in Generations /\ credGen[a] + 1 \in Generations /\ credGen[a] < credGen[a] + 1
  BY DEF TypeOK, Generations
<1>2. credGen' = [credGen EXCEPT ![a] = credGen[a] + 1] /\ credGen' \in [Accounts -> Generations]
  BY <1>1 DEF TypeOK
<1>3. /\ token' \in [Accounts -> Generations \cup {NoToken}]
      /\ damped' \in [Accounts -> HttpFailures \cup {NotDamped}]
      /\ loginState' \in [Accounts -> {"unknown", "ok", "invalid_credentials",
                                       "no_credentials", "transient"}]
      /\ inflight' \in [Accounts -> MintIds \cup {NoMint}]
      /\ loginState'[a] = "unknown" /\ damped'[a] = NotDamped
      /\ \A b \in Accounts : b # a => loginState'[b] = loginState[b] /\ damped'[b] = damped[b]
  BY DEF TypeOK
<1>4. InflightOwned'
  BY DEF TypeOK, InflightOwned, Posted
<1>5. \A m \in MintIds : Posted(m) =>
        /\ mints[m] = mints'[m]
        /\ mints[m].acct \in Accounts /\ mints[m].gen \in Nat
        /\ mints[m].gen <= credGen[mints[m].acct]
  BY PostedType DEF MintBounds, Generations
<1>6. MintBounds'
  <2> SUFFICES ASSUME NEW m \in MintIds, Posted(m)
               PROVE  mints[m].gen <= credGen'[mints[m].acct] /\ mints[m].boot <= boots'
    BY DEF MintBounds, Posted
  <2>1. CASE mints[m].acct = a
    BY <1>1, <1>2, <1>5, <2>1 DEF MintBounds, TypeOK, Generations, healthVars
  <2>2. CASE mints[m].acct # a
    BY <1>2, <1>5, <2>2 DEF MintBounds, TypeOK, healthVars
  <2> QED
    BY <2>1, <2>2
<1>7. TokenOfCurrentCredentials'
  BY <1>2 DEF TokenOfCurrentCredentials, TypeOK
<1>8. SingleFlight'
  <2> SUFFICES ASSUME NEW m \in MintIds, Posted(m), mints[m].gen = credGen'[mints[m].acct],
                      mints[m].boot = boots
               PROVE  inflight'[mints[m].acct] = m
    BY DEF SingleFlight, Posted, Stale, healthVars
  <2>1. mints[m].acct # a
    BY <1>1, <1>2, <1>5 DEF TypeOK, Generations
  <2>2. ~Stale(m)
    BY <1>2, <1>5, <2>1 DEF Stale, TypeOK
  <2> QED
    BY <1>5, <2>1, <2>2 DEF SingleFlight, TypeOK
<1> QED
  BY <1>2, <1>3, <1>4, <1>6, <1>7, <1>8

LEMMA PairStep ==
  ASSUME IInv, NEW a \in Accounts, Pair(a)
  PROVE  IInv'
<1> USE DEF IInv
<1>1. ForgetAccount(a) /\ UNCHANGED healthVars /\ mints' = mints /\ answer' = answer
  BY DEF Pair, ForgetAccount
<1>2. TypeOK'
  <2>1. cred' \in [Accounts -> {"absent", "good", "revoked"}]
        /\ known' \subseteq Accounts
        /\ active' \in Accounts \cup {NoAccount}
        /\ flagged' \in [Accounts -> BOOLEAN]
    BY DEF Pair, TypeOK
  <2> QED
    BY <1>1, <2>1, ForgetAccountStep DEF TypeOK, healthVars
<1>3. NoStaleVerdict'
  BY <1>1, ForgetAccountStep DEF NoStaleVerdict, Pair, NotDamped, TypeOK
<1>4. HealthChain'
  BY <1>1 DEF HealthChain, healthVars, Waiting
<1> QED
  BY <1>1, <1>2, <1>3, <1>4, ForgetAccountStep

LEMMA RemoveStep ==
  ASSUME IInv, NEW a \in Accounts, Remove(a)
  PROVE  IInv'
<1> USE DEF IInv
<1>1. ForgetAccount(a) /\ UNCHANGED <<healthVars, flagged>> /\ mints' = mints /\ answer' = answer
  BY DEF Remove, ForgetAccount
<1>2. /\ cred' \in [Accounts -> {"absent", "good", "revoked"}]
      /\ \A b \in Accounts : cred'[b] = "good" => cred[b] = "good"
  BY DEF Remove, TypeOK
<1>3. TypeOK'
  <2>1. known' \subseteq Accounts /\ active' \in Accounts \cup {NoAccount}
    BY DEF Remove, TypeOK
  <2> QED
    BY <1>1, <1>2, <2>1, ForgetAccountStep DEF TypeOK, healthVars
<1>4. NoStaleVerdict'
  BY <1>1, <1>2, ForgetAccountStep DEF NoStaleVerdict, NotDamped
<1>5. HealthChain'
  BY <1>1 DEF HealthChain, healthVars, Waiting
<1> QED
  BY <1>1, <1>3, <1>4, <1>5, ForgetAccountStep

LEMMA ReloadStep ==
  ASSUME IInv, Reload
  PROVE  IInv'
<1> USE DEF IInv
<1>1. boots \in Nat /\ boots' = boots + 1 /\ boots' \in 0 .. MaxBoots
  BY DEF Reload, TypeOK
<1>2. TypeOK'
  BY <1>1 DEF Reload, TypeOK, credVars
<1>3. InflightOwned'
  BY DEF InflightOwned, Reload
<1>4. \A m \in MintIds : Posted(m) => mints[m].boot \in Nat /\ mints[m].boot <= boots
  BY PostedType DEF MintBounds
<1>5. MintBounds'
  BY <1>1, <1>4 DEF MintBounds, Reload, credVars, Posted
<1>6. SingleFlight'
  <2>1. \A m \in MintIds : Posted(m) => mints'[m].boot # boots'
    BY <1>1, <1>4 DEF Reload
  <2> QED
    BY <2>1 DEF SingleFlight, Posted, Reload
<1>7. TokenOfCurrentCredentials' /\ NoStaleVerdict' /\ HealthChain'
  BY DEF TokenOfCurrentCredentials, NoStaleVerdict, HealthChain, Reload, credVars, NotDamped
<1> QED
  BY <1>2, <1>3, <1>5, <1>6, <1>7

\* The remaining actions leave the mints and the slots alone.
LEMMA OtherSteps ==
  ASSUME IInv,
         \/ \E a \in Accounts :
              \/ PairFails(a) \/ MarkNeedsPlaybackAuth(a) \/ TokenGone(a)
              \/ DampLapses(a) \/ Revoke(a)
         \/ Shutdown
         \/ UNCHANGED vars
  PROVE  IInv'
<1> USE DEF IInv
<1>1. /\ UNCHANGED <<credGen, mints, inflight, answer, loginState, boots>>
      /\ UNCHANGED healthVars \/ Shutdown
  BY DEF PairFails, MarkNeedsPlaybackAuth, TokenGone, DampLapses, Revoke, Shutdown,
         vars, credVars, mintVars, healthVars
<1>2. TypeOK'
  <2>1. CASE \E a \in Accounts : PairFails(a)
    BY <2>1 DEF TypeOK, PairFails, mintVars, healthVars
  <2>2. CASE \E a \in Accounts : MarkNeedsPlaybackAuth(a)
    BY <2>2 DEF TypeOK, MarkNeedsPlaybackAuth, mintVars, healthVars
  <2>3. CASE \E a \in Accounts : TokenGone(a)
    BY <2>3 DEF TypeOK, TokenGone, credVars, healthVars
  <2>4. CASE \E a \in Accounts : DampLapses(a)
    BY <2>4 DEF TypeOK, DampLapses, credVars, healthVars
  <2>5. CASE \E a \in Accounts : Revoke(a)
    BY <2>5 DEF TypeOK, Revoke, mintVars, healthVars
  <2>6. CASE Shutdown
    BY <2>6 DEF TypeOK, Shutdown, mintVars, credVars
  <2>7. CASE UNCHANGED vars
    BY <2>7 DEF TypeOK, vars, mintVars, credVars, healthVars
  <2> QED
    BY <2>1, <2>2, <2>3, <2>4, <2>5, <2>6, <2>7
<1>3. InflightOwned' /\ MintBounds' /\ SingleFlight'
  BY <1>1 DEF InflightOwned, MintBounds, SingleFlight, Posted, Stale
<1>4. \A b \in Accounts : token'[b] = token[b] \/ token'[b] = NoToken
  BY DEF PairFails, MarkNeedsPlaybackAuth, TokenGone, DampLapses, Revoke, Shutdown,
         vars, mintVars, TypeOK
<1>5. TokenOfCurrentCredentials'
  BY <1>1, <1>4 DEF TokenOfCurrentCredentials
<1>6. \A b \in Accounts : /\ damped'[b] = damped[b] \/ damped'[b] = NotDamped
                          /\ cred'[b] = "good" => cred[b] = "good"
  BY DEF PairFails, MarkNeedsPlaybackAuth, TokenGone, DampLapses, Revoke, Shutdown,
         vars, mintVars, credVars, TypeOK
<1>7. NoStaleVerdict'
  BY <1>1, <1>6 DEF NoStaleVerdict, NotDamped
<1>8. HealthChain'
  BY <1>1 DEF HealthChain, Waiting, healthVars, Shutdown
<1> QED
  BY <1>2, <1>3, <1>5, <1>7, <1>8

-----------------------------------------------------------------------------
(* The theorems.                                                           *)

LEMMA NextIInv == IInv /\ [Next]_vars => IInv'
BY GetTokenStep, AnswerStep, HealthTickStep, PairStep, RemoveStep, ReloadStep, OtherSteps
   DEF Next

\* Everything the invariant says holds in every reachable state.
THEOREM Invariance == Spec => []IInv
BY InitIInv, NextIInv, PTL DEF Spec

\* Type correctness of Login5.
THEOREM TypeCorrect == Spec => []TypeOK
BY Invariance, PTL DEF IInv

\* A cached token was always minted with the account's current credentials:
\* no answer to a mint of replaced credentials is ever cached.
THEOREM TokensAreCurrent == Spec => []TokenOfCurrentCredentials
BY Invariance, PTL DEF IInv

\* A rejection of replaced credentials is never remembered against new ones.
THEOREM VerdictsAreCurrent == Spec => []NoStaleVerdict
BY Invariance, PTL DEF IInv

\* At most one mint per credential generation and plugin run.
THEOREM MintsAreSingle == Spec => []SingleFlight
BY Invariance, PTL DEF IInv

\* The health chain is never lost and never outlives a shutdown.
THEOREM HealthChainKept == Spec => []HealthChain
BY Invariance, PTL DEF IInv

\* No step takes the active slot from an account whose login works.
THEOREM ActiveIsKept == Spec => WorkingActiveKept
<1> DEFINE Kept == \A a \in Accounts :
             active = a /\ cred[a] = "good" /\ ~flagged[a] /\ a \in known' => active' = a
<1>1. ASSUME IInv, Next, NEW a \in Accounts,
             active = a, cred[a] = "good", ~flagged[a], a \in known'
      PROVE  active' = a
  <2>1. HasValidLogin(a)
    BY <1>1 DEF IInv, NoStaleVerdict, HasValidLogin
  <2>2. CASE \E b \in Accounts : Pair(b)
    BY <1>1, <2>1, <2>2 DEF Pair
  <2>3. CASE \E b \in Accounts : Remove(b)
    BY <1>1, <2>3 DEF Remove
  <2>4. CASE UNCHANGED active
    BY <1>1, <2>4
  <2> QED
    BY <1>1, <2>2, <2>3, <2>4 DEF Next, GetToken, Answer, HealthTick, Shutdown, Reload,
       PairFails, MarkNeedsPlaybackAuth, TokenGone, DampLapses, Revoke, credVars
<1>2. IInv /\ [Next]_vars => [Kept]_vars
  BY <1>1
<1> QED
  BY <1>2, Invariance, PTL DEF Spec, WorkingActiveKept

-----------------------------------------------------------------------------
(* No caller is lost, and what callers see is a TokenService.  Both follow *)
(* from where callers sit: in the queue of the one mint they wait for.      *)

Queues(c) == {m \in MintIds : c \in mints[m].queue}

QueuesFit ==
  \A c \in Everyone :
    /\ Waiting(c) <=> Queues(c) # {}
    /\ \A m, n \in Queues(c) : m = n

\* An idle caller that asks for a token is answered at once, or joins exactly
\* one queue; nobody else moves.
LEMMA MintTokenQueues ==
  ASSUME TypeOK, InflightOwned, QueuesFit, NEW c \in Everyone, NEW a \in Accounts,
         MintToken(c, a), ~Waiting(c)
  PROVE  /\ QueuesFit'
         /\ \E x \in {"waiting", "no_credentials", "mint_failed"} :
              answer' = [answer EXCEPT ![c] = x]
<1>0. answer \in [Everyone -> Outcomes \cup {"idle", "waiting"}]
  BY DEF TypeOK
<1>1. \A m \in MintIds : c \notin mints[m].queue
  BY DEF QueuesFit, Queues
<1>2. CASE answer' = [answer EXCEPT ![c] = "waiting"]
  <2>1. PICK k \in MintIds :
          \A m \in MintIds : mints'[m].queue = IF m = k THEN mints[m].queue \cup {c}
                                                        ELSE mints[m].queue
    <3>1. CASE inflight[a] # NoMint /\ mints' = [mints EXCEPT ![inflight[a]].queue = @ \cup {c}]
      <4>1. inflight[a] \in MintIds /\ Posted(inflight[a])
        BY <3>1 DEF TypeOK, InflightOwned
      <4>2. mints[inflight[a]] \in [acct: Accounts, gen: Generations, boot: 0 .. MaxBoots,
                                    queue: SUBSET Everyone]
        BY <4>1, PostedType
      <4> QED
        BY <3>1, <4>1, <4>2 DEF TypeOK
    <3>2. ASSUME NEW m \in MintIds, ~Posted(m),
                 mints' = [mints EXCEPT ![m] = [acct |-> a, gen |-> credGen[a],
                                                boot |-> boots, queue |-> {c}]]
          PROVE  mints'[m].queue = mints[m].queue \cup {c}
                 /\ \A n \in MintIds : n # m => mints'[n].queue = mints[n].queue
      BY <3>2 DEF TypeOK, Posted, Free
    <3>3. ~ \E o \in {"no_credentials", "mint_failed"} : answer' = [answer EXCEPT ![c] = o]
      <4>1. answer'[c] = "waiting"
        BY <1>0, <1>2
      <4> QED
        BY <1>0, <4>1
    <3> QED
      BY <3>1, <3>2, <3>3 DEF MintToken
  <2>2. \A d \in Everyone : /\ d # c => answer'[d] = answer[d] /\ Queues(d)' = Queues(d)
                            /\ d = c => answer'[d] = "waiting" /\ Queues(d)' = {k}
    BY <1>0, <1>1, <1>2, <2>1 DEF Queues
  <2>3. \E x \in {"waiting", "no_credentials", "mint_failed"} : answer' = [answer EXCEPT ![c] = x]
    BY <1>2
  <2>4. ASSUME NEW d \in Everyone
        PROVE  /\ Waiting(d)' <=> Queues(d)' # {}
               /\ \A m, n \in Queues(d)' : m = n
    <3>1. CASE d = c
      BY <2>2, <3>1 DEF Waiting
    <3>2. CASE d # c
      BY <2>2, <3>2 DEF QueuesFit, Waiting
    <3> QED
      BY <3>1, <3>2
  <2>5. QueuesFit'
    BY <2>4 DEF QueuesFit
  <2> QED
    BY <2>3, <2>5
<1>3. CASE \E o \in {"no_credentials", "mint_failed"} : answer' = [answer EXCEPT ![c] = o]
  <2>1. PICK o \in {"no_credentials", "mint_failed"} : answer' = [answer EXCEPT ![c] = o]
    BY <1>3
  <2>2. o # "waiting" /\ UNCHANGED mints
    <3>1. answer'[c] # "waiting"
      BY <1>0, <2>1
    <3> QED
      BY <1>0, <2>1, <3>1 DEF MintToken
  <2>3. \A d \in Everyone : Waiting(d)' <=> Waiting(d)
    BY <1>0, <2>1, <2>2 DEF Waiting
  <2> QED
    BY <1>3, <2>2, <2>3 DEF QueuesFit, Queues
<1> QED
  BY <1>2, <1>3 DEF MintToken

\* Every step keeps callers in their queues: an answer empties one queue and
\* answers all who sat in it.
LEMMA QueuesFitStep ==
  ASSUME IInv, QueuesFit, [Next]_vars
  PROVE  QueuesFit'
<1> USE DEF IInv
<1>0. answer \in [Everyone -> Outcomes \cup {"idle", "waiting"}]
  BY DEF TypeOK
<1>1. CASE UNCHANGED <<mints, answer>>
  BY <1>1 DEF QueuesFit, Queues, Waiting
<1>2. ASSUME NEW c \in Callers, NEW a \in Accounts, GetToken(c, a)
      PROVE  QueuesFit'
  <2>1. c \in Everyone /\ ~Waiting(c)
    BY <1>2 DEF GetToken, Everyone
  <2>2. CASE MintToken(c, a)
    BY <2>1, <2>2, MintTokenQueues
  <2>3. CASE UNCHANGED mints /\ \E x \in Outcomes : answer' = [answer EXCEPT ![c] = x]
    <3>1. PICK x \in Outcomes : answer' = [answer EXCEPT ![c] = x]
      BY <2>3
    <3>2. \A d \in Everyone : Waiting(d)' <=> Waiting(d)
      BY <1>0, <2>1, <3>1 DEF Waiting, Outcomes, HttpFailures
    <3> QED
      BY <2>3, <3>2 DEF QueuesFit, Queues
  <2>4. damped[a] # NotDamped => damped[a] \in Outcomes
    BY DEF TypeOK, Outcomes
  <2>5. "token" \in Outcomes
    BY DEF Outcomes
  <2> QED
    BY <1>2, <2>2, <2>3, <2>4, <2>5 DEF GetToken
<1>3. ASSUME NEW t \in Ticks, HealthTick(t)
      PROVE  QueuesFit'
  <2>1. t \in Everyone /\ ~Waiting(t)
    BY <1>3 DEF HealthTick, Everyone
  <2>2. CASE active = NoAccount /\ UNCHANGED mintVars
    BY <1>1, <2>2 DEF mintVars
  <2>3. CASE active # NoAccount /\ MintToken(t, active)
    BY <2>1, <2>3, MintTokenQueues DEF TypeOK
  <2> QED
    BY <1>3, <2>2, <2>3 DEF HealthTick
<1>4. ASSUME NEW m \in MintIds, NEW o \in Outcomes, Answer(m, o)
      PROVE  QueuesFit'
  <2>1. o # "waiting"
    BY DEF Outcomes, HttpFailures
  <2>2. /\ answer' = [d \in Everyone |-> IF d \in mints[m].queue THEN o ELSE answer[d]]
        /\ mints' = [mints EXCEPT ![m] = Free]
    BY <1>4 DEF Answer, Resolve
  <2>3. \A d \in Everyone : Queues(d)' = Queues(d) \ {m}
    BY <2>2 DEF Queues, Free, TypeOK
  <2>4. ASSUME NEW d \in Everyone, d \in mints[m].queue
        PROVE  ~Waiting(d)' /\ Queues(d)' = {}
    <3>1. m \in Queues(d)
      BY <2>4 DEF Queues
    <3> QED
      BY <2>1, <2>2, <2>3, <2>4, <3>1 DEF QueuesFit, Waiting
  <2>5. ASSUME NEW d \in Everyone, d \notin mints[m].queue
        PROVE  (Waiting(d)' <=> Waiting(d)) /\ Queues(d)' = Queues(d)
    BY <2>2, <2>3, <2>5 DEF Queues, Waiting
  <2> QED
    BY <2>4, <2>5 DEF QueuesFit
<1>5. ASSUME NEW a \in Accounts, Pair(a) \/ Remove(a)
      PROVE  QueuesFit'
  BY <1>1, <1>5 DEF Pair, Remove, ForgetAccount
<1>6. CASE \/ Shutdown \/ Reload \/ UNCHANGED vars
           \/ \E a \in Accounts : \/ PairFails(a) \/ MarkNeedsPlaybackAuth(a) \/ TokenGone(a)
                                  \/ DampLapses(a) \/ Revoke(a)
  <2>1. UNCHANGED <<mints, answer>>
    BY <1>6 DEF Shutdown, Reload, vars, PairFails, MarkNeedsPlaybackAuth, TokenGone,
       DampLapses, Revoke, mintVars
  <2> QED
    BY <1>1, <2>1
<1> QED
  BY <1>2, <1>3, <1>4, <1>5, <1>6 DEF Next

LEMMA InitQueuesFit == Init => QueuesFit
BY DEF Init, QueuesFit, Queues, Waiting, Free

LEMMA QueuesInvariance == Spec => []QueuesFit
BY InitQueuesFit, QueuesFitStep, Invariance, PTL DEF Spec

\* A caller that was not answered yet sits in the queue of exactly one mint, a
\* caller that was in none: no forgotten account, reload or late answer of an
\* orphaned mint loses one or answers one twice.
THEOREM NobodyIsLost == Spec => []NoCallerLost
<1>1. ASSUME QueuesFit, NEW c \in Everyone
      PROVE  Cardinality(Queues(c)) = (IF Waiting(c) THEN 1 ELSE 0)
  <2>1. CASE Waiting(c)
    <3>1. PICK m \in Queues(c) : Queues(c) = {m}
      BY <1>1, <2>1 DEF QueuesFit
    <3> QED
      BY <2>1, <3>1, FS_Singleton
  <2>2. CASE ~Waiting(c)
    BY <1>1, <2>2, FS_EmptySet DEF QueuesFit
  <2> QED
    BY <2>1, <2>2
<1>2. QueuesFit => NoCallerLost
  BY <1>1 DEF NoCallerLost, Queues
<1> QED
  BY <1>2, QueuesInvariance, PTL

-----------------------------------------------------------------------------
(* Login5 implements TokenService, its fairness aside.                      *)

\* What a caller sees of its answer.
Told(x) == IF x \in {"idle", "waiting", "token"} THEN x ELSE "failed"
Seen == [c \in Everyone |-> Told(answer[c])]

LEMMA ToldType ==
  ASSUME NEW x
  PROVE  /\ x \in Outcomes => Told(x) \in {"token", "failed"}
         /\ x \notin Outcomes /\ x \in {"idle", "waiting"} => Told(x) = x
         /\ Told(x) = "waiting" <=> x = "waiting"
BY DEF Told, Outcomes, HttpFailures

\* One caller that was not waiting gets an answer or is queued.
LEMMA AskedStep ==
  ASSUME TypeOK, NEW c \in Everyone, ~Waiting(c), NEW x \in Outcomes \cup {"waiting"},
         answer' = [answer EXCEPT ![c] = x]
  PROVE  Service!Ask(c)
<1> DEFINE s == Told(x)
<1>1. s \in {"waiting", "token", "failed"}
  BY DEF Told, Outcomes, HttpFailures
<1>2. Seen[c] # "waiting"
  BY ToldType DEF Seen, Waiting
<1>3. Seen' = [Seen EXCEPT ![c] = s]
  <2> HIDE DEF s
  <2>1. \A d \in Everyone : answer'[d] = IF d = c THEN x ELSE answer[d]
    BY DEF TypeOK
  <2>2. \A d \in Everyone : Told(answer'[d]) = IF d = c THEN s ELSE Told(answer[d])
    BY <2>1 DEF s
  <2> QED
    BY <2>2 DEF Seen
<1> QED
  BY <1>1, <1>2, <1>3 DEF Service!Ask, Seen, Told

\* A step that leaves all answers alone is a stutter of the service.
LEMMA StutterStep ==
  ASSUME UNCHANGED answer
  PROVE  UNCHANGED Seen
BY DEF Seen

LEMMA MintTokenAsks ==
  ASSUME TypeOK, InflightOwned, QueuesFit, NEW c \in Everyone, NEW a \in Accounts,
         MintToken(c, a), ~Waiting(c)
  PROVE  Service!Ask(c)
<1>1. PICK x \in {"waiting", "no_credentials", "mint_failed"} : answer' = [answer EXCEPT ![c] = x]
  BY MintTokenQueues
<1>2. x \in Outcomes \cup {"waiting"}
  BY DEF Outcomes, HttpFailures
<1> QED
  BY <1>1, <1>2, AskedStep

\* An answer settles those who sat in the queue: all of them were waiting.
LEMMA AnswerSettles ==
  ASSUME TypeOK, QueuesFit, NEW m \in MintIds, NEW o \in Outcomes, Answer(m, o)
  PROVE  Service!Next \/ UNCHANGED Seen
<1> DEFINE S == mints[m].queue \cap Everyone
           s == Told(o)
<1>1. answer' = [d \in Everyone |-> IF d \in S THEN o ELSE answer[d]]
  BY DEF Answer, Resolve
<1>2. \A d \in S : d \in Everyone /\ Seen[d] = "waiting"
  <2>1. ASSUME NEW d \in S
        PROVE  Waiting(d)
    <3>1. m \in Queues(d) /\ d \in Everyone
      BY <2>1 DEF Queues
    <3> QED
      BY <3>1 DEF QueuesFit
  <2> QED
    BY <2>1, ToldType DEF Seen, Waiting
<1>3. s \in {"token", "failed"}
  BY ToldType
<1>4. Seen' = [d \in Everyone |-> IF d \in S THEN s ELSE Seen[d]]
  <2>1. \A d \in Everyone : Told(answer'[d]) = IF d \in S THEN Told(o) ELSE Told(answer[d])
    BY <1>1
  <2> QED
    BY <2>1 DEF Seen
<1>5. CASE S = {}
  <2>1. \A d \in Everyone : Seen'[d] = Seen[d]
    BY <1>4, <1>5
  <2> QED
    BY <2>1 DEF Seen
<1>6. CASE S # {}
  <2>1. PICK T \in SUBSET Everyone : T = S
    OBVIOUS
  <2>2. Service!Settle(T)
    BY <1>2, <1>3, <1>4, <1>6, <2>1 DEF Service!Settle, Seen, Told
  <2> QED
    BY <2>2 DEF Service!Next
<1> QED
  BY <1>5, <1>6

LEMMA ServiceStep ==
  ASSUME IInv, QueuesFit, [Next]_vars
  PROVE  Service!Next \/ UNCHANGED Seen
<1> USE DEF IInv
<1>1. CASE UNCHANGED answer
  BY <1>1, StutterStep
<1>2. ASSUME NEW c \in Everyone, Service!Ask(c)
      PROVE  Service!Next
  BY <1>2 DEF Service!Next
<1>3. ASSUME NEW c \in Callers, NEW a \in Accounts, GetToken(c, a)
      PROVE  \E d \in Everyone : Service!Ask(d)
  <2>1. c \in Everyone /\ ~Waiting(c)
    BY <1>3 DEF GetToken, Everyone
  <2>2. CASE MintToken(c, a)
    BY <2>1, <2>2, MintTokenAsks
  <2>3. CASE \E x \in Outcomes : answer' = [answer EXCEPT ![c] = x]
    BY <2>1, <2>3, AskedStep
  <2>4. damped[a] # NotDamped => damped[a] \in Outcomes
    BY DEF TypeOK, Outcomes
  <2>5. "token" \in Outcomes
    BY DEF Outcomes
  <2> QED
    BY <1>3, <2>2, <2>3, <2>4, <2>5 DEF GetToken
<1>4. ASSUME NEW t \in Ticks, HealthTick(t)
      PROVE  UNCHANGED answer \/ \E d \in Everyone : Service!Ask(d)
  <2>1. t \in Everyone /\ ~Waiting(t)
    BY <1>4 DEF HealthTick, Everyone
  <2>2. CASE active = NoAccount /\ UNCHANGED mintVars
    BY <2>2 DEF mintVars
  <2>3. CASE active # NoAccount /\ MintToken(t, active)
    BY <2>1, <2>3, MintTokenAsks DEF TypeOK
  <2> QED
    BY <1>4, <2>2, <2>3 DEF HealthTick
<1>5. ASSUME NEW m \in MintIds, NEW o \in Outcomes, Answer(m, o)
      PROVE  Service!Next \/ UNCHANGED Seen
  BY <1>5, AnswerSettles
<1>6. CASE \/ Shutdown \/ Reload \/ UNCHANGED vars
           \/ \E a \in Accounts : \/ Pair(a) \/ Remove(a) \/ PairFails(a)
                                  \/ MarkNeedsPlaybackAuth(a) \/ TokenGone(a)
                                  \/ DampLapses(a) \/ Revoke(a)
  <2>1. UNCHANGED answer
    BY <1>6 DEF Shutdown, Reload, vars, Pair, Remove, ForgetAccount, PairFails,
       MarkNeedsPlaybackAuth, TokenGone, DampLapses, Revoke, mintVars
  <2> QED
    BY <1>1, <2>1
<1> QED
  BY <1>1, <1>2, <1>3, <1>4, <1>5, <1>6 DEF Next

\* What any caller sees of Login5 is a token service: asked while it does not
\* wait, answered once, and nobody answered who did not ask.
THEOREM ServesTokens == Spec => Service!Safety
<1>1. Init => Service!Init
  BY DEF Init, Service!Init
<1>2. IInv /\ QueuesFit /\ [Next]_vars => [Service!Next]_(Seen)
  BY ServiceStep
<1>3. Service!Safety <=> Service!Init /\ [][Service!Next]_(Seen)
  BY DEF Service!Safety, Seen, Told
<1> QED
  BY <1>1, <1>2, <1>3, Invariance, QueuesInvariance, PTL DEF Spec

=============================================================================
