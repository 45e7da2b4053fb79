---------------------------- MODULE TokenService ----------------------------
(***************************************************************************)
(* What API/Login5.pm promises its callers, with the mint, the cache and   *)
(* the accounts left out: a call of getToken is answered exactly once, in  *)
(* the call itself or later; answers that come later may settle several    *)
(* callers together, and no waiting caller is forgotten.                   *)
(*                                                                         *)
(* Login5 is shown to implement this module; SpClient is built on it.      *)
(***************************************************************************)
CONSTANT Callers

VARIABLE answer

States == {"idle", "waiting", "token", "failed"}

TypeOK == answer \in [Callers -> States]

Init == answer = [c \in Callers |-> "idle"]

\* getToken(c): a token or a failure at once, or the caller is queued.
Ask(c) ==
  /\ answer[c] # "waiting"
  /\ \E s \in {"waiting", "token", "failed"} : answer' = [answer EXCEPT ![c] = s]

\* One mint outcome for a set of waiting callers.
Settle(S) ==
  /\ S # {}
  /\ \A c \in S : answer[c] = "waiting"
  /\ \E s \in {"token", "failed"} :
       answer' = [c \in Callers |-> IF c \in S THEN s ELSE answer[c]]

Next ==
  \/ \E c \in Callers : Ask(c)
  \/ \E S \in SUBSET Callers : Settle(S)

Safety == Init /\ [][Next]_answer

Spec ==
  /\ Safety
  /\ \A c \in Callers : WF_answer(\E S \in SUBSET Callers : c \in S /\ Settle(S))

=============================================================================
