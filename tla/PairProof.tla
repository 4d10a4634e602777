----------------------------- MODULE PairProof -----------------------------
(***************************************************************************)
(* What a call of abc_cec_module promises about one module pair, whatever  *)
(* plan it follows: each engine is asked at most once and its answer       *)
(* stands; a proof ends the asking unless the caller wants every answer;   *)
(* the pair is proved exactly when some engine proved it; the call ends    *)
(* without a verdict only for a caller to whom a tool error is fatal, and  *)
(* after the verdict nothing changes.                                      *)
(***************************************************************************)
CONSTANTS
  Engine,          \* the checks that can be asked for
  Answer,          \* what a check may answer
  Proof,           \* the answer that proves the pair
  Unasked          \* stands for no answer yet

VARIABLES
  fatal,           \* a tool error ends the program
  thorough,        \* the caller wants every answer, not only a proof
  answer,          \* what each engine said, Unasked before
  verdict          \* "open", "proved", "unproved" or "error"

pvars == <<fatal, thorough, answer, verdict>>

HasProof == \E e \in Engine : answer[e] = Proof

PInit ==
  /\ fatal \in BOOLEAN
  /\ thorough \in BOOLEAN
  /\ answer = [e \in Engine |-> Unasked]
  /\ verdict = "open"

Ask(e) ==
  /\ verdict = "open"
  /\ answer[e] = Unasked
  /\ HasProof => thorough
  /\ \E r \in Answer : answer' = [answer EXCEPT ![e] = r]
  /\ UNCHANGED <<fatal, thorough, verdict>>

Decide ==
  /\ verdict = "open"
  /\ verdict' = IF HasProof THEN "proved" ELSE "unproved"
  /\ UNCHANGED <<fatal, thorough, answer>>

GiveUp ==
  /\ verdict = "open"
  /\ fatal
  /\ HasProof => thorough
  /\ verdict' = "error"
  /\ UNCHANGED <<fatal, thorough, answer>>

PNext == (\E e \in Engine : Ask(e)) \/ Decide \/ GiveUp

PSpec == PInit /\ [][PNext]_pvars
=============================================================================
