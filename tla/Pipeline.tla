----------------------------- MODULE Pipeline ------------------------------
(***************************************************************************)
(* What the threaded part of the abc pass promises for one module: its     *)
(* clock domains are prepared in order, each is run once, at any time      *)
(* after its preparation, and the results are integrated in order; the     *)
(* pass ends when all are integrated and none of them reported an error,   *)
(* or it stops, and then only because a run of ABC failed.                 *)
(***************************************************************************)
EXTENDS Naturals

VARIABLES
  n,               \* number of clock domains
  prepared,        \* the domains 0..prepared-1 have been prepared
  result,          \* what the run of each domain left behind, "none" before it
  integrated,      \* the domains 0..integrated-1 have been integrated
  status           \* "running", "done" or "aborted"

pvars == <<n, prepared, result, integrated, status>>

Outcome == {"mapped", "unreadable", "not_run", "error"}

(* Results that integration reports and stops at.                          *)
Broken == {"error", "unreadable"}

PInit ==
  /\ n \in Nat
  /\ prepared = 0
  /\ result = [j \in 0..n-1 |-> "none"]
  /\ integrated = 0
  /\ status = "running"

Prepare ==
  /\ status = "running"
  /\ prepared < n
  /\ prepared' = prepared + 1
  /\ UNCHANGED <<n, result, integrated, status>>

Run(j) ==
  /\ status = "running"
  /\ result[j] = "none"
  /\ \E r \in Outcome : result' = [result EXCEPT ![j] = r]
  /\ status' \in {"running", "aborted"}
  /\ status' = "aborted" => result'[j] \in Broken
  /\ UNCHANGED <<n, prepared, integrated>>

Integrate ==
  /\ status = "running"
  /\ integrated < prepared
  /\ result[integrated] \notin Broken \cup {"none"}
  /\ integrated' = integrated + 1
  /\ UNCHANGED <<n, prepared, result, status>>

Reject ==
  /\ status = "running"
  /\ integrated < prepared
  /\ result[integrated] \in Broken
  /\ status' = "aborted"
  /\ UNCHANGED <<n, prepared, result, integrated>>

(* The end of the idle ABC processes decides too: one that ends with an    *)
(* error stops the program although all results are integrated.            *)
End ==
  /\ status = "running"
  /\ integrated = n
  /\ status' \in {"done", "aborted"}
  /\ status' = "aborted" => \E j \in 0..n-1 : result[j] = "mapped"
  /\ UNCHANGED <<n, prepared, result, integrated>>

PNext ==
  \/ Prepare
  \/ \E j \in 0..prepared-1 : Run(j)
  \/ Integrate
  \/ Reject
  \/ End

PSpec == PInit /\ [][PNext]_pvars
=============================================================================
