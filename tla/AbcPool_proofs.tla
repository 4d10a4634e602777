--------------------------- MODULE AbcPool_proofs ---------------------------
(***************************************************************************)
(* Proofs about AbcPool for any number of clock domains and cores: type    *)
(* correctness, no lost wakeup, no null result used, the bound on ABC      *)
(* processes, and that the driver implements Pipeline.                     *)
(***************************************************************************)
EXTENDS AbcPool, SequenceTheorems, FiniteSetTheorems, TLAPS

-----------------------------------------------------------------------------
(* The inductive invariant.                                                *)

Early == {"push", "run", "spawn", "fork", "abc"}      \* a job in hand, not yet run

(* Where each thread may be, and what the main thread has finished there.  *)
Control ==
  /\ pc[Main] \notin {"pop", "exit"}
  /\ \A t \in Worker : pc[t] \in Runner \cup {"pop", "exit"}
  /\ \A t \in Worker : t > workers => pc[t] = "exit"
  /\ workers > 0 => pc[Main] \notin Runner
  /\ pc[Main] \in {"drain", "extract"} => state_index < n
  /\ pc[Main] \in {"close", "collect", "final", "join", "reap", "done"} => state_index = n
  /\ pc[Main] \in {"final", "join", "reap", "done"} => finished_count = n
  /\ pc[Main] \in {"join", "reap", "done"} => next = n
  /\ pc[Main] \in {"reap", "done"} => \A t \in Worker : pc[t] = "exit"
  /\ closed <=> pc[Main] \in {"collect", "final", "join", "reap", "done"}

(* Who waits for what.                                                     *)
Waiting ==
  /\ \A t \in work_not_empty : pc[t] = "pop"
  /\ Main \in work_not_full => pc[Main] = "push"
  /\ Main \in fin_not_empty => pc[Main] = "collect" /\ finished_count < n

(* Jobs not yet run are in the work queue or in one hand; jobs that have   *)
(* been run are on their way back, in the vector, or integrated.           *)
Received == by_index \cup 0..next-1

Places ==
  /\ \A t \in Thread : job[t] # NoJob <=> pc[t] \in Early \cup {"finish"}
  /\ \A t, u \in Thread : t # u /\ job[t] # NoJob => job[t] # job[u]
  /\ \A t \in Thread : job[t] < state_index
  /\ \A t \in Thread : pc[t] \in Early => aborted \/ result[job[t]] = "none"
  /\ \A t \in Thread : pc[t] = "finish" => result[job[t]] # "none" /\ job[t] \notin Received

Queued ==
  /\ \A i \in 1..Len(work) : work[i] < state_index /\ result[work[i]] = "none"
  /\ \A i, k \in 1..Len(work) : i # k => work[i] # work[k]
  /\ \A i \in 1..Len(work), t \in Thread : work[i] # job[t]

Returned ==
  /\ \A i \in 1..Len(finished) : /\ finished[i] < state_index
                                 /\ result[finished[i]] # "none"
                                 /\ finished[i] \notin Received
  /\ \A i, k \in 1..Len(finished) : i # k => finished[i] # finished[k]
  /\ \A i \in 1..Len(finished), t \in Thread : finished[i] # job[t]

Counted ==
  /\ next <= state_index
  /\ \A j \in Job : j >= state_index => result[j] = "none"
  /\ \A j \in by_index : next <= j /\ j < state_index /\ result[j] # "none"
  /\ finished_count = Cardinality(Received)

(* Integrated results are whole, an idle process has run some job, and a   *)
(* thread that talks to ABC has a process.                                 *)
Whole == \A j \in 0..next-1 : result[j] \notin Broken \cup {"none"}

IdleHasRun == idle # <<>> => \E j \in Job : result[j] \in {"mapped", "unreadable"}

InUse == \A t \in Thread : At(t, "abc") => process[t] \in Job

PoolInv ==
  /\ TypeOK /\ Control /\ Waiting /\ NoLostWakeup
  /\ Places /\ Queued /\ Returned /\ Counted
  /\ Whole /\ IdleHasRun /\ InUse /\ ProcessBound

-----------------------------------------------------------------------------
(* Facts about sequences, sets and notifications.                          *)

LEMMA TailFacts ==
  ASSUME NEW S, NEW s \in Seq(S), s # <<>>
  PROVE  /\ Tail(s) \in Seq(S)
         /\ Head(s) = s[1] /\ Head(s) \in S
         /\ Len(s) \in Nat /\ Len(s) >= 1 /\ Len(Tail(s)) = Len(s) - 1
         /\ \A i \in 1..Len(Tail(s)) : i + 1 \in 1..Len(s) /\ Tail(s)[i] = s[i + 1]
  OBVIOUS

LEMMA AppendFacts ==
  ASSUME NEW S, NEW s \in Seq(S), NEW e \in S
  PROVE  /\ Append(s, e) \in Seq(S)
         /\ Len(s) \in Nat /\ Len(Append(s, e)) = Len(s) + 1
         /\ \A i \in 1..Len(s) : Append(s, e)[i] = s[i]
         /\ Append(s, e)[Len(s) + 1] = e
         /\ Append(s, e) # <<>>
  OBVIOUS

LEMMA ConsFacts ==
  ASSUME NEW S, NEW s \in Seq(S), NEW e \in S
  PROVE  <<e>> \o s \in Seq(S) /\ Len(<<e>> \o s) = Len(s) + 1
  OBVIOUS

(* A notification takes at most one thread from the waiters.               *)
LEMMA NotifiedFacts ==
  ASSUME NEW S, NEW c
  PROVE  /\ \A T \in Work!Notified(S, c) : T \subseteq S
         /\ \A T \in Finished!Notified(S, c) : T \subseteq S
         /\ c /\ S # {} => \A T \in Work!Notified(S, c) : \E t \in S : t \notin T
         /\ c /\ S # {} => \A T \in Finished!Notified(S, c) : \E t \in S : t \notin T
  BY DEF Work!Notified, Work!NotifyOne, Finished!Notified, Finished!NotifyOne

LEMMA JobsFinite == ASSUME TypeOK PROVE IsFiniteSet(Job) /\ Cardinality(Job) = n
<1>1. n \in Nat
  BY BoundAssumption DEF TypeOK
<1>2. 0 \in Int /\ n - 1 \in Int
  BY <1>1
<1>3. IsFiniteSet(0..n-1) /\ Cardinality(0..n-1) = IF 0 > n - 1 THEN 0 ELSE (n - 1) - 0 + 1
  BY <1>2, FS_Interval
<1> QED
  BY <1>1, <1>3 DEF Job

-----------------------------------------------------------------------------
(* The initial states.                                                     *)
LEMMA InitInv == ASSUME Init PROVE PoolInv
<1> USE BoundAssumption DEF Init, Main, Thread, Worker, Job, NoJob, LoopHead
<1>1. workers \in Nat /\ workers <= MaxCores
  BY DEF pool_size, max_threads
<1>2. TypeOK
  BY <1>1 DEF TypeOK, Runner
<1>3. Control
  BY <1>1 DEF Control, Runner
<1>4. Waiting /\ NoLostWakeup
  BY <1>1 DEF Waiting, NoLostWakeup
<1>5. Places /\ Queued /\ Returned
  BY <1>1 DEF Places, Queued, Returned, Early
<1>6. Counted
  <2>1. Received = {}
    BY DEF Received
  <2> QED
    BY <2>1, FS_EmptySet DEF Counted
<1>7. Whole /\ IdleHasRun /\ InUse
  BY DEF Whole, IdleHasRun, InUse, At
<1>8. ProcessBound
  <2>1. Users = {}
    BY DEF Users
  <2> QED
    BY <2>1, <1>1, FS_EmptySet DEF ProcessBound
<1> QED
  BY <1>2, <1>3, <1>4, <1>5, <1>6, <1>7, <1>8 DEF PoolInv

-----------------------------------------------------------------------------
(* What a step does with the jobs.  Every action is one of eight moves.    *)

jobvars == <<job, work, finished, result, state_index, next, by_index, finished_count>>

RunOutcome == {"mapped", "unreadable", "not_run", "error"}

Stays ==
  /\ UNCHANGED jobvars
  /\ \A t \in Thread : pc'[t] = pc[t] \/ (pc[t] \in Early /\ pc'[t] \in Early)
                         \/ (pc[t] \notin Early \cup {"finish"} /\ pc'[t] \notin Early \cup {"finish"})
  /\ aborted => aborted'

IsPrepared ==
  /\ pc[Main] = "extract"
  /\ job' = [job EXCEPT ![Main] = state_index]
  /\ state_index' = state_index + 1
  /\ \E x \in Early : pc' = [pc EXCEPT ![Main] = x]
  /\ UNCHANGED <<work, finished, result, next, by_index, finished_count, aborted>>

IsQueued ==
  /\ pc[Main] = "push"
  /\ ~aborted
  /\ work' = Append(work, job[Main])
  /\ job' = [job EXCEPT ![Main] = NoJob]
  /\ \E x \in {"drain", "close"} : pc' = [pc EXCEPT ![Main] = x]
  /\ UNCHANGED <<finished, result, state_index, next, by_index, finished_count, aborted>>

IsTaken(t) ==
  /\ pc[t] = "pop"
  /\ work # <<>>
  /\ work' = Tail(work)
  /\ job' = [job EXCEPT ![t] = Head(work)]
  /\ pc' = [pc EXCEPT ![t] = "run"]
  /\ UNCHANGED <<finished, result, state_index, next, by_index, finished_count, aborted>>

IsRun(t) ==
  /\ pc[t] \in Early
  /\ ~aborted
  /\ \E r \in RunOutcome : result' = [result EXCEPT ![job[t]] = r]
  /\ \/ pc' = [pc EXCEPT ![t] = "finish"] /\ UNCHANGED aborted
     \/ pc' = pc /\ aborted'
  /\ UNCHANGED <<job, work, finished, state_index, next, by_index, finished_count>>

IsReturned(t) ==
  /\ pc[t] = "finish"
  /\ finished' = Append(finished, job[t])
  /\ job' = [job EXCEPT ![t] = NoJob]
  /\ \E x \in {"drain", "close", "pop"} : pc' = [pc EXCEPT ![t] = x]
  /\ UNCHANGED <<work, result, state_index, next, by_index, finished_count, aborted>>

IsReceived ==
  /\ finished # <<>>
  /\ finished' = Tail(finished)
  /\ by_index' = by_index \cup {Head(finished)}
  /\ finished_count' = finished_count + 1
  /\ UNCHANGED <<pc, job, work, result, state_index, next, aborted>>

IsIntegrated ==
  /\ next \in by_index
  /\ result[next] \notin Broken
  /\ by_index' = by_index \ {next}
  /\ next' = next + 1
  /\ UNCHANGED <<pc, job, work, finished, result, state_index, finished_count, aborted>>

Moves ==
  \/ Stays \/ IsPrepared \/ IsQueued
  \/ \E t \in Thread : IsTaken(t) \/ IsRun(t) \/ IsReturned(t)
  \/ IsReceived \/ IsIntegrated

(* Every step is one of the moves.                                         *)
LEMMA StepMoves == ASSUME PoolInv, Next PROVE Moves
<1> USE BoundAssumption DEF Main, Thread, Worker, NoJob, procs, local, queues
<1>1. CASE DrainOne
  BY <1>1 DEF DrainOne, At, Receive, Finished!pop_front, PoolInv, TypeOK, Control, Early, Runner, Moves, IsReceived
<1>2. CASE DrainEnd
  BY <1>2 DEF DrainEnd, At, Goto, Finished!try_pop_empty, PoolInv, TypeOK, Control, Early, Runner, Moves, Stays, jobvars
<1>3. CASE ExtractOne
  BY <1>3 DEF ExtractOne, At, extract, PoolInv, TypeOK, Control, Early, Runner, Moves, IsIntegrated, Stays, jobvars
<1>4. CASE prepare_module
  BY <1>4 DEF prepare_module, At, Goto, PoolInv, TypeOK, Control, Early, Runner, Moves, IsPrepared
<1>5. CASE PushWork
  BY <1>5 DEF PushWork, At, Goto, LoopHead, Work!push_back, PoolInv, TypeOK, Control, Early, Runner, Moves, IsQueued
<1>6. CASE PushWait
  BY <1>6 DEF PushWait, At, Work!push_wait, PoolInv, TypeOK, Control, Early, Runner, Moves, Stays, jobvars
<1>7. CASE Close
  BY <1>7 DEF Close, At, Goto, Work!close, PoolInv, TypeOK, Control, Early, Runner, Moves, Stays, jobvars
<1>8. CASE CollectOne
  BY <1>8 DEF CollectOne, At, Receive, Finished!pop_front, PoolInv, TypeOK, Control, Early, Runner, Moves, IsReceived
<1>9. CASE CollectWait
  BY <1>9 DEF CollectWait, At, Finished!pop_wait, PoolInv, TypeOK, Control, Early, Runner, Moves, Stays, jobvars
<1>10. CASE CollectEnd
  BY <1>10 DEF CollectEnd, At, Goto, PoolInv, TypeOK, Control, Early, Runner, Moves, Stays, jobvars
<1>11. CASE FinalExtract
  BY <1>11 DEF FinalExtract, At, extract, PoolInv, TypeOK, Control, Early, Runner, Moves, IsIntegrated, Stays, jobvars
<1>12. CASE FinalEnd
  BY <1>12 DEF FinalEnd, At, Goto, PoolInv, TypeOK, Control, Early, Runner, Moves, Stays, jobvars
<1>13. CASE Join
  BY <1>13 DEF Join, At, Goto, PoolInv, TypeOK, Control, Early, Runner, Moves, Stays, jobvars
<1>14. CASE Reap
  BY <1>14 DEF Reap, At, Goto, PoolInv, TypeOK, Control, Early, Runner, Moves, Stays, jobvars
<1>15. ASSUME NEW t \in Worker, PopWork(t) PROVE Moves
  <2>1. IsTaken(t)
    BY <1>15 DEF PopWork, At, Goto, Work!pop_front, IsTaken
  <2> QED
    BY <2>1 DEF Moves
<1>16. ASSUME NEW t \in Worker, PopWait(t) PROVE Moves
  BY <1>16 DEF PopWait, At, Work!pop_wait, PoolInv, TypeOK, Control, Early, Runner, Moves, Stays, jobvars
<1>17. ASSUME NEW t \in Worker, PopClosed(t) PROVE Moves
  BY <1>17 DEF PopClosed, At, Goto, Work!pop_closed, PoolInv, TypeOK, Control, Early, Runner, Moves, Stays, jobvars
<1>18. ASSUME NEW t \in Thread, NotCalled(t) PROVE Moves
  BY <1>18 DEF NotCalled, At, Goto, Outcome, PoolInv, TypeOK, Control, Early, Runner, Moves, IsRun, RunOutcome
<1>19. ASSUME NEW t \in Thread, TakeProcess(t) PROVE Moves
  BY <1>19 DEF TakeProcess, At, Goto, PoolInv, TypeOK, Control, Early, Runner, Moves, Stays, jobvars
<1>20. ASSUME NEW t \in Thread, OpenPipes(t) PROVE Moves
  BY <1>20 DEF OpenPipes, At, Goto, PoolInv, TypeOK, Control, Early, Runner, Moves, Stays, jobvars
<1>21. ASSUME NEW t \in Thread, Fork(t) PROVE Moves
  BY <1>21 DEF Fork, At, Goto, PoolInv, TypeOK, Control, Early, Runner, Moves, Stays, jobvars
<1>22. ASSUME NEW t \in Thread, SpawnFailed(t) PROVE Moves
  BY <1>22 DEF SpawnFailed, Goto, Outcome, PoolInv, TypeOK, Control, Early, Runner, Moves, IsRun, RunOutcome
<1>23. ASSUME NEW t \in Thread, AbcDone(t) PROVE Moves
  BY <1>23 DEF AbcDone, At, Goto, Outcome, PoolInv, TypeOK, Control, Early, Runner, Moves, IsRun, RunOutcome
<1>24. ASSUME NEW t \in Thread, AbcFailed(t) PROVE Moves
  BY <1>24 DEF AbcFailed, At, Goto, Outcome, EndOfFile, PoolInv, TypeOK, Control, Early, Runner, Moves, IsRun, RunOutcome
<1>25. ASSUME NEW t \in Thread, PushFinished(t) PROVE Moves
  BY <1>25 DEF PushFinished, At, Goto, LoopHead, Finished!push_back, PoolInv, TypeOK, Control, Early, Runner, Moves, IsReturned
<1>26. ASSUME NEW t \in Thread, SpuriousWakeup(t) PROVE Moves
  BY <1>26 DEF SpuriousWakeup, Work!spurious_wakeup, Finished!spurious_wakeup, PoolInv, TypeOK, Control, Early, Runner, Moves, Stays, jobvars
<1>27. ASSUME NEW p \in alive, Die(p) PROVE Moves
  BY <1>27 DEF Die, PoolInv, TypeOK, Control, Early, Runner, Moves, Stays, jobvars
<1>28. CASE Terminated
  BY <1>28 DEF Terminated, vars, Moves, Stays, jobvars
<1> QED
  BY <1>1, <1>2, <1>3, <1>4, <1>5, <1>6, <1>7, <1>8, <1>9, <1>10, <1>11, <1>12, <1>13, <1>14,
     <1>15, <1>16, <1>17, <1>18, <1>19, <1>20, <1>21, <1>22, <1>23, <1>24, <1>25, <1>26, <1>27, <1>28
  DEF Next, MainNext, WorkerNext, RunAbc, Main, Thread, Worker

(* The parameters of the run never change.                                 *)
LEMMA StepParameters == ASSUME Next PROVE UNCHANGED <<n, workers>>
  BY DEF Next, MainNext, WorkerNext, RunAbc, Terminated, vars,
     DrainOne, DrainEnd, ExtractOne, extract, prepare_module, PushWork, PushWait, Close, CollectOne,
     CollectWait, CollectEnd, FinalExtract, FinalEnd, Join, Reap, PopWork, PopWait, PopClosed,
     NotCalled, TakeProcess, OpenPipes, Fork, SpawnFailed, AbcDone, AbcFailed, PushFinished,
     SpuriousWakeup, Die


(* A result, once there, is never changed.                                 *)
LEMMA ResultsStay ==
  ASSUME PoolInv, Moves
  PROVE  \A j \in Job : result[j] # "none" => result'[j] = result[j]
<1>1. ASSUME NEW t \in Thread, IsRun(t)
      PROVE  \A j \in Job : result[j] # "none" => result'[j] = result[j]
  BY <1>1 DEF IsRun, PoolInv, TypeOK, Places
<1> QED
  BY <1>1 DEF Moves, Stays, jobvars, IsPrepared, IsQueued, IsTaken, IsReturned, IsReceived, IsIntegrated

-----------------------------------------------------------------------------
(* The moves preserve the invariant.                                       *)

(* The types that matter to the moves.                                     *)
LEMMA JobFacts ==
  ASSUME PoolInv
  PROVE  /\ n \in Nat /\ state_index \in 0..n /\ next \in 0..n
         /\ pc = [t \in Thread |-> pc[t]]
         /\ job \in [Thread -> Job \cup {NoJob}]
         /\ result = [j \in Job |-> result[j]]
BY BoundAssumption DEF PoolInv, TypeOK

LEMMA FinishedFacts ==
  ASSUME PoolInv PROVE \A i \in 1..Len(finished) : finished[i] \in Job
BY DEF PoolInv, TypeOK

(* What has been received are jobs, finitely many.                         *)
LEMMA ReceivedFinite ==
  ASSUME PoolInv
  PROVE  Received \subseteq Job /\ IsFiniteSet(Received)
<1>1. Received \subseteq Job
  BY BoundAssumption DEF PoolInv, TypeOK, Received, Job
<1> QED
  BY <1>1, JobsFinite, FS_Subset DEF PoolInv

(* Each move preserves where the jobs are.                                 *)
LEMMA PlacesMoves == ASSUME PoolInv, Moves, UNCHANGED n PROVE Places'
<1> USE BoundAssumption DEF Main, Thread, Worker, NoJob
<1>1. CASE Stays
  BY <1>1 DEF Stays, jobvars, PoolInv, TypeOK, Job, Places, Early, Received, Counted
<1>2. CASE IsPrepared
  <2>1a. n \in Nat /\ state_index \in 0..n
    BY DEF PoolInv, TypeOK
  <2>2a. state_index < n
    BY <1>2 DEF IsPrepared, PoolInv, Control
  <2>3a. state_index \in Job
    BY <2>1a, <2>2a DEF Job
  <2>4a. job[Main] = NoJob
    BY <1>2 DEF IsPrepared, PoolInv, Places, Early
  <2>5a. result[state_index] = "none"
    BY <2>1a, <2>3a DEF PoolInv, Counted
  <2>6a. \A u \in Thread : job[u] \in Int
    BY <2>1a DEF PoolInv, TypeOK, Job
  <2>1. \A u \in Thread : job'[u] # NoJob <=> pc'[u] \in Early \cup {"finish"}
    BY <1>2, <2>1a, <2>3a, <2>4a, <2>5a, <2>6a DEF IsPrepared, PoolInv, TypeOK, Places, Early, Received
  <2>2. \A u, v \in Thread : u # v /\ job'[u] # NoJob => job'[u] # job'[v]
    BY <1>2, <2>1a, <2>3a, <2>4a, <2>5a, <2>6a DEF IsPrepared, PoolInv, TypeOK, Places, Early, Received
  <2>3. \A u \in Thread : job'[u] < state_index'
    BY <1>2, <2>1a, <2>3a, <2>4a, <2>5a, <2>6a DEF IsPrepared, PoolInv, TypeOK, Places, Early, Received
  <2>4. \A u \in Thread : pc'[u] \in Early => aborted' \/ result'[job'[u]] = "none"
    BY <1>2, <2>1a, <2>3a, <2>4a, <2>5a, <2>6a DEF IsPrepared, PoolInv, TypeOK, Places, Early, Received
  <2>5. \A u \in Thread : pc'[u] = "finish" => result'[job'[u]] # "none" /\ job'[u] \notin Received'
    BY <1>2, <2>1a, <2>3a, <2>4a, <2>5a, <2>6a DEF IsPrepared, PoolInv, TypeOK, Places, Early, Received
  <2> QED
    BY <2>1, <2>2, <2>3, <2>4, <2>5 DEF Places
<1>3. CASE IsQueued
  <2>1. job'[Main] = NoJob /\ pc'[Main] \notin Early \cup {"finish"}
    BY <1>3, JobFacts DEF IsQueued, Early
  <2>2. \A u \in Thread \ {Main} : job'[u] = job[u] /\ pc'[u] = pc[u]
    BY <1>3, JobFacts DEF IsQueued
  <2>3. NoJob < state_index /\ UNCHANGED <<result, state_index, aborted>> /\ Received' = Received
    BY <1>3, JobFacts DEF IsQueued, Received
  <2> QED
    BY <2>1, <2>2, <2>3 DEF PoolInv, Places
<1>4. ASSUME NEW t \in Thread, IsTaken(t) PROVE Places'
  <2>a. Head(work) \in Job /\ Head(work) < state_index /\ result[Head(work)] = "none"
    BY <1>4, TailFacts DEF IsTaken, PoolInv, TypeOK, Queued
  <2>b. \A u \in Thread : job[u] # Head(work)
    BY <1>4, TailFacts DEF IsTaken, PoolInv, TypeOK, Queued
  <2>1. \A u \in Thread : job'[u] # NoJob <=> pc'[u] \in Early \cup {"finish"}
    BY <1>4, <2>a, <2>b DEF IsTaken, PoolInv, TypeOK, Job, Places, Early, Received
  <2>2. \A u, v \in Thread : u # v /\ job'[u] # NoJob => job'[u] # job'[v]
    BY <1>4, <2>a, <2>b DEF IsTaken, PoolInv, TypeOK, Job, Places, Early, Received
  <2>3. \A u \in Thread : job'[u] < state_index'
    BY <1>4, <2>a, <2>b DEF IsTaken, PoolInv, TypeOK, Job, Places, Early, Received
  <2>4. \A u \in Thread : pc'[u] \in Early => aborted' \/ result'[job'[u]] = "none"
    BY <1>4, <2>a, <2>b DEF IsTaken, PoolInv, TypeOK, Job, Places, Early, Received
  <2>5. \A u \in Thread : pc'[u] = "finish" => result'[job'[u]] # "none" /\ job'[u] \notin Received'
    BY <1>4, <2>a, <2>b DEF IsTaken, PoolInv, TypeOK, Job, Places, Early, Received
  <2> QED
    BY <2>1, <2>2, <2>3, <2>4, <2>5 DEF Places
<1>5. ASSUME NEW t \in Thread, IsRun(t) PROVE Places'
  <2>a. job[t] \in Job /\ job[t] # NoJob /\ result[job[t]] = "none"
    BY <1>5 DEF IsRun, PoolInv, TypeOK, Job, Places
  <2>b. job[t] \notin Received
    BY <2>a DEF PoolInv, TypeOK, Counted, Whole, Received
  <2>1. \A u \in Thread : job'[u] # NoJob <=> pc'[u] \in Early \cup {"finish"}
    BY <1>5, <2>a, <2>b, JobFacts DEF IsRun, PoolInv, Places
  <2>2. \A u, v \in Thread : u # v /\ job'[u] # NoJob => job'[u] # job'[v]
    BY <1>5, <2>a, <2>b DEF IsRun, RunOutcome, PoolInv, TypeOK, Job, Places, Early, Received
  <2>3. \A u \in Thread : job'[u] < state_index'
    BY <1>5, <2>a, <2>b DEF IsRun, RunOutcome, PoolInv, TypeOK, Job, Places, Early, Received
  <2>4. \A u \in Thread : pc'[u] \in Early => aborted' \/ result'[job'[u]] = "none"
    BY <1>5, <2>a, <2>b DEF IsRun, RunOutcome, PoolInv, TypeOK, Job, Places, Early, Received
  <2>5. \A u \in Thread : pc'[u] = "finish" => result'[job'[u]] # "none" /\ job'[u] \notin Received'
    BY <1>5, <2>a, <2>b DEF IsRun, RunOutcome, PoolInv, TypeOK, Job, Places, Early, Received
  <2> QED
    BY <2>1, <2>2, <2>3, <2>4, <2>5 DEF Places
<1>6. ASSUME NEW t \in Thread, IsReturned(t) PROVE Places'
  <2>1. job'[t] = NoJob /\ pc'[t] \notin Early \cup {"finish"}
    BY <1>6, JobFacts DEF IsReturned, Early
  <2>2. \A u \in Thread \ {t} : job'[u] = job[u] /\ pc'[u] = pc[u]
    BY <1>6, JobFacts DEF IsReturned
  <2>3. NoJob < state_index /\ UNCHANGED <<result, state_index, aborted>> /\ Received' = Received
    BY <1>6, JobFacts DEF IsReturned, Received
  <2> QED
    BY <2>1, <2>2, <2>3 DEF PoolInv, Places
<1>7. CASE IsReceived
  <2>a. \A u \in Thread : job[u] # Head(finished)
    BY <1>7, TailFacts DEF IsReceived, PoolInv, TypeOK, Returned
  <2>1. \A u \in Thread : job'[u] # NoJob <=> pc'[u] \in Early \cup {"finish"}
    BY <1>7, <2>a DEF IsReceived, PoolInv, TypeOK, Job, Places, Early, Received
  <2>2. \A u, v \in Thread : u # v /\ job'[u] # NoJob => job'[u] # job'[v]
    BY <1>7, <2>a DEF IsReceived, PoolInv, TypeOK, Job, Places, Early, Received
  <2>3. \A u \in Thread : job'[u] < state_index'
    BY <1>7, <2>a DEF IsReceived, PoolInv, TypeOK, Job, Places, Early, Received
  <2>4. \A u \in Thread : pc'[u] \in Early => aborted' \/ result'[job'[u]] = "none"
    BY <1>7, <2>a DEF IsReceived, PoolInv, TypeOK, Job, Places, Early, Received
  <2>5. \A u \in Thread : pc'[u] = "finish" => result'[job'[u]] # "none" /\ job'[u] \notin Received'
    BY <1>7, <2>a DEF IsReceived, PoolInv, TypeOK, Job, Places, Early, Received
  <2> QED
    BY <2>1, <2>2, <2>3, <2>4, <2>5 DEF Places
<1>8. CASE IsIntegrated
  BY <1>8 DEF IsIntegrated, PoolInv, TypeOK, Job, Places, Early, Received, Counted
<1> QED
  BY <1>1, <1>2, <1>3, <1>4, <1>5, <1>6, <1>7, <1>8 DEF Moves

(* Each move keeps the work queue free of duplicates and of run jobs.      *)
LEMMA QueuedMoves == ASSUME PoolInv, Moves, UNCHANGED n PROVE Queued'
<1> USE BoundAssumption DEF Main, Thread, Worker, NoJob
<1>1. CASE Stays
  BY <1>1 DEF Stays, jobvars, PoolInv, TypeOK, Job, Queued
<1>2. CASE IsPrepared
  <2>1. \A i \in 1..Len(work) : work[i] \in Job
    BY DEF PoolInv, TypeOK
  <2> QED
    <3>1. \A u \in Thread : job'[u] = job[u] \/ job'[u] = state_index
      BY <1>2, JobFacts DEF IsPrepared
    <3>2. \A i \in 1..Len(work) : work[i] < state_index /\ work[i] < state_index + 1
      BY <2>1, JobFacts DEF PoolInv, Queued, Job
    <3>3. \A i \in 1..Len(work), u \in Thread : work[i] # job'[u]
      <4>1. state_index \in Int /\ \A i \in 1..Len(work) : work[i] \in Int
        BY <2>1, JobFacts DEF Job
      <4>2. \A i \in 1..Len(work), u \in Thread : work[i] # job[u]
        BY DEF PoolInv, Queued
      <4>3. \A i \in 1..Len(work) : work[i] # state_index
        BY <3>2, <4>1
      <4> QED
        BY <3>1, <4>2, <4>3
    <3> QED
      BY <1>2, <3>2, <3>3 DEF IsPrepared, PoolInv, Queued
<1>3. CASE IsQueued
  <2>1. job[Main] \in Job /\ job[Main] # NoJob /\ result[job[Main]] = "none"
    BY <1>3 DEF IsQueued, PoolInv, TypeOK, Job, Places, Early
  <2>2. /\ Len(work) \in Nat /\ Len(work') = Len(work) + 1
        /\ \A i \in 1..Len(work) : work'[i] = work[i]
        /\ work'[Len(work) + 1] = job[Main]
    BY <1>3, <2>1, AppendFacts DEF IsQueued, PoolInv, TypeOK
  <2>3. \A i \in 1..Len(work') : work'[i] < state_index' /\ result'[work'[i]] = "none"
    BY <1>3, <2>1, <2>2 DEF IsQueued, PoolInv, Queued, Places
  <2>4. \A i, k \in 1..Len(work') : i # k => work'[i] # work'[k]
    BY <1>3, <2>1, <2>2 DEF IsQueued, PoolInv, Queued
  <2>5. \A i \in 1..Len(work'), u \in Thread : work'[i] # job'[u]
    <3>1. \A i \in 1..Len(work) : work[i] \in Job
      BY DEF PoolInv, TypeOK
    <3> QED
      <4>1. \A u \in Thread : job'[u] = job[u] \/ job'[u] = NoJob
        BY <1>3, JobFacts DEF IsQueued
      <4>2. \A u \in Thread : job'[u] = job[Main] => job[Main] = NoJob
        BY <1>3, <2>1, JobFacts DEF IsQueued, PoolInv, Places
      <4>3. \A i \in 1..Len(work'), u \in Thread :
              work'[i] # job[Main] => work'[i] \in Job /\ work'[i] # job[u]
        BY <2>2, <3>1 DEF PoolInv, Queued
      <4>4. NoJob \notin Job
        BY JobFacts DEF Job
      <4> QED
        BY <2>1, <4>1, <4>2, <4>3, <4>4
  <2> QED
    BY <2>3, <2>4, <2>5 DEF Queued
<1>4. ASSUME NEW t \in Thread, IsTaken(t) PROVE Queued'
  <2>1. /\ Len(work) \in Nat /\ Len(work') = Len(work) - 1 /\ Len(work) >= 1
        /\ \A i \in 1..Len(work') : i + 1 \in 1..Len(work) /\ work'[i] = work[i + 1]
        /\ Head(work) = work[1]
    BY <1>4, TailFacts DEF IsTaken, PoolInv, TypeOK
  <2>2. \A i \in 1..Len(work') : work'[i] < state_index' /\ result'[work'[i]] = "none"
    BY <1>4, <2>1 DEF IsTaken, PoolInv, Queued
  <2>3. \A i, k \in 1..Len(work') : i # k => work'[i] # work'[k]
    BY <1>4, <2>1 DEF IsTaken, PoolInv, Queued
  <2>4. \A i \in 1..Len(work'), u \in Thread : work'[i] # job'[u]
    BY <1>4, <2>1 DEF IsTaken, PoolInv, TypeOK, Queued
  <2> QED
    BY <2>2, <2>3, <2>4 DEF Queued
<1>5. ASSUME NEW t \in Thread, IsRun(t) PROVE Queued'
  <2>1. \A i \in 1..Len(work) : work[i] \in Job /\ work[i] # job[t]
    BY DEF PoolInv, TypeOK, Queued
  <2> QED
    BY <1>5, <2>1 DEF IsRun, PoolInv, TypeOK, Queued
<1>6. ASSUME NEW t \in Thread, IsReturned(t) PROVE Queued'
  <2>1. \A i \in 1..Len(work) : work[i] \in Job
    BY DEF PoolInv, TypeOK
  <2>2. NoJob \notin Job
    BY JobFacts DEF Job
  <2> QED
    BY <1>6, <2>1, <2>2, JobFacts DEF IsReturned, PoolInv, Queued
<1>7. CASE IsReceived
  BY <1>7 DEF IsReceived, PoolInv, TypeOK, Job, Queued
<1>8. CASE IsIntegrated
  BY <1>8 DEF IsIntegrated, PoolInv, TypeOK, Job, Queued
<1> QED
  BY <1>1, <1>2, <1>3, <1>4, <1>5, <1>6, <1>7, <1>8 DEF Moves

(* Each move keeps the queue of results free of duplicates.                *)
LEMMA ReturnedMoves == ASSUME PoolInv, Moves, UNCHANGED n PROVE Returned'
<1> USE BoundAssumption DEF Main, Thread, Worker, NoJob
<1>1. CASE Stays
  BY <1>1 DEF Stays, jobvars, PoolInv, TypeOK, Job, Returned, Received, Counted
<1>2. CASE IsPrepared
  <2>1. state_index \in Nat /\ \A i \in 1..Len(finished) : finished[i] \in Nat
    BY DEF PoolInv, TypeOK, Job
  <2>2. \A i \in 1..Len(finished) : finished[i] < state_index'
    BY <1>2, <2>1 DEF IsPrepared, PoolInv, Returned
  <2>3. \A i \in 1..Len(finished), u \in Thread : finished[i] # job'[u]
    BY <1>2, <2>1 DEF IsPrepared, PoolInv, TypeOK, Returned
  <2> QED
    BY <1>2, <2>2, <2>3 DEF IsPrepared, PoolInv, Returned, Received
<1>3. CASE IsQueued
  BY <1>3, JobFacts, FinishedFacts DEF IsQueued, PoolInv, Job, Returned, Received
<1>4. ASSUME NEW t \in Thread, IsTaken(t) PROVE Returned'
  <2>1. Head(work) \in Job /\ result[Head(work)] = "none"
    BY <1>4, TailFacts DEF IsTaken, PoolInv, TypeOK, Queued
  <2> QED
    BY <1>4, <2>1 DEF IsTaken, PoolInv, TypeOK, Returned, Received
<1>5. ASSUME NEW t \in Thread, IsRun(t) PROVE Returned'
  <2>1. \A i \in 1..Len(finished) : finished[i] \in Job /\ finished[i] # job[t]
    BY DEF PoolInv, TypeOK, Returned
  <2> QED
    BY <1>5, <2>1 DEF IsRun, PoolInv, TypeOK, Returned, Received
<1>6. ASSUME NEW t \in Thread, IsReturned(t) PROVE Returned'
  <2>1. job[t] \in Job /\ job[t] # NoJob /\ result[job[t]] # "none" /\ job[t] \notin Received
    BY <1>6 DEF IsReturned, PoolInv, TypeOK, Job, Places
  <2>2. /\ Len(finished) \in Nat /\ Len(finished') = Len(finished) + 1
        /\ \A i \in 1..Len(finished) : finished'[i] = finished[i]
        /\ finished'[Len(finished) + 1] = job[t]
    BY <1>6, <2>1, AppendFacts DEF IsReturned, PoolInv, TypeOK
  <2>3. \A i \in 1..Len(finished') : /\ finished'[i] < state_index'
                                     /\ result'[finished'[i]] # "none"
                                     /\ finished'[i] \notin Received'
    BY <1>6, <2>1, <2>2 DEF IsReturned, PoolInv, Returned, Places, Received
  <2>4. \A i, k \in 1..Len(finished') : i # k => finished'[i] # finished'[k]
    BY <1>6, <2>1, <2>2 DEF IsReturned, PoolInv, Returned
  <2>5. \A i \in 1..Len(finished'), u \in Thread : finished'[i] # job'[u]
    <3>1. \A i \in 1..Len(finished) : finished[i] \in Job
      BY DEF PoolInv, TypeOK
    <3> QED
      <4>1. \A u \in Thread : job'[u] = job[u] \/ job'[u] = NoJob
        BY <1>6, JobFacts DEF IsReturned
      <4>2. \A u \in Thread : job'[u] = job[t] => job[t] = NoJob
        BY <1>6, <2>1, JobFacts DEF IsReturned, PoolInv, Places
      <4>3. \A i \in 1..Len(finished'), u \in Thread :
              finished'[i] # job[t] => finished'[i] \in Job /\ finished'[i] # job[u]
        BY <2>2, <3>1 DEF PoolInv, Returned
      <4>4. NoJob \notin Job
        BY JobFacts DEF Job
      <4> QED
        BY <2>1, <4>1, <4>2, <4>3, <4>4
  <2> QED
    BY <2>3, <2>4, <2>5 DEF Returned
<1>7. CASE IsReceived
  <2>1. /\ Len(finished) \in Nat /\ Len(finished') = Len(finished) - 1 /\ Len(finished) >= 1
        /\ \A i \in 1..Len(finished') : i + 1 \in 1..Len(finished) /\ finished'[i] = finished[i + 1]
        /\ Head(finished) = finished[1]
    BY <1>7, TailFacts DEF IsReceived, PoolInv, TypeOK
  <2>2. \A i \in 1..Len(finished') : /\ finished'[i] < state_index'
                                     /\ result'[finished'[i]] # "none"
                                     /\ finished'[i] \notin Received'
    <3>1. Received' = Received \cup {finished[1]}
      BY <1>7, <2>1 DEF IsReceived, Received
    <3> QED
      BY <1>7, <2>1, <3>1 DEF IsReceived, PoolInv, Returned
  <2>3. \A i, k \in 1..Len(finished') : i # k => finished'[i] # finished'[k]
    BY <1>7, <2>1 DEF IsReceived, PoolInv, Returned
  <2>4. \A i \in 1..Len(finished'), u \in Thread : finished'[i] # job'[u]
    BY <1>7, <2>1 DEF IsReceived, PoolInv, Returned
  <2> QED
    BY <2>2, <2>3, <2>4 DEF Returned
<1>8. CASE IsIntegrated
  BY <1>8, JobFacts DEF IsIntegrated, PoolInv, Returned, Received
<1> QED
  BY <1>1, <1>2, <1>3, <1>4, <1>5, <1>6, <1>7, <1>8 DEF Moves

(* Each move keeps the count of received results right.                    *)
LEMMA CountedMoves == ASSUME PoolInv, Moves, UNCHANGED n PROVE Counted'
<1> USE BoundAssumption DEF Main, Thread, Worker, NoJob
<1>1. CASE Stays
  BY <1>1 DEF Stays, jobvars, PoolInv, Counted, Received, Job
<1>2. CASE IsPrepared
  <2>1. Received' = Received
    BY <1>2 DEF IsPrepared, Received
  <2> QED
    BY <1>2, <2>1 DEF IsPrepared, PoolInv, TypeOK, Counted, Job
<1>3. CASE IsQueued
  BY <1>3 DEF IsQueued, PoolInv, TypeOK, Counted, Received, Job
<1>4. ASSUME NEW t \in Thread, IsTaken(t) PROVE Counted'
  BY <1>4 DEF IsTaken, PoolInv, TypeOK, Counted, Received, Job
<1>5. ASSUME NEW t \in Thread, IsRun(t) PROVE Counted'
  <2>1. Received' = Received
    BY <1>5 DEF IsRun, Received
  <2>2. job[t] \in Job /\ job[t] < state_index
    BY <1>5 DEF IsRun, PoolInv, TypeOK, Places, Job
  <2> QED
    BY <1>5, <2>1, <2>2 DEF IsRun, RunOutcome, PoolInv, TypeOK, Counted, Job
<1>6. ASSUME NEW t \in Thread, IsReturned(t) PROVE Counted'
  BY <1>6 DEF IsReturned, PoolInv, TypeOK, Counted, Received, Job
<1>7. CASE IsReceived
  <2>1. Head(finished) = finished[1] /\ 1 \in 1..Len(finished) /\ finished[1] \in Job
    BY <1>7, TailFacts DEF IsReceived, PoolInv, TypeOK
  <2>2. /\ finished[1] \notin Received
        /\ finished[1] < state_index
        /\ result[finished[1]] # "none"
    BY <2>1 DEF PoolInv, Returned
  <2>3. Received' = Received \cup {finished[1]}
    BY <1>7, <2>1 DEF IsReceived, Received
  <2>4. Cardinality(Received') = finished_count + 1
    BY <2>2, <2>3, ReceivedFinite, FS_AddElement DEF PoolInv, Counted
  <2>5. next <= finished[1]
    BY <2>1, <2>2 DEF Received, PoolInv, TypeOK, Job
  <2> QED
    BY <1>7, <2>1, <2>2, <2>4, <2>5 DEF IsReceived, PoolInv, Counted, Job
<1>8. CASE IsIntegrated
  <2>1. next \in Job /\ next < state_index /\ next \in Nat
    BY <1>8 DEF IsIntegrated, PoolInv, TypeOK, Counted, Job
  <2>2. 0..(next + 1)-1 = (0..next-1) \cup {next}
    BY <2>1
  <2>3. Received' = Received
    BY <1>8, <2>2 DEF IsIntegrated, Received
  <2>4. \A j \in by_index' : next' <= j
    <3> SUFFICES ASSUME NEW j \in by_index' PROVE next' <= j
      OBVIOUS
    <3>1. j \in by_index /\ j # next /\ next <= j /\ j \in Job
      BY <1>8 DEF IsIntegrated, PoolInv, TypeOK, Counted
    <3> QED
      BY <1>8, <2>1, <3>1 DEF IsIntegrated, Job
  <2> QED
    BY <1>8, <2>1, <2>3, <2>4 DEF IsIntegrated, PoolInv, TypeOK, Counted, Job
<1> QED
  BY <1>1, <1>2, <1>3, <1>4, <1>5, <1>6, <1>7, <1>8 DEF Moves

(* Each move integrates whole results only.                                *)
LEMMA WholeMoves == ASSUME PoolInv, Moves, UNCHANGED n PROVE Whole'
<1> USE BoundAssumption DEF Main, Thread, Worker, NoJob
<1>1. CASE Stays
  BY <1>1 DEF Stays, jobvars, PoolInv, TypeOK, Whole, Job
<1>2. CASE IsPrepared
  BY <1>2 DEF IsPrepared, PoolInv, TypeOK, Whole, Job
<1>3. CASE IsQueued
  BY <1>3 DEF IsQueued, PoolInv, TypeOK, Whole, Job
<1>4. ASSUME NEW t \in Thread, IsTaken(t) PROVE Whole'
  BY <1>4 DEF IsTaken, PoolInv, TypeOK, Whole, Job
<1>5. ASSUME NEW t \in Thread, IsRun(t) PROVE Whole'
  <2>1. job[t] \in Job /\ result[job[t]] = "none"
    BY <1>5 DEF IsRun, PoolInv, TypeOK, Places, Job
  <2>2. \A j \in 0..next-1 : j \in Job /\ j # job[t]
    BY <2>1 DEF PoolInv, TypeOK, Whole, Job
  <2> QED
    BY <1>5, <2>1, <2>2 DEF IsRun, PoolInv, TypeOK, Whole
<1>6. ASSUME NEW t \in Thread, IsReturned(t) PROVE Whole'
  BY <1>6 DEF IsReturned, PoolInv, TypeOK, Whole, Job
<1>7. CASE IsReceived
  BY <1>7 DEF IsReceived, PoolInv, TypeOK, Whole, Job
<1>8. CASE IsIntegrated
  <2>1. next \in Nat /\ result[next] \notin Broken \cup {"none"}
    BY <1>8 DEF IsIntegrated, PoolInv, TypeOK, Counted, Job
  <2>2. \A j \in 0..(next + 1)-1 : j = next \/ j \in 0..next-1
    BY <2>1
  <2> QED
    BY <1>8, <2>1, <2>2 DEF IsIntegrated, PoolInv, Whole
<1> QED
  BY <1>1, <1>2, <1>3, <1>4, <1>5, <1>6, <1>7, <1>8 DEF Moves

(* The two halves of the type invariant: what the moves change, and the    *)
(* rest.                                                                   *)
JobTypes ==
  /\ job \in [Thread -> Job \cup {NoJob}]
  /\ work \in Seq(Job)
  /\ finished \in Seq(Job)
  /\ result \in [Job -> {"none", "mapped", "unreadable", "not_run", "error"}]
  /\ state_index \in 0..n /\ next \in 0..n
  /\ by_index \subseteq Job
  /\ finished_count \in 0..n

ThreadTypes ==
  /\ n \in 0..MaxJobs
  /\ workers \in 0..MaxCores
  /\ pc \in [Thread -> Runner \cup {"drain", "extract", "push", "close", "collect",
                                    "final", "join", "reap", "done", "pop", "exit"}]
  /\ Len(work) <= workers
  /\ closed \in BOOLEAN /\ aborted \in BOOLEAN
  /\ work_not_full \subseteq {Main} /\ work_not_empty \subseteq Worker
  /\ fin_not_empty \subseteq {Main}
  /\ idle \in Seq(Job)
  /\ process \in [Thread -> Job \cup {NoJob}]
  /\ alive \subseteq Job
  /\ holders \in [Job -> SUBSET Job]

(* Each move keeps the types of what it changes.                           *)
LEMMA JobTypesMoves == ASSUME PoolInv, Moves, UNCHANGED n PROVE JobTypes'
<1> USE BoundAssumption DEF Main, Thread, Worker, NoJob
<1>1. CASE Stays
  BY <1>1 DEF Stays, jobvars, PoolInv, TypeOK, JobTypes, Job
<1>2. CASE IsPrepared
  <2>1. n \in Nat /\ state_index \in 0..n /\ state_index < n
    BY <1>2 DEF IsPrepared, PoolInv, TypeOK, Control
  <2> QED
    BY <1>2, <2>1 DEF IsPrepared, PoolInv, TypeOK, JobTypes, Job
<1>3. CASE IsQueued
  <2>1. job[Main] \in Job
    BY <1>3 DEF IsQueued, PoolInv, TypeOK, Places, Early
  <2> QED
    BY <1>3, <2>1, AppendFacts DEF IsQueued, PoolInv, TypeOK, JobTypes, Job
<1>4. ASSUME NEW t \in Thread, IsTaken(t) PROVE JobTypes'
  BY <1>4, TailFacts DEF IsTaken, PoolInv, TypeOK, JobTypes, Job
<1>5. ASSUME NEW t \in Thread, IsRun(t) PROVE JobTypes'
  BY <1>5 DEF IsRun, RunOutcome, PoolInv, TypeOK, JobTypes, Job
<1>6. ASSUME NEW t \in Thread, IsReturned(t) PROVE JobTypes'
  <2>1. job[t] \in Job
    BY <1>6 DEF IsReturned, PoolInv, TypeOK, Places
  <2>2. finished' \in Seq(Job)
    BY <1>6, <2>1, AppendFacts DEF IsReturned, PoolInv, TypeOK
  <2> QED
    BY <1>6, <2>2 DEF IsReturned, PoolInv, TypeOK, JobTypes, Job
<1>7. CASE IsReceived
  <2>1. finished' \in Seq(Job) /\ Head(finished) \in Job
    BY <1>7, TailFacts DEF IsReceived, PoolInv, TypeOK
  <2>2. Counted'
    BY CountedMoves
  <2>3. Received' \subseteq Job
    <3>1. Received' = Received \cup {Head(finished)}
      BY <1>7 DEF IsReceived, Received
    <3> QED
      BY <2>1, <3>1, ReceivedFinite
  <2>4. finished_count' <= n
    BY <2>2, <2>3, JobsFinite, FS_Subset DEF Counted, PoolInv
  <2>5. finished_count' \in 0..n
    BY <1>7, <2>4 DEF IsReceived, PoolInv, TypeOK
  <2> QED
    BY <1>7, <2>1, <2>5 DEF IsReceived, PoolInv, TypeOK, JobTypes, Job
<1>8. CASE IsIntegrated
  <2>1. next' \in 0..n
    BY <1>8 DEF IsIntegrated, PoolInv, TypeOK, Job
  <2> QED
    BY <1>8, <2>1 DEF IsIntegrated, PoolInv, TypeOK, JobTypes, Job
<1> QED
  BY <1>1, <1>2, <1>3, <1>4, <1>5, <1>6, <1>7, <1>8 DEF Moves

-----------------------------------------------------------------------------
(* The actions preserve the rest of it.                                    *)

(* Every action keeps the types of the rest.                               *)
LEMMA ThreadTypesStep == ASSUME PoolInv, Next PROVE ThreadTypes'
<1> USE BoundAssumption DEF Main, Thread, Worker, NoJob, procs, local, queues
<1>1. CASE DrainOne
  <2>1. fin_not_empty' \subseteq fin_not_empty
    BY <1>1, NotifiedFacts DEF DrainOne, Finished!pop_front
  <2> QED
    BY <1>1, <2>1 DEF DrainOne, At, Receive, Finished!pop_front, PoolInv, TypeOK, ThreadTypes, Runner, Job
<1>2. CASE DrainEnd
  BY <1>2 DEF DrainEnd, At, Goto, Finished!try_pop_empty, PoolInv, TypeOK, ThreadTypes, Runner, Job
<1>3. CASE ExtractOne
  BY <1>3 DEF ExtractOne, At, extract, PoolInv, TypeOK, ThreadTypes, Runner, Job
<1>4. CASE prepare_module
  BY <1>4 DEF prepare_module, At, Goto, PoolInv, TypeOK, ThreadTypes, Runner, Job
<1>5. CASE PushWork
  <2>1. Len(work') <= workers /\ workers' = workers
    <3>1. job[Main] \in Job
      BY <1>5 DEF PushWork, At, PoolInv, TypeOK, Places, Early
    <3>2. Len(work) \in Nat /\ Len(work') = Len(work) + 1
      BY <1>5, <3>1, AppendFacts DEF PushWork, Work!push_back, PoolInv, TypeOK
    <3> QED
      BY <1>5, <3>2 DEF PushWork, Work!push_back, PoolInv, TypeOK
  <2>2. work_not_full' \subseteq work_not_full /\ work_not_empty' \subseteq work_not_empty
    BY <1>5, NotifiedFacts DEF PushWork, Work!push_back
  <2> QED
    BY <1>5, <2>1, <2>2 DEF PushWork, At, Goto, LoopHead, Work!push_back, PoolInv, TypeOK, ThreadTypes, Runner, Job
<1>6. CASE PushWait
  BY <1>6 DEF PushWait, At, Work!push_wait, PoolInv, TypeOK, ThreadTypes, Runner, Job
<1>7. CASE Close
  BY <1>7 DEF Close, At, Goto, Work!close, PoolInv, TypeOK, ThreadTypes, Runner, Job
<1>8. CASE CollectOne
  <2>1. fin_not_empty' \subseteq fin_not_empty
    BY <1>8, NotifiedFacts DEF CollectOne, Finished!pop_front
  <2> QED
    BY <1>8, <2>1 DEF CollectOne, At, Receive, Finished!pop_front, PoolInv, TypeOK, ThreadTypes, Runner, Job
<1>9. CASE CollectWait
  BY <1>9 DEF CollectWait, At, Finished!pop_wait, PoolInv, TypeOK, ThreadTypes, Runner, Job
<1>10. CASE CollectEnd
  BY <1>10 DEF CollectEnd, At, Goto, PoolInv, TypeOK, ThreadTypes, Runner, Job
<1>11. CASE FinalExtract
  BY <1>11 DEF FinalExtract, At, extract, PoolInv, TypeOK, ThreadTypes, Runner, Job
<1>12. CASE FinalEnd
  BY <1>12 DEF FinalEnd, At, Goto, PoolInv, TypeOK, ThreadTypes, Runner, Job
<1>13. CASE Join
  BY <1>13 DEF Join, At, Goto, PoolInv, TypeOK, ThreadTypes, Runner, Job
<1>14. CASE Reap
  <2>1. CASE idle = <<>>
    BY <1>14, <2>1 DEF Reap, At, Goto, PoolInv, TypeOK, ThreadTypes, Runner, Job
  <2>2. CASE idle # <<>>
    <3>1. Tail(idle) \in Seq(Job)
      BY <2>2, TailFacts DEF PoolInv, TypeOK
    <3> QED
      BY <1>14, <2>2, <3>1 DEF Reap, At, Goto, PoolInv, TypeOK, ThreadTypes, Runner, Job
  <2> QED
    BY <2>1, <2>2
<1>15. ASSUME NEW t \in Worker, PopWork(t) PROVE ThreadTypes'
  <2>1. Len(work') <= workers /\ workers' = workers
    <3>1. Len(work) \in Nat /\ Len(work') = Len(work) - 1
      BY <1>15, TailFacts DEF PopWork, Work!pop_front, PoolInv, TypeOK
    <3> QED
      BY <1>15, <3>1 DEF PopWork, PoolInv, TypeOK
  <2>2. work_not_full' \subseteq work_not_full /\ work_not_empty' \subseteq work_not_empty
    BY <1>15, NotifiedFacts DEF PopWork, Work!pop_front
  <2> QED
    BY <1>15, <2>1, <2>2 DEF PopWork, At, Goto, Work!pop_front, PoolInv, TypeOK, ThreadTypes, Runner, Job
<1>16. ASSUME NEW t \in Worker, PopWait(t) PROVE ThreadTypes'
  BY <1>16 DEF PopWait, At, Work!pop_wait, PoolInv, TypeOK, ThreadTypes, Runner, Job
<1>17. ASSUME NEW t \in Worker, PopClosed(t) PROVE ThreadTypes'
  BY <1>17 DEF PopClosed, At, Goto, Work!pop_closed, PoolInv, TypeOK, ThreadTypes, Runner, Job
<1>18. ASSUME NEW t \in Thread, NotCalled(t) PROVE ThreadTypes'
  BY <1>18 DEF NotCalled, At, Goto, Outcome, PoolInv, TypeOK, ThreadTypes, Runner, Job
<1>19. ASSUME NEW t \in Thread, TakeProcess(t) PROVE ThreadTypes'
  <2>1. CASE idle = <<>>
    BY <1>19, <2>1 DEF TakeProcess, At, Goto, PoolInv, TypeOK, ThreadTypes, Runner, Job
  <2>2. CASE idle # <<>>
    <3>1. Tail(idle) \in Seq(Job) /\ Head(idle) \in Job
      BY <2>2, TailFacts DEF PoolInv, TypeOK
    <3> QED
      BY <1>19, <2>2, <3>1 DEF TakeProcess, At, Goto, PoolInv, TypeOK, ThreadTypes, Runner, Job
  <2> QED
    BY <2>1, <2>2
<1>20. ASSUME NEW t \in Thread, OpenPipes(t) PROVE ThreadTypes'
  BY <1>20 DEF OpenPipes, At, Goto, PoolInv, TypeOK, ThreadTypes, Runner, Job
<1>21. ASSUME NEW t \in Thread, Fork(t) PROVE ThreadTypes'
  <2>1. job[t] \in Job
    BY <1>21 DEF Fork, At, PoolInv, TypeOK, Places, Early
  <2>2. holders' \in [Job -> SUBSET Job]
    BY <1>21, <2>1 DEF Fork, PoolInv, TypeOK, Job
  <2> QED
    BY <1>21, <2>1, <2>2 DEF Fork, At, Goto, PoolInv, TypeOK, ThreadTypes, Runner, Job
<1>22. ASSUME NEW t \in Thread, SpawnFailed(t) PROVE ThreadTypes'
  BY <1>22 DEF SpawnFailed, Goto, Outcome, PoolInv, TypeOK, ThreadTypes, Runner, Job
<1>23. ASSUME NEW t \in Thread, AbcDone(t) PROVE ThreadTypes'
  <2>1. idle' \in Seq(Job)
    <3>1. process[t] \in Job
      BY <1>23 DEF AbcDone, PoolInv, InUse
    <3> QED
      BY <1>23, <3>1, ConsFacts DEF AbcDone, PoolInv, TypeOK
  <2> QED
    BY <1>23, <2>1 DEF AbcDone, At, Goto, PoolInv, TypeOK, ThreadTypes, Runner, Job
<1>24. ASSUME NEW t \in Thread, AbcFailed(t) PROVE ThreadTypes'
  BY <1>24 DEF AbcFailed, At, Goto, Outcome, EndOfFile, PoolInv, TypeOK, ThreadTypes, Runner, Job
<1>25. ASSUME NEW t \in Thread, PushFinished(t) PROVE ThreadTypes'
  <2>1. fin_not_empty' \subseteq fin_not_empty
    BY <1>25, NotifiedFacts DEF PushFinished, Finished!push_back
  <2> QED
    BY <1>25, <2>1 DEF PushFinished, At, Goto, LoopHead, Finished!push_back, PoolInv, TypeOK, ThreadTypes, Runner, Job
<1>26. ASSUME NEW t \in Thread, SpuriousWakeup(t) PROVE ThreadTypes'
  BY <1>26 DEF SpuriousWakeup, Work!spurious_wakeup, Finished!spurious_wakeup, PoolInv, TypeOK, ThreadTypes, Runner, Job
<1>27. ASSUME NEW p \in alive, Die(p) PROVE ThreadTypes'
  BY <1>27 DEF Die, PoolInv, TypeOK, ThreadTypes, Runner, Job
<1>28. CASE Terminated
  BY <1>28 DEF Terminated, vars, PoolInv, TypeOK, ThreadTypes, Runner, Job
<1> QED
  BY <1>1, <1>2, <1>3, <1>4, <1>5, <1>6, <1>7, <1>8, <1>9, <1>10, <1>11, <1>12, <1>13, <1>14,
     <1>15, <1>16, <1>17, <1>18, <1>19, <1>20, <1>21, <1>22, <1>23, <1>24, <1>25, <1>26, <1>27, <1>28
  DEF Next, MainNext, WorkerNext, RunAbc, Main, Thread, Worker

(* Every action leaves the threads where they may be.                      *)
LEMMA ControlStep == ASSUME PoolInv, Next PROVE Control'
<1> USE BoundAssumption DEF Main, Thread, Worker, NoJob, procs, local, queues
<1>1. CASE DrainOne
  BY <1>1 DEF DrainOne, At, Receive, Finished!pop_front, PoolInv, TypeOK, Control, Runner
<1>2. CASE DrainEnd
  BY <1>2 DEF DrainEnd, At, Goto, Finished!try_pop_empty, PoolInv, TypeOK, Control, Runner
<1>3. CASE ExtractOne
  BY <1>3 DEF ExtractOne, At, extract, PoolInv, TypeOK, Control, Runner
<1>4. CASE prepare_module
  <2>1. pc[Main] = "extract" /\ state_index' = state_index + 1
        /\ UNCHANGED <<n, workers, closed, next, finished_count>>
    BY <1>4 DEF prepare_module, At
  <2>2. pc' = [pc EXCEPT ![Main] = IF workers > 0 THEN "push" ELSE "run"]
    BY <1>4 DEF prepare_module, Goto
  <2> QED
    BY <2>1, <2>2 DEF PoolInv, TypeOK, Control, Runner
<1>5. CASE PushWork
  BY <1>5 DEF PushWork, At, Goto, LoopHead, Work!push_back, PoolInv, TypeOK, Control, Runner
<1>6. CASE PushWait
  BY <1>6 DEF PushWait, At, Work!push_wait, PoolInv, TypeOK, Control, Runner
<1>7. CASE Close
  BY <1>7 DEF Close, At, Goto, Work!close, PoolInv, TypeOK, Control, Runner
<1>8. CASE CollectOne
  BY <1>8 DEF CollectOne, At, Receive, Finished!pop_front, PoolInv, TypeOK, Control, Runner
<1>9. CASE CollectWait
  BY <1>9 DEF CollectWait, At, Finished!pop_wait, PoolInv, TypeOK, Control, Runner
<1>10. CASE CollectEnd
  BY <1>10 DEF CollectEnd, At, Goto, PoolInv, TypeOK, Control, Runner
<1>11. CASE FinalExtract
  BY <1>11 DEF FinalExtract, At, extract, PoolInv, TypeOK, Control, Runner
<1>12. CASE FinalEnd
  BY <1>12 DEF FinalEnd, At, Goto, PoolInv, TypeOK, Control, Runner
<1>13. CASE Join
  BY <1>13 DEF Join, At, Goto, PoolInv, TypeOK, Control, Runner
<1>14. CASE Reap
  <2>1. pc[Main] = "reap" /\ UNCHANGED <<n, workers, closed, local>>
    BY <1>14 DEF Reap, At
  <2>2. pc' = pc \/ pc' = [pc EXCEPT ![Main] = "done"]
    BY <1>14 DEF Reap, Goto
  <2> QED
    BY <2>1, <2>2 DEF PoolInv, TypeOK, Control, Runner
<1>15. ASSUME NEW t \in Worker, PopWork(t) PROVE Control'
  BY <1>15 DEF PopWork, At, Goto, Work!pop_front, PoolInv, TypeOK, Control, Runner
<1>16. ASSUME NEW t \in Worker, PopWait(t) PROVE Control'
  BY <1>16 DEF PopWait, At, Work!pop_wait, PoolInv, TypeOK, Control, Runner
<1>17. ASSUME NEW t \in Worker, PopClosed(t) PROVE Control'
  BY <1>17 DEF PopClosed, At, Goto, Work!pop_closed, PoolInv, TypeOK, Control, Runner
<1>18. ASSUME NEW t \in Thread, NotCalled(t) PROVE Control'
  BY <1>18 DEF NotCalled, At, Goto, Outcome, PoolInv, TypeOK, Control, Runner
<1>19. ASSUME NEW t \in Thread, TakeProcess(t) PROVE Control'
  <2>1. CASE idle = <<>>
    BY <1>19, <2>1 DEF TakeProcess, At, Goto, PoolInv, TypeOK, Control, Runner
  <2>2. CASE idle # <<>>
    <3>1. pc[t] = "run" /\ pc' = [pc EXCEPT ![t] = "abc"] /\ UNCHANGED <<n, workers, closed, local>>
      BY <1>19, <2>2 DEF TakeProcess, At, Goto
    <3> QED
      BY <3>1 DEF PoolInv, TypeOK, Control, Runner
  <2> QED
    BY <2>1, <2>2
<1>20. ASSUME NEW t \in Thread, OpenPipes(t) PROVE Control'
  <2>1. /\ pc[t] = "spawn" /\ pc' = [pc EXCEPT ![t] = "fork"]
        /\ UNCHANGED <<n, workers, closed, local>>
    BY <1>20 DEF OpenPipes, At, Goto
  <2> QED
    BY <2>1 DEF PoolInv, TypeOK, Control, Runner
<1>21. ASSUME NEW t \in Thread, Fork(t) PROVE Control'
  BY <1>21 DEF Fork, At, Goto, PoolInv, TypeOK, Control, Runner
<1>22. ASSUME NEW t \in Thread, SpawnFailed(t) PROVE Control'
  BY <1>22 DEF SpawnFailed, Goto, Outcome, PoolInv, TypeOK, Control, Runner
<1>23. ASSUME NEW t \in Thread, AbcDone(t) PROVE Control'
  <2>1. /\ pc[t] = "abc" /\ pc' = [pc EXCEPT ![t] = "finish"]
        /\ UNCHANGED <<n, workers, closed, local>>
    BY <1>23 DEF AbcDone, At, Goto
  <2> QED
    BY <2>1 DEF PoolInv, TypeOK, Control, Runner
<1>24. ASSUME NEW t \in Thread, AbcFailed(t) PROVE Control'
  <2>1. pc[t] = "abc" /\ UNCHANGED <<n, workers, closed, local>>
    BY <1>24 DEF AbcFailed, At
  <2>2. pc' = pc \/ pc' = [pc EXCEPT ![t] = "finish"]
    BY <1>24 DEF AbcFailed, Goto
  <2> QED
    BY <2>1, <2>2 DEF PoolInv, TypeOK, Control, Runner
<1>25. ASSUME NEW t \in Thread, PushFinished(t) PROVE Control'
  <2>1. CASE t = Main
    <3>1. state_index \in 0..n /\ n \in Nat
      BY DEF PoolInv, TypeOK
    <3>2. pc' = [pc EXCEPT ![Main] = IF state_index < n THEN "drain" ELSE "close"]
      BY <1>25, <2>1 DEF PushFinished, Goto, LoopHead
    <3>3. UNCHANGED <<n, workers, closed, local>>
      BY <1>25 DEF PushFinished
    <3>4. pc[Main] = "finish" /\ ~closed
      BY <1>25, <2>1 DEF PushFinished, At, PoolInv, Control
    <3> QED
      BY <3>1, <3>2, <3>3, <3>4 DEF PoolInv, TypeOK, Control, Runner
  <2>2. CASE t # Main
    BY <1>25, <2>2 DEF PushFinished, At, Goto, PoolInv, TypeOK, Control, Runner
  <2> QED
    BY <2>1, <2>2
<1>26. ASSUME NEW t \in Thread, SpuriousWakeup(t) PROVE Control'
  BY <1>26 DEF SpuriousWakeup, Work!spurious_wakeup, Finished!spurious_wakeup, PoolInv, TypeOK, Control, Runner
<1>27. ASSUME NEW p \in alive, Die(p) PROVE Control'
  BY <1>27 DEF Die, PoolInv, TypeOK, Control, Runner
<1>28. CASE Terminated
  BY <1>28 DEF Terminated, vars, PoolInv, TypeOK, Control, Runner
<1> QED
  BY <1>1, <1>2, <1>3, <1>4, <1>5, <1>6, <1>7, <1>8, <1>9, <1>10, <1>11, <1>12, <1>13, <1>14,
     <1>15, <1>16, <1>17, <1>18, <1>19, <1>20, <1>21, <1>22, <1>23, <1>24, <1>25, <1>26, <1>27, <1>28
  DEF Next, MainNext, WorkerNext, RunAbc, Main, Thread, Worker

(* Every action leaves only those waiting who have called a waiting        *)
(* operation.                                                              *)
LEMMA WaitingStep == ASSUME PoolInv, Next PROVE Waiting'
<1> USE BoundAssumption DEF Main, Thread, Worker, NoJob, procs, local, queues
<1>1. CASE DrainOne
  <2>1. Main \notin fin_not_empty /\ fin_not_empty' \subseteq fin_not_empty
    BY <1>1, NotifiedFacts DEF DrainOne, Finished!pop_front
  <2> QED
    BY <1>1, <2>1 DEF DrainOne, At, PoolInv, TypeOK, Control, Waiting, Runner
<1>2. CASE DrainEnd
  BY <1>2 DEF DrainEnd, At, Goto, Finished!try_pop_empty, PoolInv, TypeOK, Control, Waiting, Runner
<1>3. CASE ExtractOne
  BY <1>3 DEF ExtractOne, At, extract, PoolInv, TypeOK, Control, Waiting, Runner
<1>4. CASE prepare_module
  BY <1>4 DEF prepare_module, At, Goto, PoolInv, TypeOK, Control, Waiting, Runner
<1>5. CASE PushWork
  <2>1. work_not_empty' \subseteq work_not_empty /\ work_not_full' \subseteq work_not_full
    BY <1>5, NotifiedFacts DEF PushWork, Work!push_back
  <2> QED
    BY <1>5, <2>1 DEF PushWork, At, Goto, Work!push_back, PoolInv, TypeOK, Control, Waiting, Runner
<1>6. CASE PushWait
  BY <1>6 DEF PushWait, At, Work!push_wait, PoolInv, TypeOK, Control, Waiting, Runner
<1>7. CASE Close
  BY <1>7 DEF Close, At, Goto, Work!close, PoolInv, TypeOK, Control, Waiting, Runner
<1>8. CASE CollectOne
  <2>1. Main \notin fin_not_empty /\ fin_not_empty' \subseteq fin_not_empty
    BY <1>8, NotifiedFacts DEF CollectOne, Finished!pop_front
  <2> QED
    BY <1>8, <2>1 DEF CollectOne, At, PoolInv, TypeOK, Control, Waiting, Runner
<1>9. CASE CollectWait
  BY <1>9 DEF CollectWait, At, Finished!pop_wait, PoolInv, TypeOK, Control, Waiting, Runner
<1>10. CASE CollectEnd
  <2>1. Main \notin fin_not_empty
    BY <1>10 DEF CollectEnd, PoolInv, TypeOK, Waiting
  <2> QED
    BY <1>10, <2>1 DEF CollectEnd, At, Goto, PoolInv, TypeOK, Control, Waiting, Runner
<1>11. CASE FinalExtract
  BY <1>11 DEF FinalExtract, At, extract, PoolInv, TypeOK, Control, Waiting, Runner
<1>12. CASE FinalEnd
  BY <1>12 DEF FinalEnd, At, Goto, PoolInv, TypeOK, Control, Waiting, Runner
<1>13. CASE Join
  BY <1>13 DEF Join, At, Goto, PoolInv, TypeOK, Control, Waiting, Runner
<1>14. CASE Reap
  BY <1>14 DEF Reap, At, Goto, PoolInv, TypeOK, Control, Waiting, Runner
<1>15. ASSUME NEW t \in Worker, PopWork(t) PROVE Waiting'
  <2>1. work_not_empty' \subseteq work_not_empty /\ work_not_full' \subseteq work_not_full
    BY <1>15, NotifiedFacts DEF PopWork, Work!pop_front
  <2> QED
    BY <1>15, <2>1 DEF PopWork, At, Goto, Work!pop_front, PoolInv, TypeOK, Control, Waiting, Runner
<1>16. ASSUME NEW t \in Worker, PopWait(t) PROVE Waiting'
  BY <1>16 DEF PopWait, At, Work!pop_wait, PoolInv, TypeOK, Control, Waiting, Runner
<1>17. ASSUME NEW t \in Worker, PopClosed(t) PROVE Waiting'
  BY <1>17 DEF PopClosed, At, Goto, Work!pop_closed, PoolInv, TypeOK, Control, Waiting, Runner
<1>18. ASSUME NEW t \in Thread, NotCalled(t) PROVE Waiting'
  BY <1>18 DEF NotCalled, At, Goto, Outcome, PoolInv, TypeOK, Control, Waiting, Runner
<1>19. ASSUME NEW t \in Thread, TakeProcess(t) PROVE Waiting'
  <2>1. CASE idle = <<>>
    BY <1>19, <2>1 DEF TakeProcess, At, Goto, PoolInv, TypeOK, Control, Waiting, Runner
  <2>2. CASE idle # <<>>
    BY <1>19, <2>2 DEF TakeProcess, At, Goto, PoolInv, TypeOK, Control, Waiting, Runner
  <2> QED
    BY <2>1, <2>2
<1>20. ASSUME NEW t \in Thread, OpenPipes(t) PROVE Waiting'
  BY <1>20 DEF OpenPipes, At, Goto, PoolInv, TypeOK, Control, Waiting, Runner
<1>21. ASSUME NEW t \in Thread, Fork(t) PROVE Waiting'
  BY <1>21 DEF Fork, At, Goto, PoolInv, TypeOK, Control, Waiting, Runner
<1>22. ASSUME NEW t \in Thread, SpawnFailed(t) PROVE Waiting'
  BY <1>22 DEF SpawnFailed, Goto, Outcome, PoolInv, TypeOK, Control, Waiting, Runner
<1>23. ASSUME NEW t \in Thread, AbcDone(t) PROVE Waiting'
  BY <1>23 DEF AbcDone, At, Goto, Outcome, PoolInv, TypeOK, Control, Waiting, Runner
<1>24. ASSUME NEW t \in Thread, AbcFailed(t) PROVE Waiting'
  BY <1>24 DEF AbcFailed, At, Goto, Outcome, EndOfFile, PoolInv, TypeOK, Control, Waiting, Runner
<1>25. ASSUME NEW t \in Thread, PushFinished(t) PROVE Waiting'
  <2>1. fin_not_empty' \subseteq fin_not_empty
    BY <1>25, NotifiedFacts DEF PushFinished, Finished!push_back
  <2>2. pc[t] = "finish" /\ \A u \in Thread : u # t => pc'[u] = pc[u]
    BY <1>25 DEF PushFinished, At, Goto, PoolInv, TypeOK
  <2>3. UNCHANGED <<n, work_not_empty, work_not_full, finished_count>>
    BY <1>25 DEF PushFinished
  <2>4. t \notin work_not_empty /\ t \notin work_not_full /\ t \notin fin_not_empty
    BY <2>2 DEF PoolInv, TypeOK, Waiting
  <2> QED
    BY <2>1, <2>2, <2>3, <2>4 DEF PoolInv, TypeOK, Waiting
<1>26. ASSUME NEW t \in Thread, SpuriousWakeup(t) PROVE Waiting'
  BY <1>26 DEF SpuriousWakeup, Work!spurious_wakeup, Finished!spurious_wakeup, PoolInv, TypeOK, Control, Waiting, Runner
<1>27. ASSUME NEW p \in alive, Die(p) PROVE Waiting'
  BY <1>27 DEF Die, PoolInv, TypeOK, Control, Waiting, Runner
<1>28. CASE Terminated
  BY <1>28 DEF Terminated, vars, PoolInv, TypeOK, Control, Waiting, Runner
<1> QED
  BY <1>1, <1>2, <1>3, <1>4, <1>5, <1>6, <1>7, <1>8, <1>9, <1>10, <1>11, <1>12, <1>13, <1>14,
     <1>15, <1>16, <1>17, <1>18, <1>19, <1>20, <1>21, <1>22, <1>23, <1>24, <1>25, <1>26, <1>27, <1>28
  DEF Next, MainNext, WorkerNext, RunAbc, Main, Thread, Worker

(* No action loses a wakeup.                                               *)
LEMMA WakeupStep == ASSUME PoolInv, Next PROVE NoLostWakeup'
<1> USE BoundAssumption DEF Main, Thread, Worker, NoJob, procs, local, queues
<1>1. CASE DrainOne
  <2>1. Main \notin fin_not_empty'
    BY <1>1, NotifiedFacts DEF DrainOne, Finished!pop_front
  <2> QED
    BY <1>1, <2>1 DEF DrainOne, At, PoolInv, TypeOK, NoLostWakeup
<1>2. CASE DrainEnd
  BY <1>2 DEF DrainEnd, At, Goto, Finished!try_pop_empty, PoolInv, TypeOK, NoLostWakeup, Control, Waiting, Runner
<1>3. CASE ExtractOne
  BY <1>3 DEF ExtractOne, At, extract, PoolInv, TypeOK, NoLostWakeup, Control, Waiting, Runner
<1>4. CASE prepare_module
  BY <1>4 DEF prepare_module, At, Goto, PoolInv, TypeOK, NoLostWakeup, Control, Waiting, Runner
<1>5. CASE PushWork
  <2>1. Main \notin work_not_full' /\ work_not_empty' \subseteq work_not_empty
    BY <1>5, NotifiedFacts DEF PushWork, Work!push_back
  <2>2. ~closed' /\ UNCHANGED <<workers, finished, fin_not_empty>>
    BY <1>5 DEF PushWork, Work!push_back
  <2>3. \A u \in Worker : pc'[u] = pc[u]
    BY <1>5 DEF PushWork, Goto, PoolInv, TypeOK
  <2>4. ASSUME work_not_empty' # {} PROVE \E u \in Worker : pc[u] = "pop" /\ u \notin work_not_empty'
    <3>1. CASE work = <<>>
      <4>1. \E u \in work_not_empty : u \notin work_not_empty'
        BY <1>5, <2>1, <2>4, <3>1 DEF PushWork, Work!push_back, Work!Notified, Work!NotifyOne
      <4> QED
        BY <4>1 DEF PoolInv, TypeOK, Waiting
    <3>2. CASE work # <<>>
      BY <2>1, <2>4, <3>2 DEF PoolInv, NoLostWakeup
    <3> QED
      BY <3>1, <3>2
  <2> QED
    BY <2>1, <2>2, <2>3, <2>4 DEF PoolInv, NoLostWakeup
<1>6. CASE PushWait
  BY <1>6 DEF PushWait, At, Work!push_wait, PoolInv, TypeOK, NoLostWakeup, Control, Waiting, Runner
<1>7. CASE Close
  BY <1>7 DEF Close, At, Goto, Work!close, PoolInv, TypeOK, NoLostWakeup, Control, Waiting, Runner
<1>8. CASE CollectOne
  <2>1. Main \notin fin_not_empty'
    BY <1>8, NotifiedFacts DEF CollectOne, Finished!pop_front
  <2> QED
    BY <1>8, <2>1 DEF CollectOne, At, PoolInv, TypeOK, NoLostWakeup
<1>9. CASE CollectWait
  BY <1>9 DEF CollectWait, At, Finished!pop_wait, PoolInv, TypeOK, NoLostWakeup, Control, Waiting, Runner
<1>10. CASE CollectEnd
  BY <1>10 DEF CollectEnd, At, Goto, PoolInv, TypeOK, NoLostWakeup, Control, Waiting, Runner
<1>11. CASE FinalExtract
  BY <1>11 DEF FinalExtract, At, extract, PoolInv, TypeOK, NoLostWakeup, Control, Waiting, Runner
<1>12. CASE FinalEnd
  BY <1>12 DEF FinalEnd, At, Goto, PoolInv, TypeOK, NoLostWakeup, Control, Waiting, Runner
<1>13. CASE Join
  BY <1>13 DEF Join, At, Goto, PoolInv, TypeOK, NoLostWakeup, Control, Waiting, Runner
<1>14. CASE Reap
  BY <1>14 DEF Reap, At, Goto, PoolInv, TypeOK, NoLostWakeup, Control, Waiting, Runner
<1>15. ASSUME NEW t \in Worker, PopWork(t) PROVE NoLostWakeup'
  <2>1. t \notin work_not_empty /\ work_not_empty' \subseteq work_not_empty /\ work_not_full' \subseteq work_not_full
    BY <1>15, NotifiedFacts DEF PopWork, Work!pop_front
  <2>2. UNCHANGED <<workers, closed, finished, fin_not_empty>>
    BY <1>15 DEF PopWork, Work!pop_front
  <2>3. \A u \in Worker : u # t => pc'[u] = pc[u]
    BY <1>15 DEF PopWork, Goto, PoolInv, TypeOK
  <2>4. ASSUME work' # <<>>, work_not_empty' # {}
        PROVE  \E u \in Worker : pc'[u] = "pop" /\ u \notin work_not_empty'
    <3>1. \E u \in work_not_empty : u \notin work_not_empty'
      BY <1>15, <2>1, <2>4, NotifiedFacts DEF PopWork, Work!pop_front
    <3> QED
      BY <2>1, <2>3, <3>1 DEF PoolInv, TypeOK, Waiting
  <2>5. Main \notin work_not_full'
    <3>1. CASE Main \in work_not_full
      <4>1. Len(work) = workers /\ work_not_full = {Main}
        BY <3>1 DEF PoolInv, TypeOK, NoLostWakeup
      <4> QED
        BY <1>15, <3>1, <4>1 DEF PopWork, Work!pop_front, Work!Notified, Work!NotifyOne
    <3>2. CASE Main \notin work_not_full
      BY <2>1, <3>2
    <3> QED
      BY <3>1, <3>2
  <2> QED
    BY <2>1, <2>2, <2>4, <2>5 DEF PoolInv, NoLostWakeup
<1>16. ASSUME NEW t \in Worker, PopWait(t) PROVE NoLostWakeup'
  BY <1>16 DEF PopWait, At, Work!pop_wait, PoolInv, TypeOK, NoLostWakeup, Control, Waiting, Runner
<1>17. ASSUME NEW t \in Worker, PopClosed(t) PROVE NoLostWakeup'
  BY <1>17 DEF PopClosed, At, Goto, Work!pop_closed, PoolInv, TypeOK, NoLostWakeup, Control, Waiting, Runner
<1>18. ASSUME NEW t \in Thread, NotCalled(t) PROVE NoLostWakeup'
  BY <1>18 DEF NotCalled, At, Goto, Outcome, PoolInv, TypeOK, NoLostWakeup, Control, Waiting, Runner
<1>19. ASSUME NEW t \in Thread, TakeProcess(t) PROVE NoLostWakeup'
  <2>1. pc[t] = "run" /\ \A u \in Thread : u # t => pc'[u] = pc[u]
    BY <1>19 DEF TakeProcess, At, Goto, PoolInv, TypeOK
  <2>2. UNCHANGED <<workers, queues>>
    BY <1>19 DEF TakeProcess
  <2> QED
    BY <2>1, <2>2 DEF PoolInv, NoLostWakeup
<1>20. ASSUME NEW t \in Thread, OpenPipes(t) PROVE NoLostWakeup'
  BY <1>20 DEF OpenPipes, At, Goto, PoolInv, TypeOK, NoLostWakeup, Control, Waiting, Runner
<1>21. ASSUME NEW t \in Thread, Fork(t) PROVE NoLostWakeup'
  BY <1>21 DEF Fork, At, Goto, PoolInv, TypeOK, NoLostWakeup, Control, Waiting, Runner
<1>22. ASSUME NEW t \in Thread, SpawnFailed(t) PROVE NoLostWakeup'
  BY <1>22 DEF SpawnFailed, Goto, Outcome, PoolInv, TypeOK, NoLostWakeup, Control, Waiting, Runner
<1>23. ASSUME NEW t \in Thread, AbcDone(t) PROVE NoLostWakeup'
  BY <1>23 DEF AbcDone, At, Goto, Outcome, PoolInv, TypeOK, NoLostWakeup, Control, Waiting, Runner
<1>24. ASSUME NEW t \in Thread, AbcFailed(t) PROVE NoLostWakeup'
  BY <1>24 DEF AbcFailed, At, Goto, Outcome, EndOfFile, PoolInv, TypeOK, NoLostWakeup, Control, Waiting, Runner
<1>25. ASSUME NEW t \in Thread, PushFinished(t) PROVE NoLostWakeup'
  <2>1. pc[t] = "finish" /\ \A u \in Thread : u # t => pc'[u] = pc[u]
    BY <1>25 DEF PushFinished, At, Goto, PoolInv, TypeOK
  <2>2. UNCHANGED <<workers, work, closed, work_not_full, work_not_empty>>
    BY <1>25 DEF PushFinished
  <2>3. Main \notin fin_not_empty'
    <3>1. CASE Main \in fin_not_empty
      <4>1. finished = <<>> /\ fin_not_empty = {Main}
        BY <3>1 DEF PoolInv, TypeOK, NoLostWakeup
      <4> QED
        BY <1>25, <3>1, <4>1 DEF PushFinished, Finished!push_back, Finished!Notified, Finished!NotifyOne
    <3>2. CASE Main \notin fin_not_empty
      BY <1>25, <3>2, NotifiedFacts DEF PushFinished, Finished!push_back
    <3> QED
      BY <3>1, <3>2
  <2> QED
    BY <2>1, <2>2, <2>3 DEF PoolInv, NoLostWakeup
<1>26. ASSUME NEW t \in Thread, SpuriousWakeup(t) PROVE NoLostWakeup'
  <2>1. /\ work_not_empty' \subseteq work_not_empty /\ work_not_full' \subseteq work_not_full
        /\ fin_not_empty' \subseteq fin_not_empty
        /\ UNCHANGED <<workers, work, closed, finished, pc>>
    BY <1>26 DEF SpuriousWakeup, Work!spurious_wakeup, Finished!spurious_wakeup
  <2> QED
    BY <2>1 DEF PoolInv, NoLostWakeup
<1>27. ASSUME NEW p \in alive, Die(p) PROVE NoLostWakeup'
  BY <1>27 DEF Die, PoolInv, TypeOK, NoLostWakeup, Control, Waiting, Runner
<1>28. CASE Terminated
  BY <1>28 DEF Terminated, vars, PoolInv, TypeOK, NoLostWakeup, Control, Waiting, Runner
<1> QED
  BY <1>1, <1>2, <1>3, <1>4, <1>5, <1>6, <1>7, <1>8, <1>9, <1>10, <1>11, <1>12, <1>13, <1>14,
     <1>15, <1>16, <1>17, <1>18, <1>19, <1>20, <1>21, <1>22, <1>23, <1>24, <1>25, <1>26, <1>27, <1>28
  DEF Next, MainNext, WorkerNext, RunAbc, Main, Thread, Worker

(* An idle process has run a job, whose result stays.                      *)
LEMMA IdleHasRunStep == ASSUME PoolInv, Next PROVE IdleHasRun'
<1>1. Moves /\ UNCHANGED n
  BY StepMoves, StepParameters
<1>2. ASSUME idle # <<>> PROVE \E j \in Job' : result'[j] \in {"mapped", "unreadable"}
  BY <1>1, <1>2, ResultsStay DEF PoolInv, IdleHasRun, Job
<1>3. ASSUME NEW t \in Thread, AbcDone(t) PROVE IdleHasRun'
  <2>1. job[t] \in Job
    BY <1>3 DEF AbcDone, At, PoolInv, TypeOK, Places, Early
  <2> QED
    BY <1>1, <1>3, <2>1 DEF AbcDone, Outcome, PoolInv, TypeOK, IdleHasRun, Job
<1>4. CASE idle = <<>> /\ ~ \E t \in Thread : AbcDone(t)
  <2>0. ~AbcDone(Main) /\ \A t \in Worker : ~AbcDone(t)
    BY <1>4, BoundAssumption DEF Main, Thread, Worker
  <2>1. idle' = <<>>
    BY <1>4, <2>0 DEF Next, MainNext, WorkerNext, RunAbc, Terminated, vars, procs,
       DrainOne, DrainEnd, ExtractOne, extract, prepare_module, PushWork, PushWait, Close, CollectOne,
       CollectWait, CollectEnd, FinalExtract, FinalEnd, Join, Reap, PopWork, PopWait, PopClosed,
       NotCalled, TakeProcess, OpenPipes, Fork, SpawnFailed, AbcFailed, PushFinished, SpuriousWakeup, Die
  <2> QED
    BY <2>1 DEF IdleHasRun
<1> QED
  BY <1>2, <1>3, <1>4 DEF IdleHasRun

(* A thread that talks to ABC has a process.                               *)
LEMMA InUseStep == ASSUME PoolInv, Next PROVE InUse'
<1> USE BoundAssumption DEF Main, Thread, Worker, NoJob, procs, local, queues
<1>1. CASE DrainOne
  BY <1>1 DEF DrainOne, At, Receive, Finished!pop_front, PoolInv, TypeOK, InUse, Job, At
<1>2. CASE DrainEnd
  BY <1>2 DEF DrainEnd, At, Goto, Finished!try_pop_empty, PoolInv, TypeOK, InUse, Job, At
<1>3. CASE ExtractOne
  BY <1>3 DEF ExtractOne, At, extract, PoolInv, TypeOK, InUse, Job, At
<1>4. CASE prepare_module
  BY <1>4 DEF prepare_module, At, Goto, PoolInv, TypeOK, InUse, Job, At
<1>5. CASE PushWork
  BY <1>5 DEF PushWork, At, Goto, LoopHead, Work!push_back, PoolInv, TypeOK, InUse, Job, At
<1>6. CASE PushWait
  BY <1>6 DEF PushWait, At, Work!push_wait, PoolInv, TypeOK, InUse, Job, At
<1>7. CASE Close
  BY <1>7 DEF Close, At, Goto, Work!close, PoolInv, TypeOK, InUse, Job, At
<1>8. CASE CollectOne
  BY <1>8 DEF CollectOne, At, Receive, Finished!pop_front, PoolInv, TypeOK, InUse, Job, At
<1>9. CASE CollectWait
  BY <1>9 DEF CollectWait, At, Finished!pop_wait, PoolInv, TypeOK, InUse, Job, At
<1>10. CASE CollectEnd
  BY <1>10 DEF CollectEnd, At, Goto, PoolInv, TypeOK, InUse, Job, At
<1>11. CASE FinalExtract
  BY <1>11 DEF FinalExtract, At, extract, PoolInv, TypeOK, InUse, Job, At
<1>12. CASE FinalEnd
  BY <1>12 DEF FinalEnd, At, Goto, PoolInv, TypeOK, InUse, Job, At
<1>13. CASE Join
  BY <1>13 DEF Join, At, Goto, PoolInv, TypeOK, InUse, Job, At
<1>14. CASE Reap
  BY <1>14 DEF Reap, At, Goto, PoolInv, TypeOK, InUse, Job, At
<1>15. ASSUME NEW t \in Worker, PopWork(t) PROVE InUse'
  BY <1>15 DEF PopWork, At, Goto, Work!pop_front, PoolInv, TypeOK, InUse, Job, At
<1>16. ASSUME NEW t \in Worker, PopWait(t) PROVE InUse'
  BY <1>16 DEF PopWait, At, Work!pop_wait, PoolInv, TypeOK, InUse, Job, At
<1>17. ASSUME NEW t \in Worker, PopClosed(t) PROVE InUse'
  BY <1>17 DEF PopClosed, At, Goto, Work!pop_closed, PoolInv, TypeOK, InUse, Job, At
<1>18. ASSUME NEW t \in Thread, NotCalled(t) PROVE InUse'
  BY <1>18 DEF NotCalled, At, Goto, Outcome, PoolInv, TypeOK, InUse, Job, At
<1>19. ASSUME NEW t \in Thread, TakeProcess(t) PROVE InUse'
  <2>1. idle # <<>> => Head(idle) \in Job
    BY TailFacts DEF PoolInv, TypeOK
  <2> QED
    BY <1>19, <2>1 DEF TakeProcess, At, Goto, Job, PoolInv, TypeOK, InUse
<1>20. ASSUME NEW t \in Thread, OpenPipes(t) PROVE InUse'
  BY <1>20 DEF OpenPipes, At, Goto, PoolInv, TypeOK, InUse, Job, At
<1>21. ASSUME NEW t \in Thread, Fork(t) PROVE InUse'
  <2>1. job[t] \in Job
    BY <1>21 DEF Fork, At, PoolInv, TypeOK, Places, Early
  <2> QED
    BY <1>21, <2>1 DEF Fork, At, Goto, Job, PoolInv, TypeOK, InUse
<1>22. ASSUME NEW t \in Thread, SpawnFailed(t) PROVE InUse'
  BY <1>22 DEF SpawnFailed, Goto, Outcome, PoolInv, TypeOK, InUse, Job, At
<1>23. ASSUME NEW t \in Thread, AbcDone(t) PROVE InUse'
  BY <1>23 DEF AbcDone, At, Goto, Outcome, PoolInv, TypeOK, InUse, Job, At
<1>24. ASSUME NEW t \in Thread, AbcFailed(t) PROVE InUse'
  BY <1>24 DEF AbcFailed, At, Goto, Outcome, EndOfFile, PoolInv, TypeOK, InUse, Job, At
<1>25. ASSUME NEW t \in Thread, PushFinished(t) PROVE InUse'
  BY <1>25 DEF PushFinished, At, Goto, LoopHead, Finished!push_back, PoolInv, TypeOK, InUse, Job, At
<1>26. ASSUME NEW t \in Thread, SpuriousWakeup(t) PROVE InUse'
  BY <1>26 DEF SpuriousWakeup, Work!spurious_wakeup, Finished!spurious_wakeup, PoolInv, TypeOK, InUse, Job, At
<1>27. ASSUME NEW p \in alive, Die(p) PROVE InUse'
  BY <1>27 DEF Die, PoolInv, TypeOK, InUse, Job, At
<1>28. CASE Terminated
  BY <1>28 DEF Terminated, vars, PoolInv, TypeOK, InUse, Job, At
<1> QED
  BY <1>1, <1>2, <1>3, <1>4, <1>5, <1>6, <1>7, <1>8, <1>9, <1>10, <1>11, <1>12, <1>13, <1>14,
     <1>15, <1>16, <1>17, <1>18, <1>19, <1>20, <1>21, <1>22, <1>23, <1>24, <1>25, <1>26, <1>27, <1>28
  DEF Next, MainNext, WorkerNext, RunAbc, Main, Thread, Worker

Runners == IF workers = 0 THEN {Main} ELSE 1..workers

(* Only threads that run ABC are about to start or use a process.          *)
LEMMA UsersFacts ==
  ASSUME PoolInv
  PROVE  /\ Users \subseteq Runners
         /\ IsFiniteSet(Runners) /\ Cardinality(Runners) = IF workers = 0 THEN 1 ELSE workers
         /\ IsFiniteSet(Users) /\ Cardinality(Users) \in Nat
<1>1. Users \subseteq Runners
  BY BoundAssumption DEF PoolInv, TypeOK, Control, Users, Runners, Runner, Main, Thread, Worker
<1>2. IsFiniteSet(Runners) /\ Cardinality(Runners) = IF workers = 0 THEN 1 ELSE workers
  <2>1. CASE workers = 0
    BY <2>1, FS_Singleton DEF Runners
  <2>2. CASE workers # 0
    <3>1. workers \in Int /\ 1 \in Int /\ workers >= 1
      BY <2>2, BoundAssumption DEF PoolInv, TypeOK
    <3> QED
      BY <2>2, <3>1, FS_Interval DEF Runners
  <2> QED
    BY <2>1, <2>2
<1> QED
  BY <1>1, <1>2, FS_Subset, FS_CardinalityType

(* The numbers the bound is about.                                         *)
LEMMA BoundFacts ==
  ASSUME PoolInv
  PROVE  workers \in Nat /\ Cardinality(Users) \in Nat /\ Len(idle) \in Nat /\ ProcessBound
<1>1. workers \in Nat /\ Len(idle) \in Nat
  BY BoundAssumption DEF PoolInv, TypeOK
<1> QED
  BY <1>1, UsersFacts DEF PoolInv

(* No action exceeds the bound on processes.                               *)
LEMMA BoundStep == ASSUME PoolInv, Next PROVE ProcessBound'
<1> USE BoundAssumption DEF Main, Thread, Worker, NoJob, procs, local, queues
<1>1. CASE DrainOne
  <2>1. Users' = Users
    BY <1>1 DEF DrainOne, At, Users, PoolInv, TypeOK
  <2> QED
    BY <1>1, <2>1 DEF DrainOne, PoolInv, ProcessBound
<1>2. CASE DrainEnd
  <2>1. Users' = Users
    BY <1>2 DEF DrainEnd, At, Goto, Users, PoolInv, TypeOK
  <2> QED
    BY <1>2, <2>1 DEF DrainEnd, PoolInv, ProcessBound
<1>3. CASE ExtractOne
  <2>1. Users' = Users
    BY <1>3 DEF ExtractOne, At, extract, Users, PoolInv, TypeOK
  <2> QED
    BY <1>3, <2>1 DEF ExtractOne, extract, PoolInv, ProcessBound
<1>4. CASE prepare_module
  <2>1. Users' = Users
    BY <1>4 DEF prepare_module, At, Goto, Users, PoolInv, TypeOK
  <2> QED
    BY <1>4, <2>1 DEF prepare_module, PoolInv, ProcessBound
<1>5. CASE PushWork
  <2>1. Users' = Users
    BY <1>5 DEF PushWork, At, Goto, LoopHead, Users, PoolInv, TypeOK
  <2> QED
    BY <1>5, <2>1 DEF PushWork, PoolInv, ProcessBound
<1>6. CASE PushWait
  <2>1. Users' = Users
    BY <1>6 DEF PushWait, At, Users, PoolInv, TypeOK
  <2> QED
    BY <1>6, <2>1 DEF PushWait, PoolInv, ProcessBound
<1>7. CASE Close
  <2>1. Users' = Users
    BY <1>7 DEF Close, At, Goto, Users, PoolInv, TypeOK
  <2> QED
    BY <1>7, <2>1 DEF Close, PoolInv, ProcessBound
<1>8. CASE CollectOne
  <2>1. Users' = Users
    BY <1>8 DEF CollectOne, At, Users, PoolInv, TypeOK
  <2> QED
    BY <1>8, <2>1 DEF CollectOne, PoolInv, ProcessBound
<1>9. CASE CollectWait
  <2>1. Users' = Users
    BY <1>9 DEF CollectWait, At, Users, PoolInv, TypeOK
  <2> QED
    BY <1>9, <2>1 DEF CollectWait, PoolInv, ProcessBound
<1>10. CASE CollectEnd
  <2>1. Users' = Users
    BY <1>10 DEF CollectEnd, At, Goto, Users, PoolInv, TypeOK
  <2> QED
    BY <1>10, <2>1 DEF CollectEnd, PoolInv, ProcessBound
<1>11. CASE FinalExtract
  <2>1. Users' = Users
    BY <1>11 DEF FinalExtract, At, extract, Users, PoolInv, TypeOK
  <2> QED
    BY <1>11, <2>1 DEF FinalExtract, extract, PoolInv, ProcessBound
<1>12. CASE FinalEnd
  <2>1. Users' = Users
    BY <1>12 DEF FinalEnd, At, Goto, Users, PoolInv, TypeOK
  <2> QED
    BY <1>12, <2>1 DEF FinalEnd, PoolInv, ProcessBound
<1>13. CASE Join
  <2>1. Users' = Users
    BY <1>13 DEF Join, At, Goto, Users, PoolInv, TypeOK
  <2> QED
    BY <1>13, <2>1 DEF Join, PoolInv, ProcessBound
<1>14. CASE Reap
  <2>1. Users' = Users
    BY <1>14 DEF Reap, At, Goto, Users, PoolInv, TypeOK
  <2>2. Len(idle') <= Len(idle) /\ Len(idle) \in Nat /\ Len(idle') \in Nat
    <3>1. CASE idle = <<>>
      BY <1>14, <3>1 DEF Reap
    <3>2. CASE idle # <<>>
      <4>1. Len(Tail(idle)) = Len(idle) - 1 /\ Len(idle) \in Nat /\ Len(idle) >= 1
        BY <3>2, TailFacts DEF PoolInv, TypeOK
      <4> QED
        BY <1>14, <3>2, <4>1 DEF Reap
    <3> QED
      BY <3>1, <3>2
  <2>3. UNCHANGED workers
    BY <1>14 DEF Reap
  <2> QED
    BY <2>1, <2>2, <2>3, BoundFacts DEF ProcessBound
<1>15. ASSUME NEW t \in Worker, PopWork(t) PROVE ProcessBound'
  <2>1. Users' = Users
    BY <1>15 DEF PopWork, At, Goto, Users, PoolInv, TypeOK
  <2> QED
    BY <1>15, <2>1 DEF PopWork, PoolInv, ProcessBound
<1>16. ASSUME NEW t \in Worker, PopWait(t) PROVE ProcessBound'
  <2>1. Users' = Users
    BY <1>16 DEF PopWait, At, Users, PoolInv, TypeOK
  <2> QED
    BY <1>16, <2>1 DEF PopWait, PoolInv, ProcessBound
<1>17. ASSUME NEW t \in Worker, PopClosed(t) PROVE ProcessBound'
  <2>1. Users' = Users
    BY <1>17 DEF PopClosed, At, Goto, Users, PoolInv, TypeOK
  <2> QED
    BY <1>17, <2>1 DEF PopClosed, PoolInv, ProcessBound
<1>18. ASSUME NEW t \in Thread, NotCalled(t) PROVE ProcessBound'
  <2>1. Users' = Users
    BY <1>18 DEF NotCalled, At, Goto, Users, PoolInv, TypeOK
  <2> QED
    BY <1>18, <2>1 DEF NotCalled, PoolInv, ProcessBound
<1>19. ASSUME NEW t \in Thread, TakeProcess(t) PROVE ProcessBound'
  <2>1. Users' = Users \cup {t} /\ t \notin Users
    BY <1>19 DEF TakeProcess, At, Goto, Users, PoolInv, TypeOK
  <2>2. Cardinality(Users') = Cardinality(Users) + 1
    BY <2>1, UsersFacts, FS_AddElement
  <2>3. UNCHANGED workers
    BY <1>19 DEF TakeProcess
  <2>4. CASE idle # <<>>
    <3>1. Len(Tail(idle)) = Len(idle) - 1 /\ Len(idle) \in Nat
      BY <2>4, TailFacts DEF PoolInv, TypeOK
    <3>2. Len(idle') = Len(idle) - 1
      BY <1>19, <2>4, <3>1 DEF TakeProcess
    <3>3. Len(idle') + Cardinality(Users') = Len(idle) + Cardinality(Users)
      <4>1. Cardinality(Users) \in Nat
        BY UsersFacts
      <4> QED
        BY <2>2, <3>1, <3>2, <4>1
    <3> QED
      BY <2>3, <3>3 DEF PoolInv, ProcessBound
  <2>5. CASE idle = <<>>
    <3>1. idle' = idle /\ Len(idle) = 0
      BY <1>19, <2>5 DEF TakeProcess
    <3>2. Users' \subseteq Runners
      <4>1. t \in Runners
        BY <1>19 DEF TakeProcess, At, PoolInv, TypeOK, Control, Runners, Runner
      <4> QED
        BY <2>1, <4>1, UsersFacts
    <3>3. Cardinality(Users') <= Cardinality(Runners)
      BY <3>2, UsersFacts, FS_Subset
    <3> QED
      BY <2>2, <2>3, <3>1, <3>3, UsersFacts DEF ProcessBound
  <2> QED
    BY <2>4, <2>5
<1>20. ASSUME NEW t \in Thread, OpenPipes(t) PROVE ProcessBound'
  <2>1. Users' = Users
    BY <1>20 DEF OpenPipes, At, Goto, Users, PoolInv, TypeOK
  <2> QED
    BY <1>20, <2>1 DEF OpenPipes, PoolInv, ProcessBound
<1>21. ASSUME NEW t \in Thread, Fork(t) PROVE ProcessBound'
  <2>1. Users' = Users
    BY <1>21 DEF Fork, At, Goto, Users, PoolInv, TypeOK
  <2> QED
    BY <1>21, <2>1 DEF Fork, PoolInv, ProcessBound
<1>22. ASSUME NEW t \in Thread, SpawnFailed(t) PROVE ProcessBound'
  <2>1. Users' = Users \ {t} /\ t \in Users
    BY <1>22 DEF SpawnFailed, Goto, Users, PoolInv, TypeOK
  <2>2. Cardinality(Users') = Cardinality(Users) - 1
    BY <2>1, UsersFacts, FS_RemoveElement
  <2>4. UNCHANGED <<workers, idle>>
    BY <1>22 DEF SpawnFailed
  <2> QED
    BY <2>2, <2>4, BoundFacts DEF ProcessBound
<1>23. ASSUME NEW t \in Thread, AbcDone(t) PROVE ProcessBound'
  <2>1. Users' = Users \ {t} /\ t \in Users
    BY <1>23 DEF AbcDone, At, Goto, Users, PoolInv, TypeOK
  <2>2. Cardinality(Users') = Cardinality(Users) - 1
    BY <2>1, UsersFacts, FS_RemoveElement
  <2>3. process[t] \in Job
    BY <1>23 DEF AbcDone, PoolInv, InUse
  <2>4. Len(idle') = Len(idle) + 1 /\ Len(idle) \in Nat
    BY <1>23, <2>3, ConsFacts DEF AbcDone, PoolInv, TypeOK
  <2>5. UNCHANGED workers
    BY <1>23 DEF AbcDone
  <2> QED
    BY <2>2, <2>4, <2>5, BoundFacts DEF ProcessBound
<1>24. ASSUME NEW t \in Thread, AbcFailed(t) PROVE ProcessBound'
  <2>1. CASE pc' = pc
    <3>1. Users' = Users
      BY <2>1 DEF Users
    <3> QED
      BY <1>24, <3>1 DEF AbcFailed, PoolInv, ProcessBound
  <2>2. CASE Goto(t, "finish")
    <3>1. Users' = Users \ {t} /\ t \in Users
      BY <1>24, <2>2 DEF AbcFailed, At, Goto, Users, PoolInv, TypeOK
    <3>2. Cardinality(Users') = Cardinality(Users) - 1
      BY <3>1, UsersFacts, FS_RemoveElement
    <3>4. UNCHANGED <<workers, idle>>
      BY <1>24 DEF AbcFailed
    <3> QED
      BY <3>2, <3>4, BoundFacts DEF ProcessBound
  <2> QED
    BY <1>24, <2>1, <2>2 DEF AbcFailed
<1>25. ASSUME NEW t \in Thread, PushFinished(t) PROVE ProcessBound'
  <2>1. Users' = Users
    BY <1>25 DEF PushFinished, At, Goto, LoopHead, Users, PoolInv, TypeOK
  <2> QED
    BY <1>25, <2>1 DEF PushFinished, PoolInv, ProcessBound
<1>26. ASSUME NEW t \in Thread, SpuriousWakeup(t) PROVE ProcessBound'
  <2>1. Users' = Users
    BY <1>26 DEF SpuriousWakeup, Users, PoolInv, TypeOK
  <2> QED
    BY <1>26, <2>1 DEF SpuriousWakeup, PoolInv, ProcessBound
<1>27. ASSUME NEW p \in alive, Die(p) PROVE ProcessBound'
  <2>1. Users' = Users
    BY <1>27 DEF Die, Users, PoolInv, TypeOK
  <2> QED
    BY <1>27, <2>1 DEF Die, PoolInv, ProcessBound
<1>28. CASE Terminated
  BY <1>28 DEF Terminated, vars, PoolInv, ProcessBound, Users
<1> QED
  BY <1>1, <1>2, <1>3, <1>4, <1>5, <1>6, <1>7, <1>8, <1>9, <1>10, <1>11, <1>12, <1>13, <1>14,
     <1>15, <1>16, <1>17, <1>18, <1>19, <1>20, <1>21, <1>22, <1>23, <1>24, <1>25, <1>26, <1>27, <1>28
  DEF Next, MainNext, WorkerNext, RunAbc, Main, Thread, Worker

(* Every action is a step of the pipeline or leaves it alone.              *)
LEMMA StepRefines == ASSUME PoolInv, Next PROVE [Abstract!PNext]_(Abstract!pvars)
<1> USE BoundAssumption DEF Main, Thread, Worker, NoJob, procs, local, queues
<1>1. CASE DrainOne
  BY <1>1 DEF DrainOne, At, Receive, Finished!pop_front, PoolInv, TypeOK, Control, Runner, status, Abstract!pvars
<1>2. CASE DrainEnd
  BY <1>2 DEF DrainEnd, At, Goto, Finished!try_pop_empty, PoolInv, TypeOK, Control, Runner, status, Abstract!pvars
<1>3. CASE ExtractOne
  <2>1. next \in Job /\ next < state_index /\ result[next] # "none"
    BY <1>3 DEF ExtractOne, extract, PoolInv, TypeOK, Counted
  <2>2. CASE result[next] \in Broken
    <3>1. Abstract!Reject
      BY <1>3, <2>1, <2>2 DEF ExtractOne, At, extract, Broken, Abstract!Reject, Abstract!Broken, status
    <3> QED
      BY <3>1 DEF Abstract!PNext
  <2>3. CASE result[next] \notin Broken
    <3>1. Abstract!Integrate
      BY <1>3, <2>1, <2>3 DEF ExtractOne, At, extract, Broken, Abstract!Integrate, Abstract!Broken, status
    <3> QED
      BY <3>1 DEF Abstract!PNext
  <2> QED
    BY <2>2, <2>3
<1>4. CASE prepare_module
  <2>1. Abstract!Prepare
    BY <1>4 DEF prepare_module, At, Goto, Abstract!Prepare, status, PoolInv, TypeOK, Control
  <2> QED
    BY <2>1 DEF Abstract!PNext
<1>5. CASE PushWork
  BY <1>5 DEF PushWork, At, Goto, LoopHead, Work!push_back, PoolInv, TypeOK, Control, Runner, status, Abstract!pvars
<1>6. CASE PushWait
  BY <1>6 DEF PushWait, At, Work!push_wait, PoolInv, TypeOK, Control, Runner, status, Abstract!pvars
<1>7. CASE Close
  BY <1>7 DEF Close, At, Goto, Work!close, PoolInv, TypeOK, Control, Runner, status, Abstract!pvars
<1>8. CASE CollectOne
  BY <1>8 DEF CollectOne, At, Receive, Finished!pop_front, PoolInv, TypeOK, Control, Runner, status, Abstract!pvars
<1>9. CASE CollectWait
  BY <1>9 DEF CollectWait, At, Finished!pop_wait, PoolInv, TypeOK, Control, Runner, status, Abstract!pvars
<1>10. CASE CollectEnd
  BY <1>10 DEF CollectEnd, At, Goto, PoolInv, TypeOK, Control, Runner, status, Abstract!pvars
<1>11. CASE FinalExtract
  <2>1. next \in Job /\ next < state_index /\ result[next] # "none"
    BY <1>11 DEF FinalExtract, extract, PoolInv, TypeOK, Counted
  <2>2. CASE result[next] \in Broken
    <3>1. Abstract!Reject
      BY <1>11, <2>1, <2>2 DEF FinalExtract, At, extract, Broken, Abstract!Reject, Abstract!Broken, status
    <3> QED
      BY <3>1 DEF Abstract!PNext
  <2>3. CASE result[next] \notin Broken
    <3>1. Abstract!Integrate
      BY <1>11, <2>1, <2>3 DEF FinalExtract, At, extract, Broken, Abstract!Integrate, Abstract!Broken, status
    <3> QED
      BY <3>1 DEF Abstract!PNext
  <2> QED
    BY <2>2, <2>3
<1>12. CASE FinalEnd
  BY <1>12 DEF FinalEnd, At, Goto, PoolInv, TypeOK, Control, Runner, status, Abstract!pvars
<1>13. CASE Join
  BY <1>13 DEF Join, At, Goto, PoolInv, TypeOK, Control, Runner, status, Abstract!pvars
<1>14. CASE Reap
  <2>1. next = n /\ status = "running" /\ UNCHANGED <<n, state_index, result, next>>
    BY <1>14 DEF Reap, At, status, PoolInv, Control
  <2>2. CASE idle = <<>>
    <3>1. status' = "done"
      BY <1>14, <2>2 DEF Reap, At, Goto, status, PoolInv, TypeOK
    <3> QED
      BY <2>1, <3>1 DEF Abstract!End, Abstract!PNext
  <2>3. CASE idle # <<>>
    <3>1. \E j \in 0..n-1 : result[j] = "mapped"
      BY <2>1, <2>3 DEF PoolInv, IdleHasRun, Whole, Broken, Job
    <3>2. status' \in {"running", "aborted"}
      BY <1>14, <2>1, <2>3 DEF Reap, At, status
    <3> QED
      BY <2>1, <3>1, <3>2 DEF Abstract!End, Abstract!PNext, Abstract!pvars
  <2> QED
    BY <2>2, <2>3
<1>15. ASSUME NEW t \in Worker, PopWork(t) PROVE [Abstract!PNext]_(Abstract!pvars)
  BY <1>15 DEF PopWork, At, Goto, Work!pop_front, PoolInv, TypeOK, Control, Runner, status, Abstract!pvars
<1>16. ASSUME NEW t \in Worker, PopWait(t) PROVE [Abstract!PNext]_(Abstract!pvars)
  BY <1>16 DEF PopWait, At, Work!pop_wait, PoolInv, TypeOK, Control, Runner, status, Abstract!pvars
<1>17. ASSUME NEW t \in Worker, PopClosed(t) PROVE [Abstract!PNext]_(Abstract!pvars)
  BY <1>17 DEF PopClosed, At, Goto, Work!pop_closed, PoolInv, TypeOK, Control, Runner, status, Abstract!pvars
<1>18. ASSUME NEW t \in Thread, NotCalled(t) PROVE [Abstract!PNext]_(Abstract!pvars)
  <2>1. job[t] \in 0..state_index-1 /\ job[t] \in Job /\ result[job[t]] = "none"
    BY <1>18 DEF NotCalled, At, PoolInv, TypeOK, Places, Early, Job
  <2>2. status = "running"
    BY <1>18 DEF NotCalled, At, status, PoolInv, Control, Runner
  <2>3. Abstract!Run(job[t])
    BY <1>18, <2>1, <2>2 DEF NotCalled, At, Goto, Outcome, Abstract!Run, Abstract!Outcome, Abstract!Broken,
       status, PoolInv, TypeOK, Control, Runner
  <2> QED
    BY <2>1, <2>3 DEF Abstract!PNext
<1>19. ASSUME NEW t \in Thread, TakeProcess(t) PROVE [Abstract!PNext]_(Abstract!pvars)
  BY <1>19 DEF TakeProcess, At, Goto, PoolInv, TypeOK, Control, Runner, status, Abstract!pvars
<1>20. ASSUME NEW t \in Thread, OpenPipes(t) PROVE [Abstract!PNext]_(Abstract!pvars)
  BY <1>20 DEF OpenPipes, At, Goto, PoolInv, TypeOK, Control, Runner, status, Abstract!pvars
<1>21. ASSUME NEW t \in Thread, Fork(t) PROVE [Abstract!PNext]_(Abstract!pvars)
  BY <1>21 DEF Fork, At, Goto, PoolInv, TypeOK, Control, Runner, status, Abstract!pvars
<1>22. ASSUME NEW t \in Thread, SpawnFailed(t) PROVE [Abstract!PNext]_(Abstract!pvars)
  <2>1. job[t] \in 0..state_index-1 /\ job[t] \in Job /\ result[job[t]] = "none"
    BY <1>22 DEF SpawnFailed, At, PoolInv, TypeOK, Places, Early, Job
  <2>2. status = "running"
    BY <1>22 DEF SpawnFailed, At, status, PoolInv, Control, Runner
  <2>3. Abstract!Run(job[t])
    BY <1>22, <2>1, <2>2 DEF SpawnFailed, At, Goto, Outcome, Abstract!Run, Abstract!Outcome, Abstract!Broken,
       status, PoolInv, TypeOK, Control, Runner
  <2> QED
    BY <2>1, <2>3 DEF Abstract!PNext
<1>23. ASSUME NEW t \in Thread, AbcDone(t) PROVE [Abstract!PNext]_(Abstract!pvars)
  <2>1. job[t] \in 0..state_index-1 /\ job[t] \in Job /\ result[job[t]] = "none"
    BY <1>23 DEF AbcDone, At, PoolInv, TypeOK, Places, Early, Job
  <2>2. status = "running"
    BY <1>23 DEF AbcDone, At, status, PoolInv, Control, Runner
  <2>3. status' = "running" /\ UNCHANGED <<n, state_index, next>>
    BY <1>23 DEF AbcDone, At, Goto, status, PoolInv, TypeOK, Control, Runner
  <2>4. \E r \in {"mapped", "unreadable"} : result' = [result EXCEPT ![job[t]] = r]
    BY <1>23 DEF AbcDone, Outcome
  <2>5. Abstract!Run(job[t])
    BY <2>1, <2>2, <2>3, <2>4 DEF Abstract!Run, Abstract!Outcome
  <2> QED
    BY <2>1, <2>5 DEF Abstract!PNext
<1>24. ASSUME NEW t \in Thread, AbcFailed(t) PROVE [Abstract!PNext]_(Abstract!pvars)
  <2>1. job[t] \in 0..state_index-1 /\ job[t] \in Job /\ result[job[t]] = "none"
    BY <1>24 DEF AbcFailed, At, PoolInv, TypeOK, Places, Early, Job
  <2>2. status = "running"
    BY <1>24 DEF AbcFailed, At, status, PoolInv, Control, Runner
  <2>3. Abstract!Run(job[t])
    BY <1>24, <2>1, <2>2 DEF AbcFailed, At, Goto, Outcome, Abstract!Run, Abstract!Outcome, Abstract!Broken,
       status, PoolInv, TypeOK, Control, Runner
  <2> QED
    BY <2>1, <2>3 DEF Abstract!PNext
<1>25. ASSUME NEW t \in Thread, PushFinished(t) PROVE [Abstract!PNext]_(Abstract!pvars)
  BY <1>25 DEF PushFinished, At, Goto, LoopHead, Finished!push_back, PoolInv, TypeOK, Control, Runner, status, Abstract!pvars
<1>26. ASSUME NEW t \in Thread, SpuriousWakeup(t) PROVE [Abstract!PNext]_(Abstract!pvars)
  BY <1>26 DEF SpuriousWakeup, Work!spurious_wakeup, Finished!spurious_wakeup, PoolInv, TypeOK, Control, Runner, status, Abstract!pvars
<1>27. ASSUME NEW p \in alive, Die(p) PROVE [Abstract!PNext]_(Abstract!pvars)
  BY <1>27 DEF Die, PoolInv, TypeOK, Control, Runner, status, Abstract!pvars
<1>28. CASE Terminated
  BY <1>28 DEF Terminated, vars, status, Abstract!pvars
<1> QED
  BY <1>1, <1>2, <1>3, <1>4, <1>5, <1>6, <1>7, <1>8, <1>9, <1>10, <1>11, <1>12, <1>13, <1>14,
     <1>15, <1>16, <1>17, <1>18, <1>19, <1>20, <1>21, <1>22, <1>23, <1>24, <1>25, <1>26, <1>27, <1>28
  DEF Next, MainNext, WorkerNext, RunAbc, Main, Thread, Worker

-----------------------------------------------------------------------------
(* The theorems.                                                           *)

LEMMA InvStep == ASSUME PoolInv, [Next]_vars PROVE PoolInv'
<1>1. CASE Next
  <2>1. Moves /\ UNCHANGED n
    BY <1>1, StepMoves, StepParameters
  <2>2. TypeOK'
    <3>1. JobTypes'
      BY <2>1, JobTypesMoves
    <3>2. ThreadTypes'
      BY <1>1, ThreadTypesStep
    <3> QED
      BY <3>1, <3>2 DEF JobTypes, ThreadTypes, TypeOK
  <2>3. Places' /\ Queued' /\ Returned' /\ Counted' /\ Whole'
    BY <2>1, PlacesMoves, QueuedMoves, ReturnedMoves, CountedMoves, WholeMoves
  <2>4. Control' /\ Waiting' /\ NoLostWakeup'
    BY <1>1, ControlStep, WaitingStep, WakeupStep
  <2>5. IdleHasRun' /\ InUse' /\ ProcessBound'
    BY <1>1, IdleHasRunStep, InUseStep, BoundStep
  <2> QED
    BY <2>2, <2>3, <2>4, <2>5 DEF PoolInv
<1>2. CASE UNCHANGED vars
  <2> USE <1>2 DEF vars, queues, procs, local, PoolInv
  <2>1. TypeOK' /\ Control'
    BY DEF TypeOK, Job, Control
  <2>2. Waiting' /\ NoLostWakeup'
    BY DEF Waiting, NoLostWakeup
  <2>3. Places' /\ Queued' /\ Returned'
    BY DEF Places, Queued, Returned, Received
  <2>4. Counted' /\ Whole'
    BY DEF Counted, Received, Whole, Job
  <2>5. IdleHasRun' /\ InUse'
    BY DEF IdleHasRun, InUse, At, Job
  <2>6. ProcessBound'
    BY DEF ProcessBound, Users
  <2> QED
    BY <2>1, <2>2, <2>3, <2>4, <2>5, <2>6
<1> QED
  BY <1>1, <1>2

(* Every state of every run of the driver satisfies the invariant: jobs    *)
(* are in one place each, waiters are awake when they have to be.          *)
THEOREM PoolInvariant == Safety => []PoolInv
<1>1. Init => PoolInv
  BY InitInv
<1>2. PoolInv /\ [Next]_vars => PoolInv'
  BY InvStep
<1> QED
  BY <1>1, <1>2, PTL DEF Safety

(* Type correctness of the driver, for every number of domains and cores.  *)
THEOREM TypeCorrect == Safety => []TypeOK
<1>1. PoolInv => TypeOK
  BY DEF PoolInv
<1> QED
  BY <1>1, PoolInvariant, PTL

(* The queue loses no wakeup (pop_front_internal, push_back, close), for   *)
(* any number of workers.                                                  *)
THEOREM NoWakeupIsLost == Safety => []NoLostWakeup
<1>1. PoolInv => NoLostWakeup
  BY DEF PoolInv
<1> QED
  BY <1>1, PoolInvariant, PTL

(* The main thread neither indexes past the vector of results nor uses a   *)
(* null entry of it.                                                       *)
THEOREM IndexingIsSafe == Safety => []SafeIndexing
<1>1. PoolInv => SafeIndexing
  <2> SUFFICES ASSUME PoolInv PROVE SafeIndexing
    OBVIOUS
  <2>1. pc[Main] = "extract" => next < n
    BY DEF PoolInv, TypeOK, Control, Counted
  <2>2. ASSUME pc[Main] = "final", next < n PROVE next \in by_index
    <3>1. Cardinality(Received) = n
      BY <2>2 DEF PoolInv, Control, Counted
    <3>2. Received = Job
      BY <3>1, ReceivedFinite, JobsFinite, FS_Subset DEF PoolInv
    <3>3. next \in Job /\ next \notin 0..next-1
      BY <2>2, BoundAssumption DEF PoolInv, TypeOK, Job
    <3> QED
      BY <3>2, <3>3 DEF Received
  <2> QED
    BY <2>1, <2>2 DEF SafeIndexing
<1> QED
  BY <1>1, PoolInvariant, PTL

(* At most one ABC process per thread that runs ABC is alive or about to   *)
(* be started.                                                             *)
THEOREM ProcessesAreBounded == Safety => []ProcessBound
<1>1. PoolInv => ProcessBound
  BY DEF PoolInv
<1> QED
  BY <1>1, PoolInvariant, PTL

(* The threaded driver implements the sequential pipeline: whatever the    *)
(* interleaving, every domain is run once and integrated in order, and the *)
(* program stops only for a failed run.                                    *)
THEOREM Refinement == Safety => ImplementsPipeline
<1>1. Init => Abstract!PInit
  BY BoundAssumption DEF Init, Abstract!PInit, status, LoopHead, Main, Thread
<1>2. PoolInv /\ [Next]_vars => [Abstract!PNext]_(Abstract!pvars)
  <2>1. ASSUME PoolInv, Next PROVE [Abstract!PNext]_(Abstract!pvars)
    BY <2>1, StepRefines
  <2>2. ASSUME UNCHANGED vars PROVE UNCHANGED Abstract!pvars
    BY <2>2 DEF vars, local, Abstract!pvars, status
  <2> QED
    BY <2>1, <2>2
<1> QED
  BY <1>1, <1>2, PoolInvariant, PTL DEF Safety, ImplementsPipeline, Abstract!PSpec
=============================================================================
