------------------------------ MODULE AbcPool ------------------------------
(***************************************************************************)
(* The threaded driver of the abc pass (passes/techmap/abc.cc) for the     *)
(* clock domains of one module.  The main thread prepares the domains in   *)
(* order and queues them, worker threads run ABC on them, and the main     *)
(* thread integrates the results in order as they come in.  Both queues    *)
(* are ConcurrentQueues; idle ABC processes are kept on a shared stack.    *)
(* On a machine without a core to spare, and for a single domain, the main *)
(* thread runs ABC itself.  Files, pipes and child processes are external: *)
(* each may fail.                                                          *)
(***************************************************************************)
EXTENDS Integers, Sequences, FiniteSets

CONSTANTS
  MaxJobs,         \* bound on the number of clock domains
  MaxCores         \* bound on min(hardware_concurrency, YOSYS_MAX_THREADS)

ASSUME BoundAssumption == MaxJobs \in Nat /\ MaxCores \in Nat

VARIABLES
  n,               \* GetSize(assigned_cells)
  workers,         \* num_worker_threads
  pc,              \* where each thread is
  job,             \* state_index of the AbcModuleState each thread holds
  work,            \* work_queue.contents
  closed,          \* work_queue.closed
  work_not_full,   \* waiters of work_queue
  work_not_empty,
  finished,        \* work_finished_queue.contents
  fin_not_empty,   \* waiters of work_finished_queue
  idle,            \* process_pool: the ABC processes nobody uses, last in first
  process,         \* the ABC process each thread uses
  alive,           \* the ABC processes that have not ended
  holders,         \* for each process, others that inherited its ends of its pipes
  result,          \* what the run of each domain left behind
  state_index,
  next,            \* next_state_index_to_process
  by_index,        \* the indices at which work_finished_by_index is not null
  finished_count,  \* work_finished_count
  aborted          \* log_error ended the program

queues == <<work, closed, work_not_full, work_not_empty, finished, fin_not_empty>>
procs  == <<idle, process, alive, holders>>
local  == <<state_index, next, by_index, finished_count>>
vars   == <<n, workers, pc, job, queues, procs, result, local, aborted>>

Main   == 0
Thread == 0..MaxCores
Worker == 1..MaxCores
NoJob  == -1
INT_MAX == 2147483647

Work == INSTANCE ConcurrentQueue WITH
  contents <- work, capacity <- workers, closed <- closed,
  not_full <- work_not_full, not_empty <- work_not_empty

(* The second queue is unbounded and never closed.                         *)
Finished == INSTANCE ConcurrentQueue WITH
  contents <- finished, capacity <- INT_MAX, closed <- FALSE,
  not_full <- {}, not_empty <- fin_not_empty

(* ThreadPool::pool_size, for the given number of usable cores.            *)
pool_size(cores, reserved_cores, max_worker_threads) ==
  LET available == cores - reserved_cores
      num_threads == IF available < max_worker_threads THEN available ELSE max_worker_threads
  IN  IF num_threads < 0 THEN 0 ELSE num_threads

max_threads(jobs) == IF jobs <= 1 THEN 0 ELSE jobs

(* The head of the loop over the clock domains.                            *)
LoopHead(i) == IF i < n THEN "drain" ELSE "close"

Init ==
  /\ n \in 0..MaxJobs
  /\ \E cores \in 0..MaxCores : workers = pool_size(cores, 1, max_threads(n))
  /\ pc = [t \in Thread |-> IF t = Main THEN LoopHead(0)
                            ELSE IF t <= workers THEN "pop" ELSE "exit"]
  /\ job = [t \in Thread |-> NoJob]
  /\ work = <<>> /\ closed = FALSE /\ work_not_full = {} /\ work_not_empty = {}
  /\ finished = <<>> /\ fin_not_empty = {}
  /\ idle = <<>>
  /\ process = [t \in Thread |-> NoJob]
  /\ alive = {}
  /\ holders = [p \in 0..n-1 |-> {}]
  /\ result = [j \in 0..n-1 |-> "none"]
  /\ state_index = 0 /\ next = 0 /\ by_index = {} /\ finished_count = 0
  /\ aborted = FALSE

At(t, label)   == ~aborted /\ pc[t] = label
Goto(t, label) == pc' = [pc EXCEPT ![t] = label]

-----------------------------------------------------------------------------
(* The main thread: the loop over the clock domains.                       *)

Receive(j) ==
  /\ by_index' = by_index \cup {j}
  /\ finished_count' = finished_count + 1

DrainOne ==
  /\ At(Main, "drain")
  /\ Finished!pop_front(Main)
  /\ Receive(Head(finished))
  /\ UNCHANGED <<n, workers, pc, job, work, closed, work_not_full, work_not_empty,
                 procs, result, state_index, next, aborted>>

DrainEnd ==
  /\ At(Main, "drain")
  /\ Finished!try_pop_empty
  /\ Goto(Main, "extract")
  /\ UNCHANGED <<n, workers, job, queues, procs, result, local, aborted>>

(* Results at which extract calls log_error: deferred errors of the run,   *)
(* or an output file that is missing or has no module.                     *)
Broken == {"error", "unreadable"}

extractUnflushed ==        \* mutant: the deferred errors are not looked at
  /\ next \in by_index
  /\ by_index' = by_index \ {next}
  /\ next' = next + 1
  /\ UNCHANGED <<n, workers, pc, job, queues, procs, result, state_index, finished_count, aborted>>

(* extract flushes the deferred messages, re-integrates the netlist if ABC *)
(* ran, and removes the temporary directory. The element of the vector     *)
(* must exist and must not be null.                                        *)
extract ==
  /\ next \in by_index
  /\ IF result[next] \in Broken
     THEN aborted' = TRUE /\ UNCHANGED <<next, by_index>>
     ELSE /\ by_index' = by_index \ {next}
          /\ next' = next + 1
          /\ UNCHANGED aborted
  /\ UNCHANGED <<n, workers, pc, job, queues, procs, result, state_index, finished_count>>

ExtractOne == At(Main, "extract") /\ extract

prepare_module ==
  /\ At(Main, "extract")
  /\ next \notin by_index
  /\ job' = [job EXCEPT ![Main] = state_index]
  /\ state_index' = state_index + 1
  /\ Goto(Main, IF workers > 0 THEN "push" ELSE "run")
  /\ UNCHANGED <<n, workers, queues, procs, result, next, by_index, finished_count, aborted>>

PushWork ==
  /\ At(Main, "push")
  /\ Work!push_back(Main, job[Main])
  /\ job' = [job EXCEPT ![Main] = NoJob]
  /\ Goto(Main, LoopHead(state_index))
  /\ UNCHANGED <<n, workers, finished, fin_not_empty, procs, result, local, aborted>>

PushWait ==
  /\ At(Main, "push")
  /\ Work!push_wait(Main)
  /\ UNCHANGED <<n, workers, pc, job, finished, fin_not_empty, procs, result, local, aborted>>

-----------------------------------------------------------------------------
(* The main thread after the loop: close the queue, collect what is still  *)
(* out, integrate the rest, join the workers, end the idle processes.      *)

Close ==
  /\ At(Main, "close")
  /\ Work!close
  /\ Goto(Main, "collect")
  /\ UNCHANGED <<n, workers, job, finished, fin_not_empty, procs, result, local, aborted>>

CollectOne ==
  /\ At(Main, "collect")
  /\ finished_count < n
  /\ Finished!pop_front(Main)
  /\ Receive(Head(finished))
  /\ UNCHANGED <<n, workers, pc, job, work, closed, work_not_full, work_not_empty,
                 procs, result, state_index, next, aborted>>

CollectWait ==
  /\ At(Main, "collect")
  /\ finished_count < n
  /\ Finished!pop_wait(Main)
  /\ UNCHANGED <<n, workers, pc, job, work, closed, work_not_full, work_not_empty,
                 procs, result, local, aborted>>

CollectEndEarly ==         \* mutant: the last result is not waited for
  /\ At(Main, "collect")
  /\ finished_count >= n - 1
  /\ Goto(Main, "final")
  /\ UNCHANGED <<n, workers, job, queues, procs, result, local, aborted>>

CollectEnd ==
  /\ At(Main, "collect")
  /\ finished_count >= n
  /\ Goto(Main, "final")
  /\ UNCHANGED <<n, workers, job, queues, procs, result, local, aborted>>

FinalExtract == At(Main, "final") /\ next < n /\ extract

FinalEnd ==
  /\ At(Main, "final")
  /\ next >= n
  /\ Goto(Main, "join")
  /\ UNCHANGED <<n, workers, job, queues, procs, result, local, aborted>>

(* The destructor of the pool waits for every worker to return.            *)
Join ==
  /\ At(Main, "join")
  /\ \A t \in Worker : pc[t] = "exit"
  /\ Goto(Main, "reap")
  /\ UNCHANGED <<n, workers, job, queues, procs, result, local, aborted>>

(* The destructor of an idle process closes its input and waits for it; a  *)
(* bad exit status is an error. The order is of no importance.             *)
Reap ==
  /\ At(Main, "reap")
  /\ IF idle = <<>>
     THEN Goto(Main, "done") /\ UNCHANGED <<idle, alive, aborted>>
     ELSE /\ idle' = Tail(idle)
          /\ alive' = alive \ {Head(idle)}
          /\ aborted' \in BOOLEAN
          /\ UNCHANGED pc
  /\ UNCHANGED <<n, workers, job, queues, process, holders, result, local>>

-----------------------------------------------------------------------------
(* A worker takes jobs until the queue is closed and empty.                *)

PopWork(t) ==
  /\ At(t, "pop")
  /\ Work!pop_front(t)
  /\ job' = [job EXCEPT ![t] = Head(work)]
  /\ Goto(t, "run")
  /\ UNCHANGED <<n, workers, finished, fin_not_empty, procs, result, local, aborted>>

PopWait(t) ==
  /\ At(t, "pop")
  /\ Work!pop_wait(t)
  /\ UNCHANGED <<n, workers, pc, job, finished, fin_not_empty, procs, result, local, aborted>>

PopClosed(t) ==
  /\ At(t, "pop")
  /\ Work!pop_closed(t)
  /\ Goto(t, "exit")
  /\ UNCHANGED <<n, workers, job, finished, fin_not_empty, procs, result, local, aborted>>

-----------------------------------------------------------------------------
(* RunAbcState::run, on a worker or on the main thread.                    *)

Outcome(t, r) == result' = [result EXCEPT ![job[t]] = r]

(* The netlist file cannot be opened, or has no output: ABC is not called, *)
(* did_run stays false and no error is deferred.                           *)
NotCalled(t) ==
  /\ At(t, "run")
  /\ Outcome(t, "not_run")
  /\ Goto(t, "finish")
  /\ UNCHANGED <<n, workers, job, queues, procs, local, aborted>>

TakeProcessNever(t) ==     \* mutant: every run starts a process of its own
  /\ At(t, "run")
  /\ Goto(t, "spawn")
  /\ UNCHANGED <<n, workers, job, queues, procs, result, local, aborted>>

(* process_pool.try_pop_back.                                              *)
TakeProcess(t) ==
  /\ At(t, "run")
  /\ IF idle = <<>>
     THEN Goto(t, "spawn") /\ UNCHANGED <<idle, process>>
     ELSE /\ idle' = Tail(idle)
          /\ process' = [process EXCEPT ![t] = Head(idle)]
          /\ Goto(t, "abc")
  /\ UNCHANGED <<n, workers, job, queues, alive, holders, result, local, aborted>>

(* spawn_abc: the pipes are made, closed on exec, and then the ends meant  *)
(* for the child are made inheritable.                                     *)
OpenPipes(t) ==
  /\ At(t, "spawn")
  /\ Goto(t, "fork")
  /\ UNCHANGED <<n, workers, job, queues, procs, result, local, aborted>>

(* posix_spawn: the new process, named after the job it is started for,    *)
(* also inherits the ends other threads have made inheritable meanwhile.   *)
Fork(t) ==
  /\ At(t, "fork")
  /\ process' = [process EXCEPT ![t] = job[t]]
  /\ alive' = alive \cup {job[t]}
  /\ holders' = [p \in 0..n-1 |->
                   IF \E u \in Thread \ {t} : pc[u] = "fork" /\ job[u] = p
                   THEN holders[p] \cup {job[t]} ELSE holders[p]]
  /\ Goto(t, "abc")
  /\ UNCHANGED <<n, workers, job, queues, idle, result, local, aborted>>

(* A pipe or the process cannot be made.                                   *)
SpawnFailed(t) ==
  /\ pc[t] \in {"spawn", "fork"} /\ ~aborted
  /\ Outcome(t, "error")
  /\ Goto(t, "finish")
  /\ UNCHANGED <<n, workers, job, queues, procs, local, aborted>>

(* An ABC process ends by itself, in use or idle.                          *)
Die(p) ==
  /\ ~aborted
  /\ alive' = alive \ {p}
  /\ UNCHANGED <<n, workers, pc, job, queues, idle, process, holders, result, local, aborted>>

(* ABC prints its end mark and the process returns to the pool. Whether it *)
(* wrote a readable netlist shows when the result is integrated.           *)
AbcDone(t) ==
  /\ At(t, "abc")
  /\ process[t] \in alive
  /\ \E r \in {"mapped", "unreadable"} : Outcome(t, r)
  /\ idle' = <<process[t]>> \o idle
  /\ process' = [process EXCEPT ![t] = NoJob]
  /\ Goto(t, "finish")
  /\ UNCHANGED <<n, workers, job, queues, alive, holders, local, aborted>>

(* The end of a process is seen when the last copy of its end of the pipe  *)
(* is closed.                                                              *)
EndOfFile(p) == p \notin alive /\ holders[p] \cap alive = {}

(* Writing to or reading from the process failed, or met the end of file:  *)
(* the error is deferred and the process destroyed on this thread. That    *)
(* ends the program unless the process exited well, and so does the signal *)
(* for writing to a pipe nobody reads.                                     *)
AbcFailed(t) ==
  /\ At(t, "abc")
  /\ process[t] \in alive \/ EndOfFile(process[t])
  /\ Outcome(t, "error")
  /\ alive' = alive \ {process[t]}
  /\ process' = [process EXCEPT ![t] = NoJob]
  /\ \/ Goto(t, "finish") /\ UNCHANGED aborted
     \/ aborted' = TRUE /\ UNCHANGED pc
  /\ UNCHANGED <<n, workers, job, queues, idle, holders, local>>

PushFinished(t) ==
  /\ At(t, "finish")
  /\ Finished!push_back(t, job[t])
  /\ job' = [job EXCEPT ![t] = NoJob]
  /\ Goto(t, IF t = Main THEN LoopHead(state_index) ELSE "pop")
  /\ UNCHANGED <<n, workers, work, closed, work_not_full, work_not_empty,
                 procs, result, local, aborted>>

-----------------------------------------------------------------------------
(* A condition variable wakes a waiter for no reason.                      *)
SpuriousWakeup(t) ==
  /\ ~aborted
  /\ \/ /\ Work!spurious_wakeup(t)
        /\ UNCHANGED <<finished, fin_not_empty>>
     \/ /\ Finished!spurious_wakeup(t)
        /\ UNCHANGED <<work, closed, work_not_full, work_not_empty>>
  /\ UNCHANGED <<n, workers, pc, job, procs, result, local, aborted>>

RunAbc(t) ==
  \/ NotCalled(t)
  \/ TakeProcess(t)
  \/ OpenPipes(t)
  \/ Fork(t)
  \/ SpawnFailed(t)
  \/ AbcDone(t)
  \/ AbcFailed(t)
  \/ PushFinished(t)

MainNext ==
  \/ DrainOne
  \/ DrainEnd
  \/ ExtractOne
  \/ prepare_module
  \/ PushWork
  \/ PushWait
  \/ RunAbc(Main)
  \/ Close
  \/ CollectOne
  \/ CollectWait
  \/ CollectEnd
  \/ FinalExtract
  \/ FinalEnd
  \/ Join
  \/ Reap

WorkerNext(t) ==
  \/ PopWork(t)
  \/ PopWait(t)
  \/ PopClosed(t)
  \/ RunAbc(t)

Over == aborted \/ pc[Main] = "done"

Terminated == Over /\ UNCHANGED vars

Next ==
  \/ MainNext
  \/ \E t \in Worker : WorkerNext(t)
  \/ \E t \in Thread : SpuriousWakeup(t)
  \/ \E p \in alive : Die(p)
  \/ Terminated

(* The operating system runs every thread that can run, and an ABC process *)
(* that lives answers. Nothing is assumed of spurious wakeups and of       *)
(* processes that end: they may happen at any time, or never.              *)
Fairness ==
  /\ WF_vars(MainNext)
  /\ \A t \in Worker : WF_vars(WorkerNext(t))

Safety == Init /\ [][Next]_vars

Spec == Safety /\ Fairness

-----------------------------------------------------------------------------
(* Properties.                                                             *)

Job == 0..n-1
Runner == {"run", "spawn", "fork", "abc", "finish"}

TypeOK ==
  /\ n \in 0..MaxJobs
  /\ workers \in 0..MaxCores
  /\ pc \in [Thread -> Runner \cup {"drain", "extract", "push", "close", "collect",
                                    "final", "join", "reap", "done", "pop", "exit"}]
  /\ job \in [Thread -> Job \cup {NoJob}]
  /\ work \in Seq(Job) /\ Len(work) <= workers
  /\ finished \in Seq(Job)
  /\ closed \in BOOLEAN /\ aborted \in BOOLEAN
  /\ work_not_full \subseteq {Main} /\ work_not_empty \subseteq Worker
  /\ fin_not_empty \subseteq {Main}
  /\ idle \in Seq(Job)
  /\ process \in [Thread -> Job \cup {NoJob}]
  /\ alive \subseteq Job
  /\ holders \in [Job -> SUBSET Job]
  /\ result \in [Job -> {"none", "mapped", "unreadable", "not_run", "error"}]
  /\ state_index \in 0..n /\ next \in 0..n
  /\ by_index \subseteq Job
  /\ finished_count \in 0..n

(* No wakeup is lost. A worker that waits while jobs are queued has a      *)
(* colleague that is awake and will take one and pass the signal on, none  *)
(* waits on a closed queue, and the main thread waits only for a full work *)
(* queue or an empty queue of results.                                     *)
NoLostWakeup ==
  /\ work # <<>> /\ work_not_empty # {} =>
       \E t \in Worker : pc[t] = "pop" /\ t \notin work_not_empty
  /\ closed => work_not_empty = {}
  /\ Main \in work_not_full => Len(work) = workers
  /\ Main \in fin_not_empty => finished = <<>>

(* The driver indexes work_finished_by_index without a test: in the loop   *)
(* the index is below the size of the vector, and after the loop no entry  *)
(* that it dereferences is null.                                           *)
SafeIndexing ==
  /\ pc[Main] = "extract" => next < n
  /\ pc[Main] = "final" /\ next < n => next \in by_index

Users == {t \in Thread : pc[t] \in {"spawn", "fork", "abc"}}

(* There are never more ABC processes, idle or in use, than threads that   *)
(* run ABC, although a thread looks for an idle process and starts one in  *)
(* separate steps.                                                         *)
ProcessBound == Len(idle) + Cardinality(Users) <= IF workers = 0 THEN 1 ELSE workers

(* The driver implements the pipeline: every domain is prepared in order,  *)
(* run once, integrated in order, and the program stops only for a failed  *)
(* run of ABC.                                                             *)
status == IF aborted THEN "aborted" ELSE IF pc[Main] = "done" THEN "done" ELSE "running"

Abstract == INSTANCE Pipeline WITH prepared <- state_index, integrated <- next

ImplementsPipeline == Abstract!PSpec

(* A thread waits for the end of file of a process that has ended, which   *)
(* cannot come while another process holds a copy of the pipe.             *)
Hung == \E t \in Thread : /\ At(t, "abc")
                          /\ process[t] \notin alive
                          /\ holders[process[t]] \cap alive # {}

(* "Open pipes O_CLOEXEC so we don't leak any of the fds into racing       *)
(* fork()s": the end of an ABC process is noticed, and so the pass ends.   *)
(* All results are integrated, the workers have returned and are joined,   *)
(* the processes have ended; or an error stopped the program.              *)
Completes == <>Over

(* The pass ends, whatever the order of wakeups, results and failures,     *)
(* unless a thread waits for ever on a pipe that another process inherited *)
(* by accident.                                                            *)
CompletesUnlessLeaked == <>Over \/ <>[]Hung
=============================================================================
