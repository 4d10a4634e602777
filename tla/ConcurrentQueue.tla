-------------------------- MODULE ConcurrentQueue --------------------------
(***************************************************************************)
(* The operations of ConcurrentQueue (kernel/threading.h): a bounded queue *)
(* of many producers and consumers with one mutex and two condition        *)
(* variables.  Everything an operation does under the mutex is one step;   *)
(* waiting on a condition variable releases the mutex, so an operation     *)
(* that must wait is the step that joins the waiters and, after a wakeup,  *)
(* another attempt of the same operation.                                  *)
(***************************************************************************)
EXTENDS Naturals, Sequences

VARIABLES
  contents,        \* the queued elements
  capacity,        \* how many of them the queue holds; never changes
  closed,          \* no more elements will be produced
  not_full,        \* threads waiting on not_full_condition
  not_empty        \* threads waiting on not_empty_condition

(* notify_one wakes an arbitrary waiter, and is lost when there is none.   *)
NotifyOne(waiters) ==
  IF waiters = {} THEN {{}} ELSE {waiters \ {t} : t \in waiters}

Notified(waiters, condition) ==
  IF condition THEN NotifyOne(waiters) ELSE {waiters}

push_backFull(t, v) ==     \* mutant: a full queue takes one more
  /\ t \notin not_full
  /\ Len(contents) <= capacity
  /\ ~closed
  /\ contents' = Append(contents, v)
  /\ not_empty' \in Notified(not_empty, contents = <<>>)
  /\ not_full' \in Notified(not_full, Len(contents') < capacity)
  /\ closed' = closed

(* push_back when there is room. The assertion that the queue is still     *)
(* open is a guard: a thread that would break it stops.                    *)
push_back(t, v) ==
  /\ t \notin not_full
  /\ Len(contents) < capacity
  /\ ~closed
  /\ contents' = Append(contents, v)
  /\ not_empty' \in Notified(not_empty, contents = <<>>)
  /\ not_full' \in Notified(not_full, Len(contents') < capacity)
  /\ closed' = closed

push_wait(t) ==
  /\ t \notin not_full
  /\ Len(contents) >= capacity
  /\ not_full' = not_full \cup {t}
  /\ closed' = closed
  /\ UNCHANGED <<contents, not_empty>>

closeNotifyOne ==          \* mutant: one waiter learns that the queue is closed
  /\ not_empty' \in NotifyOne(not_empty)
  /\ closed' = TRUE
  /\ not_full' = not_full
  /\ UNCHANGED contents

close ==
  /\ not_empty' = {}
  /\ closed' = TRUE
  /\ not_full' = not_full
  /\ UNCHANGED contents

(* pop_front_internal when there is an element, waiting or not.            *)
pop_frontSilent(t) ==      \* mutant: the next element is left to the next push
  /\ t \notin not_empty
  /\ contents # <<>>
  /\ contents' = Tail(contents)
  /\ not_full' \in Notified(not_full, Len(contents) = capacity)
  /\ closed' = closed
  /\ UNCHANGED not_empty

pop_front(t) ==
  /\ t \notin not_empty
  /\ contents # <<>>
  /\ contents' = Tail(contents)
  /\ not_full' \in Notified(not_full, Len(contents) = capacity)
  /\ not_empty' \in Notified(not_empty, contents' # <<>>)
  /\ closed' = closed

pop_wait(t) ==
  /\ t \notin not_empty
  /\ contents = <<>>
  /\ ~closed
  /\ not_empty' = not_empty \cup {t}
  /\ closed' = closed /\ not_full' = not_full
  /\ UNCHANGED contents

(* pop_front returns nullopt: nothing is left and nothing will come.       *)
pop_closed(t) ==
  /\ t \notin not_empty
  /\ contents = <<>>
  /\ closed
  /\ closed' = closed /\ not_full' = not_full
  /\ UNCHANGED <<contents, not_empty>>

(* try_pop_front returns nullopt.                                          *)
try_pop_empty ==
  /\ contents = <<>>
  /\ closed' = closed /\ not_full' = not_full
  /\ UNCHANGED <<contents, not_empty>>

(* A condition variable may wake a waiter that nobody notified.            *)
spurious_wakeup(t) ==
  /\ t \in not_full \cup not_empty
  /\ not_full' = not_full \ {t}
  /\ not_empty' = not_empty \ {t}
  /\ closed' = closed
  /\ UNCHANGED contents
=============================================================================
