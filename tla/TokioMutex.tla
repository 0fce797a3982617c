----------------------------- MODULE TokioMutex -----------------------------
(***************************************************************************)
(* The asynchronous mutex of the tokio library, as the controller uses it  *)
(* for the experiment queue and for the name of the current experiment.    *)
(* It is not code of this repository.  Three of its documented promises    *)
(* matter to the callers and are kept here:                                *)
(*                                                                         *)
(*   - a call of lock() that finds the mutex taken joins a first-in        *)
(*     first-out line of waiters;                                          *)
(*   - dropping the guard hands the mutex straight to the first waiter, so *)
(*     the task that dropped it cannot take it back before that waiter;    *)
(*   - a waiter whose future is dropped leaves the line, and passes the    *)
(*     mutex on if it had been handed over but not yet noticed.            *)
(*                                                                         *)
(* A mutex is a record; the module has no state of its own.                *)
(***************************************************************************)
EXTENDS Integers, Sequences

CONSTANT Nobody        \* the owner of a mutex that is not held

Unlocked == [owner |-> Nobody, waiters |-> <<>>]

Mutexes(Tasks) == [owner : Tasks \cup {Nobody}, waiters : Seq(Tasks)]

(* task t calls lock(): it owns the mutex at once, or waits in line.       *)
Lock(m, t) ==
  IF m.owner = Nobody THEN [m EXCEPT !.owner = t]
                      ELSE [m EXCEPT !.waiters = Append(m.waiters, t)]

(* The guard is dropped.                                                   *)
Unlock(m) ==
  IF m.waiters = <<>> THEN [m EXCEPT !.owner = Nobody]
                      ELSE [owner |-> Head(m.waiters), waiters |-> Tail(m.waiters)]

(* The line of waiters without its element at position i.                  *)
Without(line, i) == SubSeq(line, 1, i - 1) \o SubSeq(line, i + 1, Len(line))

(* The future of task t's lock() is dropped before it took effect.         *)
Abandon(m, t) ==
  IF m.owner = t THEN Unlock(m)
  ELSE [m EXCEPT !.waiters =
          Without(m.waiters, CHOOSE i \in DOMAIN m.waiters : m.waiters[i] = t)]

=============================================================================
