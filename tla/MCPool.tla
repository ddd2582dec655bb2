------------------------------- MODULE MCPool -------------------------------
(* An instance of WorkerPool for TLC. *)
EXTENDS WorkerPool

CONSTANTS c1, c2, r1

MCSize(workers, capacity, timers, spawned) ==
  [workers |-> workers, capacity |-> capacity, timers |-> timers, spawned |-> spawned]

\* Calls in tasks: one worker; as many as calls, with little and with ample
\* room; one to spare.  Calls in block_on, on one worker.  One of each.
MCSizes ==
  {MCSize(1, 2, TRUE, {c1, c2}), MCSize(2, 1, TRUE, {c1, c2}), MCSize(2, 1, FALSE, {c1, c2}),
   MCSize(2, 5, TRUE, {c1, c2}), MCSize(3, 1, FALSE, {c1, c2}), MCSize(3, 2, TRUE, {c1, c2}),
   MCSize(1, 1, FALSE, {}), MCSize(1, 2, TRUE, {}),
   MCSize(1, 1, TRUE, {c1}), MCSize(2, 1, FALSE, {c1}), MCSize(2, 1, TRUE, {c1})}
=============================================================================
