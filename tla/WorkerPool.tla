----------------------------- MODULE WorkerPool -----------------------------
(***************************************************************************)
(* A Server and clients in one process, on one tokio runtime and one Zenoh *)
(* session, as in zrpc-derive/examples.  The serve() loop and the tasks it *)
(* spawns need a worker thread to run.  So do calls made in tasks; those   *)
(* made in the block_on of #[tokio::main] have a thread of their own.      *)
(*                                                                         *)
(* find_server and get_servers_metadata iterate over the replies of a get  *)
(* with into_iter(), which blocks the thread, not the task, until the      *)
(* reply channel is closed.  And a get on a session whose own queryable    *)
(* matches puts the query in the queryable's bounded channel itself,       *)
(* blocking while there is no room.  A call keeps its thread through all   *)
(* of this; only while it awaits the reply of the call itself (recv_async) *)
(* is a worker free for others.                                            *)
(*                                                                         *)
(* A task that is woken by a worker goes to the slot of that worker, which *)
(* runs it next and from which no other worker takes it; tokio now and     *)
(* then puts it in a queue instead.  A task that is woken by a thread that *)
(* is no worker goes to a queue, from which any free worker takes it.      *)
(***************************************************************************)
EXTENDS Integers, Sequences, FiniteSets

CONSTANTS
  Caller,    \* the calls to make to the server next to them, one each
  Remote,    \* queries that arrive from elsewhere
  Sizes      \* the runtimes, channels and programs considered

ASSUME PoolAssumption ==
  /\ IsFiniteSet(Caller)
  /\ Caller \cap Remote = {}
  /\ Sizes \subseteq [workers : Nat \ {0}, capacity : Nat \ {0}, timers : BOOLEAN,
                     spawned : SUBSET Caller]

VARIABLES
  size,   \* worker threads, capacity of the queryable's channel, whether
          \* timeouts are short enough to fire, and the calls that are made in
          \* spawned tasks; never changes
  pc,     \* where each call is
  inbox,  \* the channel of the queryable: who asked what
  slot,   \* the call whose worker has the woken loop in its slot, if one has
  tasks,  \* queries whose task was spawned and has not replied
  sent    \* the remote queries that have arrived

poolVars == <<size, pc, inbox, slot, tasks, sent>>

Workers == size.workers
Capacity == size.capacity
Spawned == size.spawned

\* "fresh": not yet taken up; "listing": iterating over the liveliness replies;
\* "pushing", "asking": the metadata query is being put in the channel, its
\* replies are iterated over; "choosing": the call is being put in the channel;
\* "awaiting": recv_async; "woken", "expired": ready to run again, with or
\* without a reply.
CallPc == {"fresh", "listing", "pushing", "asking", "choosing",
           "awaiting", "woken", "expired", "ok", "failed"}

PoolQuery == [from : Caller \cup Remote, kind : {"metadata", "call"}]

\* Metadata iterated over with an async stream.
Blocking_AsyncMetadata == {"listing", "pushing", "choosing"}

\* Where a call keeps its thread.
Blocking == {"listing", "pushing", "asking", "choosing"}

Held == {c \in Spawned : pc[c] \in Blocking}

\* One worker is taken for good, say by a handler that blocks.
FreeWorker_OneTaken == Cardinality(Held) + 1 < Workers

FreeWorker == Cardinality(Held) < Workers
Room == Len(inbox) < Capacity

\* A call in a task needs a worker to run, one in block_on does not.
MayRun(c) == c \in Spawned => FreeWorker

PoolInit ==
  /\ size \in Sizes
  /\ pc = [c \in Caller |-> "fresh"]
  /\ inbox = <<>>
  /\ slot = {}
  /\ tasks = {}
  /\ sent = {}

Goes(c, from, to) == pc[c] = from /\ pc' = [pc EXCEPT ![c] = to]

\* The call is taken up: find_server, up to the blocking iteration.
StartListing(c) ==
  /\ MayRun(c)
  /\ Goes(c, "fresh", "listing")
  /\ UNCHANGED <<size, inbox, slot, tasks, sent>>

\* Zenoh closes the liveliness replies, by threads of its own.
Listed(c) ==
  /\ Goes(c, "listing", "pushing")
  /\ UNCHANGED <<size, inbox, slot, tasks, sent>>

Push(c, kind) == inbox' = Append(inbox, [from |-> c, kind |-> kind])

\* The loop waits for the first query of an empty channel: pushing it on a
\* worker wakes the loop into the slot of that worker, which goes on to block.
WakesInSlot(c) == c \in Spawned /\ inbox = <<>>

AskMetadata(c) ==
  /\ Room
  /\ Goes(c, "pushing", "asking")
  /\ Push(c, "metadata")
  /\ \/ WakesInSlot(c) /\ slot' = {c}
     \/ UNCHANGED slot
  /\ UNCHANGED <<size, tasks, sent>>

\* A get whose query is thrown away if the channel is full.
SendCall_DropWhenFull(c) ==
  /\ Goes(c, "choosing", "awaiting")
  /\ IF Room THEN Push(c, "call") ELSE UNCHANGED inbox
  /\ UNCHANGED <<size, slot, tasks, sent>>

\* A channel without bound.
SendCall_Unbounded(c) ==
  /\ Goes(c, "choosing", "awaiting")
  /\ Push(c, "call")
  /\ UNCHANGED <<size, slot, tasks, sent>>

\* The call is put in the channel and awaited, which frees the worker at once
\* for whatever it has woken.
SendCall(c) ==
  /\ Room
  /\ Goes(c, "choosing", "awaiting")
  /\ Push(c, "call")
  /\ UNCHANGED <<size, slot, tasks, sent>>

\* A loop that any free worker takes, from whatever slot it is in.
ServeTurn_AnyWorker ==
  /\ FreeWorker
  /\ inbox # <<>>
  /\ tasks' = tasks \cup {Head(inbox)}
  /\ inbox' = Tail(inbox)
  /\ UNCHANGED <<size, pc, slot, sent>>

\* One turn of the serve() loop, on any free worker unless the loop is in the
\* slot of one that is not free.
ServeTurn ==
  /\ FreeWorker
  /\ slot = {}
  /\ inbox # <<>>
  /\ tasks' = tasks \cup {Head(inbox)}
  /\ inbox' = Tail(inbox)
  /\ UNCHANGED <<size, pc, slot, sent>>

\* What a reply does to the call that waits for it; a late one does nothing.
Answered(q) ==
  [c \in Caller |->
     IF c # q.from THEN pc[c]
     ELSE IF q.kind = "metadata" /\ pc[c] = "asking" THEN "choosing"
     ELSE IF q.kind = "call" /\ pc[c] = "awaiting" THEN "woken" ELSE pc[c]]

\* A spawned task runs and replies.
TaskReplies(q) ==
  /\ FreeWorker
  /\ tasks' = tasks \ {q}
  /\ pc' = Answered(q)
  /\ UNCHANGED <<size, inbox, slot, sent>>

Resume(c) ==
  /\ MayRun(c)
  /\ Goes(c, "woken", "ok")
  /\ UNCHANGED <<size, inbox, slot, tasks, sent>>

ResumeExpired(c) ==
  /\ MayRun(c)
  /\ Goes(c, "expired", "failed")
  /\ UNCHANGED <<size, inbox, slot, tasks, sent>>

\* Only the get of the call is given a timeout.
Armed_CallsOnly(c) == pc[c] = "awaiting"

\* The gets that a timer of Zenoh will end.
Armed(c) == pc[c] \in {"asking", "awaiting"}

\* Without metadata, find_server finds nobody and the call returns at once: its
\* worker is free, and what was in its slot runs.
Expire(c) ==
  /\ size.timers
  /\ Armed(c)
  /\ pc' = [pc EXCEPT ![c] = IF @ = "asking" THEN "failed" ELSE "expired"]
  /\ slot' = slot \ {c}
  /\ UNCHANGED <<size, inbox, tasks, sent>>

\* A query from elsewhere; Zenoh's own thread blocks while there is no room.
RemoteQuery(r) ==
  /\ Room
  /\ r \notin sent
  /\ sent' = sent \cup {r}
  /\ Push(r, "call")
  /\ UNCHANGED <<size, pc, slot, tasks>>

-----------------------------------------------------------------------------
CallerStep(c) ==
  \/ StartListing(c)
  \/ Listed(c)
  \/ AskMetadata(c)
  \/ SendCall(c)
  \/ Resume(c)
  \/ ResumeExpired(c)

RuntimeStep == ServeTurn \/ \E q \in tasks : TaskReplies(q)

PoolNext ==
  \/ \E c \in Caller : CallerStep(c) \/ Expire(c)
  \/ RuntimeStep
  \/ \E r \in Remote : RemoteQuery(r)

PoolSpec == PoolInit /\ [][PoolNext]_poolVars

\* Tokio gives every task in a queue a worker in the end, if workers become free
\* again and again, and whoever waits for room in the channel gets it in the
\* end.  A loop in the slot of a worker that blocks is not in a queue.
WorkersRun ==
  /\ \A c \in Caller : SF_poolVars(CallerStep(c))
  /\ SF_poolVars(ServeTurn)
  /\ \A q \in PoolQuery : SF_poolVars(q \in tasks /\ TaskReplies(q))

TimersFire == \A c \in Caller : WF_poolVars(Expire(c))

TimedPoolSpec == PoolSpec /\ WorkersRun /\ TimersFire

-----------------------------------------------------------------------------
PoolTypeOK ==
  /\ size \in Sizes
  /\ pc \in [Caller -> CallPc]
  /\ inbox \in Seq(PoolQuery)
  /\ Len(inbox) <= Capacity
  /\ slot \subseteq Spawned
  /\ tasks \subseteq PoolQuery
  /\ sent \subseteq Remote

Returned(c) == pc[c] \in {"ok", "failed"}

\* No task can take a step, no timer will fire and Zenoh has nothing to
\* deliver, but some call has not returned: this is for ever.
Stuck ==
  /\ \E c \in Caller : ~Returned(c)
  /\ \A c \in Caller : ~Armed(c) /\ pc[c] # "listing"
  /\ \A c \in Caller : pc[c] \in {"pushing", "choosing"} => ~Room
  /\ \A c \in Caller : pc[c] \in {"fresh", "woken", "expired"} => ~MayRun(c)
  /\ FreeWorker => tasks = {} /\ (inbox = <<>> \/ slot # {})

WaitingForRoom == {c \in Spawned : pc[c] \in {"pushing", "choosing"}}

\* The one way in which the process gets stuck for good: each worker is held by
\* a call that waits for room in a full channel, which only the serve() loop
\* empties, which needs a worker.
StuckShape == Stuck => Len(inbox) = Capacity /\ Cardinality(WaitingForRoom) >= Workers

Spare == Cardinality(Spawned) < Workers

\* As long as there are more workers than calls made in tasks, the process never
\* gets stuck for good.
SpareNeverStuck == Spare => ~Stuck

\* A runtime of one worker never serves its own tasks: a call that holds the
\* worker waits for metadata that needs it.  No call of a task to the server
\* next door succeeds, or even reaches it.
LoneWorkerUnserved ==
  Workers = 1 => \A c \in Spawned : pc[c] \notin {"choosing", "awaiting", "woken", "ok"}

\* A call that has woken the loop into the slot of its own worker blocks that
\* worker until its timeout, however many others there are: it waits for
\* metadata that only the loop in its slot can get it, and fails.
OwnSlotStarves == [][\A c \in slot : pc'[c] \in {"asking", "failed"}]_poolVars

\* A program that makes its calls in block_on, as the examples do, is served
\* without any timer, on a single worker and with the smallest of channels.
CallsServed ==
  \A c \in Caller : (pc[c] # "fresh" /\ Spawned = {} /\ ~size.timers) ~> pc[c] = "ok"

\* When timeouts fire, calls return, if there are workers to spare or if the
\* channel has room for every query.
Ample == 2 * Cardinality(Caller) + Cardinality(Remote) <= Capacity

CallsReturn == \A c \in Caller : (size.timers /\ (Spare \/ Ample)) ~> Returned(c)
=============================================================================
