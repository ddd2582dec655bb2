----------------------------- MODULE ZrpcServer -----------------------------
(***************************************************************************)
(* struct Server of zrpc/src/server.rs, and the Service implementation     *)
(* that zrpc-derive generates for it.                                      *)
(*                                                                         *)
(* serve() declares the queryable, then a liveliness token per service,    *)
(* moves the tokens into the Server, and loops: it receives a query,       *)
(* builds the future that answers it and spawns it as a task.  An error    *)
(* raised while the future is built ("?") ends serve() itself.  The tasks  *)
(* are independent of the loop and of each other.                          *)
(***************************************************************************)
EXTENDS Zenoh

CONSTANTS
  ServicesOf,   \* the services registered with each ServerBuilder
  MethodsOf,    \* the methods of each service trait
  LabelsOf,     \* the labels registered with each ServerBuilder
  Outcomes,     \* what user handlers may do: "value", "opaque", or an ErrorCode
  PanicAborts,  \* TRUE iff built with panic = "abort" (the release profile)
  Abortable,    \* the servers whose user may drop the future of serve()
  Crashable     \* the sessions whose process may crash

ASSUME ServerAssumption ==
  /\ ServicesOf \in [Server -> SUBSET Svc]
  /\ MethodsOf \in [Svc -> SUBSET Method]
  /\ LabelsOf \in [Server -> SUBSET Label]
  /\ Outcomes \subseteq {"value", "opaque"} \cup ErrorCode
  /\ PanicAborts \in BOOLEAN
  /\ Abortable \subseteq Server
  /\ Crashable \subseteq Zid

VARIABLES
  phase,     \* where the Server is in its life
  declared,  \* tokens in serve()'s local vector
  held,      \* tokens in Server.tokens
  tasks,     \* spawned tasks: the query each owns and the reply it computed
  counter,   \* the state behind the handlers: how often they ran
  executed   \* history: every handler execution

serverVars == <<phase, declared, held, tasks, counter, executed>>

Pending == [kind |-> "pending"]
Task == [query : Query, reply : Reply \cup {Pending}]
Execution == [id : QueryId, server : Server, value : Nat]

\* "built": serve() not called; "ended": it returned Err or its future was
\* dropped; "crashed": the process is gone but Zenoh has not noticed; "gone":
\* the Server is, though tasks that it spawned may still run.
Phase == {"built", "declaring", "serving", "ended", "crashed", "gone"}

Alive(s) == phase[s] \notin {"crashed", "gone"}

\* Servers that only exist as values are left out of what happens to a process
\* or a session: they may belong to a later one of the same id.
Started(s) == Alive(s) /\ phase[s] # "built"

Running(s) == phase[s] \in {"declaring", "serving"}

\* The services a liveliness query finds for server s.
Advertised(s) == declared[s] \cup held[s]

ServerInit ==
  /\ phase = [s \in Server |-> "built"]
  /\ declared = [s \in Server |-> {}]
  /\ held = [s \in Server |-> {}]
  /\ tasks = [s \in Server |-> {}]
  /\ counter = [s \in Server |-> 0]
  /\ executed = {}

-----------------------------------------------------------------------------
(* serve(), up to the loop.                                                *)

\* The first await of serve(); serve(&self) may be called again once it has ended.
DeclareQueryable(s) ==
  /\ phase[s] \in {"built", "ended"}
  /\ phase' = [phase EXCEPT ![s] = "declaring"]
  /\ queryables' = queryables \cup {s}
  /\ UNCHANGED <<declared, held, tasks, counter, executed, inbox, open>>

\* declare_queryable fails: nothing was declared, serve() returns Err.
QueryableRefused(s) ==
  /\ phase[s] \in {"built", "ended"}
  /\ phase' = [phase EXCEPT ![s] = "ended"]
  /\ UNCHANGED <<declared, held, tasks, counter, executed, zenohVars>>

\* serve() that declares its tokens before its queryable.
DeclareToken_Early(s) ==
  /\ phase[s] \in {"built", "ended"}
  /\ \E v \in ServicesOf[s] \ declared[s] : declared' = [declared EXCEPT ![s] = @ \cup {v}]
  /\ UNCHANGED <<phase, held, tasks, counter, executed, zenohVars>>

\* One iteration of the loop over self.services.keys(), in the map's order.
DeclareToken(s) ==
  /\ phase[s] = "declaring"
  /\ \E v \in ServicesOf[s] \ declared[s] : declared' = [declared EXCEPT ![s] = @ \cup {v}]
  /\ UNCHANGED <<phase, held, tasks, counter, executed, zenohVars>>

\* serve() whose end leaves its local tokens declared.
ServeEnds_LeakTokens(s) ==
  /\ phase' = [phase EXCEPT ![s] = "ended"]
  /\ queryables' = queryables \ {s}
  /\ inbox' = [inbox EXCEPT ![s] = <<>>]
  /\ open' = Dropping({s}, IdsOf(inbox[s]))
  /\ UNCHANGED <<declared, held, tasks, counter, executed>>

\* serve() whose end forgets the queries waiting in the channel.
ServeEnds_ForgetQueries(s) ==
  /\ phase' = [phase EXCEPT ![s] = "ended"]
  /\ declared' = [declared EXCEPT ![s] = {}]
  /\ queryables' = queryables \ {s}
  /\ inbox' = [inbox EXCEPT ![s] = <<>>]
  /\ UNCHANGED <<held, tasks, counter, executed, open>>

\* serve() whose queryable outlives it, with nobody left to read its channel.
ServeEnds_Background(s) ==
  /\ phase' = [phase EXCEPT ![s] = "ended"]
  /\ declared' = [declared EXCEPT ![s] = {}]
  /\ UNCHANGED <<held, tasks, counter, executed, zenohVars>>

\* serve() returns Err or its future is dropped, and with either its locals: the
\* queryable with the queries still in its channel (and the one in hand) and the
\* tokens not yet moved to the Server.  Server.tokens stays.
ServeEnds(s) ==
  /\ phase' = [phase EXCEPT ![s] = "ended"]
  /\ declared' = [declared EXCEPT ![s] = {}]
  /\ queryables' = queryables \ {s}
  /\ inbox' = [inbox EXCEPT ![s] = <<>>]
  /\ open' = Dropping({s}, IdsOf(inbox[s]))
  /\ UNCHANGED <<held, tasks, counter, executed>>

TokenRefused(s) ==
  /\ phase[s] = "declaring"
  /\ ServicesOf[s] # declared[s]
  /\ ServeEnds(s)

\* The user drops the future of serve(&self) at one of its awaits and keeps the
\* Server.
AbortServe(s) ==
  /\ s \in Abortable
  /\ Running(s)
  /\ ServeEnds(s)

\* self.tokens.lock().await.extend(tokens)
EnterLoop(s) ==
  /\ phase[s] = "declaring"
  /\ declared[s] = ServicesOf[s]
  /\ phase' = [phase EXCEPT ![s] = "serving"]
  /\ held' = [held EXCEPT ![s] = @ \cup declared[s]]
  /\ declared' = [declared EXCEPT ![s] = {}]
  /\ UNCHANGED <<tasks, counter, executed, zenohVars>>

-----------------------------------------------------------------------------
(* The loop of serve().                                                    *)

Receivable(s) == phase[s] = "serving" /\ inbox[s] # <<>>

IsEndpoint(ke, endpoint) == HasToken(ke, 2) /\ Token(ke, 2) = endpoint

\* A key that names a service of this server.
NamesService(s, ke) == HasToken(ke, 3) /\ Token(ke, 3) \in ServicesOf[s]

\* A loop that looks for a payload before it looks at the endpoint.
EndsServe_AnyEndpoint(s, query) ==
  ~ /\ query.body # "absent"
    /\ IsEndpoint(query.ke, "service") => NamesService(s, query.ke)

\* The three errors that "?" raises in the loop: no service name in the key, a
\* service this server does not have, no payload.
EndsServe(s, query) ==
  /\ IsEndpoint(query.ke, "service")
  /\ ~(NamesService(s, query.ke) /\ query.body # "absent")

\* A loop that answers the head of the channel without taking it.
Spawn_Peek(s, reply) ==
  /\ tasks' = [tasks EXCEPT ![s] = @ \cup {[query |-> Head(inbox[s]), reply |-> reply]}]
  /\ UNCHANGED <<phase, declared, held, counter, executed, zenohVars>>

\* tokio::task::spawn of the future that will reply to the head of the channel.
Spawn(s, reply) ==
  /\ tasks' = [tasks EXCEPT ![s] = @ \cup {[query |-> Head(inbox[s]), reply |-> reply]}]
  /\ inbox' = [inbox EXCEPT ![s] = Tail(@)]
  /\ UNCHANGED <<phase, declared, held, counter, executed, queryables, open>>

ReceiveServiceCall(s) ==
  /\ Receivable(s)
  /\ IsEndpoint(Head(inbox[s]).ke, "service")
  /\ ~EndsServe(s, Head(inbox[s]))
  /\ Spawn(s, Pending)

\* server_metadata: the labels and the id, both immutable.
ReceiveMetadata(s) ==
  /\ Receivable(s)
  /\ IsEndpoint(Head(inbox[s]).ke, "metadata")
  /\ Spawn(s, Sample("Ok", Metadata(ZidOf[s], LabelsOf[s])))

\* create_error: Status::unavailable.
ReceiveUnknown(s) ==
  /\ Receivable(s)
  /\ ~IsEndpoint(Head(inbox[s]).ke, "service")
  /\ ~IsEndpoint(Head(inbox[s]).ke, "metadata")
  /\ Spawn(s, Sample("Unavailable", NoPayload))

ReceiveEndsServe(s) ==
  /\ Receivable(s)
  /\ EndsServe(s, Head(inbox[s]))
  /\ ServeEnds(s)

-----------------------------------------------------------------------------
(* A spawned task.                                                         *)

Finish(s, t, reply) ==
  tasks' = [tasks EXCEPT ![s] = (@ \ {t}) \cup {[t EXCEPT !.reply = reply]}]

\* service_call on a key without a method: its error becomes the reply.
MethodMissing(s, t) ==
  /\ t.reply = Pending
  /\ ~HasToken(t.query.ke, 4)
  /\ Finish(s, t, Sample("InternalError", NoPayload))
  /\ UNCHANGED <<phase, declared, held, counter, executed, zenohVars>>

\* The last arm of the generated Service::call.
MethodUnknown(s, t) ==
  /\ t.reply = Pending
  /\ HasToken(t.query.ke, 4)
  /\ Token(t.query.ke, 4) \notin MethodsOf[Token(t.query.ke, 3)]
  /\ Finish(s, t, Sample("Unavailable", NoPayload))
  /\ UNCHANGED <<phase, declared, held, counter, executed, zenohVars>>

\* The generated Service::call reaches the arm of a method it knows.
Dispatched(t) ==
  /\ t.reply = Pending
  /\ HasToken(t.query.ke, 4)
  /\ Token(t.query.ke, 4) \in MethodsOf[Token(t.query.ke, 3)]

\* What service_call puts in the WireMessage for each outcome of a handler.
HandlerReply(outcome, n) ==
  IF outcome \in ErrorCode THEN Sample(outcome, NoPayload)
  ELSE Sample("Ok", IF outcome = "value" THEN Value(n) ELSE Opaque)

\* The user's handler runs, once per task: it takes the lock on its state,
\* changes it, and returns what it read, or a status.
RunHandler(s, t) ==
  /\ Dispatched(t)
  /\ t.query.body = "wellformed"
  /\ counter' = [counter EXCEPT ![s] = @ + 1]
  /\ executed' = executed \cup {[id |-> t.query.id, server |-> s, value |-> counter[s] + 1]}
  /\ \E outcome \in Outcomes : Finish(s, t, HandlerReply(outcome, counter[s] + 1))
  /\ UNCHANGED <<phase, declared, held, zenohVars>>

\* A server that was started, or whose tasks outlive it, has a process to lose.
HasProcess(s) == Started(s) \/ tasks[s] # {}

\* The servers of session z lose their process.  Zenoh keeps what they declared
\* until the lease of the session runs out.
ProcessDies(z) ==
  LET dead == {s \in Server : ZidOf[s] = z /\ HasProcess(s)}
  IN  /\ phase' = [s \in Server |-> IF s \in dead THEN "crashed" ELSE phase[s]]
      /\ tasks' = [s \in Server |-> IF s \in dead THEN {} ELSE tasks[s]]
      /\ inbox' = [s \in Server |-> IF s \in dead THEN <<>> ELSE inbox[s]]
      /\ UNCHANGED <<declared, held, counter, executed, queryables, open>>

\* deserialize(&req.body).unwrap(): the panic ends the task, whose Query is
\* dropped unanswered, or the whole process.
HandlerPanics(s, t) ==
  /\ Dispatched(t)
  /\ t.query.body = "malformed"
  /\ \/ /\ PanicAborts
        /\ ProcessDies(ZidOf[s])
     \/ /\ ~PanicAborts
        /\ tasks' = [tasks EXCEPT ![s] = @ \ {t}]
        /\ open' = Dropping({s}, {t.query.id})
        /\ UNCHANGED <<phase, declared, held, counter, executed, queryables, inbox>>

\* query.reply(ke, sample), the last step of the task.
SendReply(s, t) ==
  /\ t.reply # Pending
  /\ tasks' = [tasks EXCEPT ![s] = @ \ {t}]
  /\ open' = Answering(s, t.query.id, t.reply)
  /\ UNCHANGED <<phase, declared, held, counter, executed, queryables, inbox>>

-----------------------------------------------------------------------------
(* The end of a server.                                                    *)

\* Nothing that servers S declared is known to Zenoh any more.
Gone(S) ==
  /\ phase' = [s \in Server |-> IF s \in S THEN "gone" ELSE phase[s]]
  /\ declared' = [s \in Server |-> IF s \in S THEN {} ELSE declared[s]]
  /\ held' = [s \in Server |-> IF s \in S THEN {} ELSE held[s]]
  /\ inbox' = [s \in Server |-> IF s \in S THEN <<>> ELSE inbox[s]]
  /\ queryables' = queryables \ S
  /\ UNCHANGED <<tasks, counter, executed>>

\* The owner drops the Server and its tokens with it.  The future of serve(&self)
\* borrows it, so it is gone by then; spawned tasks go on.
DropServer(s) ==
  /\ Alive(s)
  /\ ~Running(s)
  /\ phase' = [phase EXCEPT ![s] = "gone"]
  /\ held' = [held EXCEPT ![s] = {}]
  /\ UNCHANGED <<declared, tasks, counter, executed, zenohVars>>

\* The session is closed: recv_async fails, and serve() with it.  Tasks that
\* are still running can no longer be heard.
CloseSession(z) ==
  LET closed == {s \in Server : ZidOf[s] = z /\ Started(s)}
  IN  /\ closed # {}
      /\ Gone(closed)
      /\ open' = [c \in Client |-> [open[c] EXCEPT !.pending = @ \ closed]]

Crash(z) ==
  /\ \E s \in Server : ZidOf[s] = z /\ HasProcess(s)
  /\ ProcessDies(z)

LeaseExpires(z) ==
  LET expired == {s \in Server : ZidOf[s] = z /\ phase[s] = "crashed"}
  IN  /\ expired # {}
      /\ Gone(expired)
      /\ open' = [c \in Client |-> [open[c] EXCEPT !.pending = @ \ expired]]

-----------------------------------------------------------------------------
\* What a running serve() does, undisturbed.
ServeProgress(s) ==
  \/ DeclareToken(s)
  \/ EnterLoop(s)
  \/ ReceiveServiceCall(s)
  \/ ReceiveMetadata(s)
  \/ ReceiveUnknown(s)
  \/ ReceiveEndsServe(s)

\* What ends it other than a query.
ServeCutShort(s) == QueryableRefused(s) \/ TokenRefused(s) \/ AbortServe(s)

TaskStep(s) ==
  \E t \in tasks[s] :
    \/ MethodMissing(s, t)
    \/ MethodUnknown(s, t)
    \/ RunHandler(s, t)
    \/ HandlerPanics(s, t)
    \/ SendReply(s, t)

ServerNext ==
  \/ \E s \in Server : DeclareQueryable(s) \/ ServeProgress(s) \/ ServeCutShort(s)
  \/ \E s \in Server : TaskStep(s)
  \/ \E s \in Server : DropServer(s)
  \/ \E z \in Zid : CloseSession(z)
  \/ \E z \in Crashable : Crash(z)
  \/ \E z \in Zid : LeaseExpires(z)

ServerTypeOK ==
  /\ phase \in [Server -> Phase]
  /\ \A s \in Server : declared[s] \subseteq ServicesOf[s] /\ held[s] \subseteq ServicesOf[s]
  /\ declared \in [Server -> SUBSET Svc]
  /\ held \in [Server -> SUBSET Svc]
  /\ tasks \in [Server -> SUBSET Task]
  /\ counter \in [Server -> Nat]
  /\ executed \subseteq Execution
=============================================================================
