----------------------------- MODULE ZrpcSystem -----------------------------
(***************************************************************************)
(* Servers and clients of zenoh-rpc over Zenoh.                            *)
(***************************************************************************)
EXTENDS ZrpcServer, ZrpcClient

vars == <<zenohVars, serverVars, clientVars>>

Init == ZenohInit /\ ServerInit /\ ClientInit

\* A liveliness query for any service: @rpc/*/service/*.
Advertising_AnyService(v) == {ZidOf[s] : s \in {t \in Server : Advertised(t) # {}}}

\* The sessions whose liveliness tokens a query for service v finds.
Advertising(v) == {ZidOf[s] : s \in {t \in Server : v \in Advertised(t)}}

StartCall(c) == Discover(c, Advertising(ClientService[c])) \/ RawGet(c)

Next ==
  \/ ServerNext /\ UNCHANGED clientVars
  \/ \E c \in Client : (StartCall(c) \/ ClientProgress(c) \/ Interrupted(c))
                       /\ UNCHANGED serverVars
  \/ \E c \in Client : QueryTimeout(c) /\ UNCHANGED <<serverVars, clientVars>>

Spec == Init /\ [][Next]_vars

\* serve() and the tasks it spawned get to run, and handlers return; Zenoh
\* notices a session that died.  Users need not call and need not serve, and
\* nothing has to fail.
ServersRun ==
  /\ \A s \in Server : WF_vars(ServeProgress(s) /\ UNCHANGED clientVars)
  /\ \A s \in Server : WF_vars(TaskStep(s) /\ UNCHANGED clientVars)
  /\ \A z \in Zid : WF_vars(LeaseExpires(z) /\ UNCHANGED clientVars)

\* A client that is in a call gets to run.
ClientsRun == \A c \in Client : WF_vars(ClientProgress(c) /\ UNCHANGED serverVars)

\* The timer of a get that stays open fires.
TimersRun ==
  \A c \in Client : WF_vars(QueryTimeout(c) /\ UNCHANGED <<serverVars, clientVars>>)

\* No timer ever has to fire, but servers work.
ServedSpec == Spec /\ ServersRun /\ ClientsRun

-----------------------------------------------------------------------------
(* The same system where a session id is used by one server after another: *)
(* a Server is only started under an id that no running Server has, but    *)
(* Zenoh may still know what a crashed predecessor declared.               *)

OneServing ==
  \A s, t \in Server : s # t /\ ZidOf[s] = ZidOf[t] => ~(Running(s) /\ Running(t))

\* Servers and handlers may hang, but timers fire.
TimedSpec == Init /\ [][Next /\ OneServing']_vars /\ TimersRun /\ ClientsRun

-----------------------------------------------------------------------------
(* The same system on a good day: nobody stops a server, nothing crashes,  *)
(* no get or declaration fails and no timer fires.                         *)

CalmNext ==
  \/ \E s \in Server : (DeclareQueryable(s) \/ ServeProgress(s) \/ TaskStep(s))
                       /\ UNCHANGED clientVars
  \/ \E c \in Client : (StartCall(c) \/ ClientProgress(c)) /\ UNCHANGED serverVars

CalmSpec == Init /\ [][CalmNext]_vars

-----------------------------------------------------------------------------
\* The state of Zenoh, of the servers and of the clients is well formed; in
\* particular every query in flight has a key and a body that can be sent.
TypeOK == ZenohTypeOK /\ ServerTypeOK /\ ClientTypeOK

\* The queries a server holds: in its channel, or owned by a task.
HeldQueries(s) == {inbox[s][i] : i \in DOMAIN inbox[s]} \cup {t.query : t \in tasks[s]}

\* Whoever a client still waits for holds its query, or has crashed unnoticed:
\* no path through serve() or a task loses a query without Zenoh being told.
PendingIsHeld ==
  \A c \in Client : \A s \in open[c].pending :
    \/ \E q \in HeldQueries(s) : q.id = open[c].id
    \/ phase[s] = "crashed"

\* A service that is advertised can be asked for, except by what a Server keeps
\* when its serve() has ended, in an error or because its future was dropped, and
\* may then take into a crash: its tokens, all of them, until it serves again or
\* is dropped.  Nothing that only a serve() had declared outlives its queryable.
AdvertisedAnswerable ==
  \A s \in Server : s \notin queryables =>
    /\ declared[s] = {}
    /\ \/ held[s] = {}
       \/ held[s] = ServicesOf[s] /\ phase[s] \in {"ended", "crashed"}

\* No query that generated clients put in a server's channel can end serve().
NoPoisonQuery ==
  \A s \in Server : \A i \in DOMAIN inbox[s] :
    inbox[s][i].id.client \in GeneratedClient => ~EndsServe(s, inbox[s][i])

\* A call runs a handler at most once, whatever servers its gets go to.
AtMostOnce ==
  \A e, f \in executed :
    e.id.client = f.id.client /\ e.id.call = f.id.call => e = f

\* A server that may execute the calls of a client.
Suitable(c, s) ==
  /\ ClientService[c] \in ServicesOf[s]
  /\ ClientLabels[c] \subseteq LabelsOf[s]

\* Servers that share a session id, at the same time or one after the other,
\* offer the same services under the same labels.
Interchangeable ==
  \A s, t \in Server : ZidOf[s] = ZidOf[t] =>
    ServicesOf[s] = ServicesOf[t] /\ LabelsOf[s] = LabelsOf[t]

\* A handler only ever runs for clients whose service it offers and whose
\* labels its server has, however stale the client's discovery was.
LabelsRespected ==
  \A e \in executed : e.id.client \in GeneratedClient => Suitable(e.id.client, e.server)

\* An Ok result is what a handler returned for this very call.
OkIsExecuted ==
  \A c \in Client : \A n \in DOMAIN results[c] : results[c][n].kind = "ok" =>
    \E e \in executed : /\ e.id.client = c /\ e.id.call = n
                        /\ e.value = results[c][n].value

\* On a good day whoever was found is reached: a server that advertises the
\* client's service and has its labels is still a candidate when the metadata
\* is in.
FoundIsReached ==
  \A c \in Client : pc[c] = "collecting" =>
    \A s \in Server :
      ZidOf[s] \in ids[c] \ todo[c] /\ Suitable(c, s) =>
        \E i \in Eligible(c) : metas[c][i].id = ZidOf[s]

\* On a good day every call ends with what its handler answered, or, if it never
\* reached a handler, with the Unavailable of find_server.
AnswersArrive ==
  \A c \in GeneratedClient : \A n \in DOMAIN results[c] :
    LET mine == {e \in executed : e.id.client = c /\ e.id.call = n}
    IN  IF mine = {} THEN results[c][n] = Err("Unavailable")
        ELSE \E e \in mine, outcome \in Outcomes :
               results[c][n] = CallResult(HandlerReply(outcome, e.value))

\* serve() is never brought down by a query of a generated client.
ServeSurvivesGenerated ==
  [][\A s \in Server : ReceiveEndsServe(s) => Head(inbox[s]).id.client \in RawClient]_vars

\* Every call returns to its user.
CallReturns == \A c \in Client : pc[c] # "idle" ~> pc[c] = "idle"

\* Every query a server holds is done with.
Drains == \A s \in Server : HeldQueries(s) # {} ~> HeldQueries(s) = {}

-----------------------------------------------------------------------------
(* What comments of the code say of it.                                    *)

\* rpcchannel.rs, call_fun: when the value does not deserialize or there is
\* none, the caller gets an error, hence a status whose code is an error code.
ErrIsAnError ==
  \A c \in GeneratedClient : \A n \in DOMAIN results[c] :
    results[c][n].kind = "err" => results[c][n].code \in ErrorCode

\* rpcchannel.rs, call_fun: "eval goes to only one" server.
EvalGoesToOne == \A e, f \in executed : e.id = f.id => e.server = f.server

\* server.rs, serve: the reply to an unknown endpoint is an internal error.
UnknownIsInternalError ==
  \A s \in Server : \A t \in tasks[s] :
    /\ ~IsEndpoint(t.query.ke, "service")
    /\ ~IsEndpoint(t.query.ke, "metadata")
    => t.reply.code = "InternalError"
=============================================================================
