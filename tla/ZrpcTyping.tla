----------------------------- MODULE ZrpcTyping -----------------------------
(***************************************************************************)
(* Type correctness of ZrpcSystem, for every value of its constants.       *)
(*                                                                         *)
(* TypeOK is not inductive: the key of a call is well formed because the   *)
(* client still knows its request, which RequestKnown adds.                *)
(***************************************************************************)
EXTENDS ZrpcSystem, SequenceTheorems, TLAPS

RequestKnown ==
  \A c \in Client : pc[c] \in {"collecting", "metadata"} => request[c] \in Requests

TypeInv == TypeOK /\ RequestKnown

-----------------------------------------------------------------------------
\* The result of a call is a Result whatever reply it is computed from.
LEMMA CallResultType ==
  ASSUME NEW r \in Reply
  PROVE  CallResult(r) \in Result
<1>1. CASE r = ReplyError
  BY <1>1 DEF ReplyError, CallResult, Result, Err, Code, ErrorCode
<1>2. CASE r \in [kind : {"sample"}, code : Code, payload : Payload]
  <2>1. CASE r.payload.kind = "value"
    <3>1. r.payload.value \in Nat
      BY <1>2, <2>1 DEF Payload, NoPayload, Opaque
    <3> QED BY <1>2, <2>1, <3>1 DEF CallResult, Result, Ok
  <2>2. CASE r.payload.kind # "value"
    BY <1>2, <2>2 DEF CallResult, Result, Err
  <2> QED BY <2>1, <2>2
<1> QED BY <1>1, <1>2 DEF Reply

\* What a handler can answer is a Reply.
LEMMA HandlerReplyType ==
  ASSUME NEW outcome \in Outcomes, NEW n \in Nat
  PROVE  HandlerReply(outcome, n) \in Reply
<1>1. outcome \in {"value", "opaque"} \cup ErrorCode
  BY ServerAssumption
<1>2. ErrorCode \subseteq Code /\ "Ok" \in Code
  BY DEF ErrorCode, SuccessCode, Code
<1>3. NoPayload \in Payload /\ Opaque \in Payload /\ Value(n) \in Payload
  BY DEF Payload, Value
<1> QED BY <1>1, <1>2, <1>3 DEF HandlerReply, Sample, Reply

\* Replies that the server computes without running a handler.
LEMMA SampleType ==
  /\ Sample("InternalError", NoPayload) \in Reply
  /\ Sample("Unavailable", NoPayload) \in Reply
  /\ \A s \in Server : Sample("Ok", Metadata(ZidOf[s], LabelsOf[s])) \in Reply
BY ZenohAssumption, ServerAssumption
   DEF Sample, NoPayload, Metadata, Reply, Payload, Code, ErrorCode, SuccessCode

\* A reply is never the mark of a task still running.
LEMMA ReplyNotPending ==
  ASSUME NEW r \in Reply PROVE r # Pending
BY DEF Reply, ReplyError, Pending

LEMMA DroppingType ==
  ASSUME open \in [Client -> OpenGet], NEW S, NEW qs
  PROVE  Dropping(S, qs) \in [Client -> OpenGet]
BY DEF Dropping, OpenGet

LEMMA AnsweringType ==
  ASSUME open \in [Client -> OpenGet], NEW s, NEW id, NEW reply \in Reply
  PROVE  Answering(s, id, reply) \in [Client -> OpenGet]
<1>1. ASSUME NEW c \in Client
      PROVE  [open[c] EXCEPT !.pending = @ \ {s}, !.replies = Append(@, reply)] \in OpenGet
  <2>1. open[c] \in OpenGet OBVIOUS
  <2>2. Append(open[c].replies, reply) \in Seq(Reply)
    BY <2>1, AppendProperties DEF OpenGet
  <2> QED BY <2>1, <2>2 DEF OpenGet
<1> QED BY <1>1 DEF Answering

LEMMA GetType ==
  ASSUME ZenohTypeOK, NEW c \in Client, NEW id \in QueryId,
         NEW ke \in Seq(KeyToken), NEW body \in Body, Get(c, id, ke, body)
  PROVE  ZenohTypeOK'
<1> DEFINE query == [id |-> id, ke |-> ke, body |-> body]
<1>1. query \in Query
  BY DEF Query
<1>2. inbox' \in [Server -> Seq(Query)]
  <2>1. \A s \in Server : Append(inbox[s], query) \in Seq(Query)
    BY <1>1, AppendProperties DEF ZenohTypeOK
  <2> QED BY <2>1 DEF Get, ZenohTypeOK
<1>3. open' \in [Client -> OpenGet]
  <2>1. [id |-> id, pending |-> Matching(ke), replies |-> <<>>] \in OpenGet
    BY DEF ZenohTypeOK, OpenGet, Matching
  <2> QED BY <2>1 DEF Get, ZenohTypeOK
<1> QED BY <1>2, <1>3 DEF Get, ZenohTypeOK
\* serve() returning an error, and the end of servers, keep the types.
LEMMA ServeEndsType ==
  ASSUME ZenohTypeOK, ServerTypeOK, NEW s \in Server, ServeEnds(s)
  PROVE  ZenohTypeOK' /\ ServerTypeOK'
<1>1. open' \in [Client -> OpenGet]
  BY DroppingType DEF ServeEnds, ZenohTypeOK
<1>2. inbox' \in [Server -> Seq(Query)]
  BY DEF ServeEnds, ZenohTypeOK
<1>3. ZenohTypeOK'
  BY <1>1, <1>2 DEF ServeEnds, ZenohTypeOK
<1>4. ServerTypeOK'
  BY DEF ServeEnds, ServerTypeOK, Phase
<1> QED BY <1>3, <1>4

LEMMA GoneType ==
  ASSUME ZenohTypeOK, ServerTypeOK, NEW S \in SUBSET Server, Gone(S)
  PROVE  ServerTypeOK' /\ queryables' \subseteq Server /\ inbox' \in [Server -> Seq(Query)]
<1>1. ServerTypeOK'
  BY DEF Gone, ServerTypeOK, Phase
<1>2. queryables' \subseteq Server /\ inbox' \in [Server -> Seq(Query)]
  BY DEF Gone, ZenohTypeOK
<1> QED BY <1>1, <1>2

LEMMA ProcessDiesType ==
  ASSUME ZenohTypeOK, ServerTypeOK, NEW z, ProcessDies(z)
  PROVE  ZenohTypeOK' /\ ServerTypeOK'
<1>1. ZenohTypeOK'
  BY DEF ProcessDies, ZenohTypeOK
<1>2. ServerTypeOK'
  BY DEF ProcessDies, ServerTypeOK, Phase
<1> QED BY <1>1, <1>2

LEMMA SpawnType ==
  ASSUME ZenohTypeOK, ServerTypeOK, NEW s \in Server, Receivable(s),
         NEW reply \in Reply \cup {Pending}, Spawn(s, reply)
  PROVE  ZenohTypeOK' /\ ServerTypeOK'
<1>1. Head(inbox[s]) \in Query /\ Tail(inbox[s]) \in Seq(Query)
  BY HeadTailProperties DEF Receivable, ZenohTypeOK
<1>2. ZenohTypeOK'
  BY <1>1 DEF Spawn, ZenohTypeOK
<1>3. [query |-> Head(inbox[s]), reply |-> reply] \in Task
  BY <1>1 DEF Task
<1>4. ServerTypeOK'
  BY <1>3 DEF Spawn, ServerTypeOK
<1> QED BY <1>2, <1>4

LEMMA FinishType ==
  ASSUME ServerTypeOK, NEW s \in Server, NEW t \in tasks[s], NEW reply \in Reply,
         Finish(s, t, reply)
  PROVE  tasks' \in [Server -> SUBSET Task]
<1>1. t \in Task
  BY DEF ServerTypeOK
<1>2. [t EXCEPT !.reply = reply] \in Task
  BY <1>1 DEF Task
<1> QED BY <1>2 DEF Finish, ServerTypeOK

\* What serve() does keeps the types.
LEMMA ServeType ==
  ASSUME ZenohTypeOK, ServerTypeOK, NEW s \in Server,
         DeclareQueryable(s) \/ ServeProgress(s) \/ ServeCutShort(s)
  PROVE  ZenohTypeOK' /\ ServerTypeOK'
<1>1. CASE DeclareQueryable(s)
  BY <1>1 DEF DeclareQueryable, ZenohTypeOK, ServerTypeOK, Phase
<1>2. CASE QueryableRefused(s)
  BY <1>2 DEF QueryableRefused, zenohVars, ZenohTypeOK, ServerTypeOK, Phase
<1>3. CASE TokenRefused(s)
  BY <1>3, ServeEndsType DEF TokenRefused
<1>4. CASE DeclareToken(s)
  <2>1. ServicesOf[s] \subseteq Svc
    BY ServerAssumption
  <2>2. ServerTypeOK'
    BY <1>4, <2>1 DEF DeclareToken, ServerTypeOK
  <2> QED BY <1>4, <2>2 DEF DeclareToken, zenohVars, ZenohTypeOK
<1>5. CASE EnterLoop(s)
  BY <1>5 DEF EnterLoop, zenohVars, ZenohTypeOK, ServerTypeOK, Phase
<1>6. CASE ReceiveServiceCall(s)
  BY <1>6, SpawnType DEF ReceiveServiceCall
<1>7. CASE ReceiveMetadata(s)
  BY <1>7, SpawnType, SampleType DEF ReceiveMetadata
<1>8. CASE ReceiveUnknown(s)
  BY <1>8, SpawnType, SampleType DEF ReceiveUnknown
<1>9. CASE ReceiveEndsServe(s)
  BY <1>9, ServeEndsType DEF ReceiveEndsServe
<1>10. CASE AbortServe(s)
  BY <1>10, ServeEndsType DEF AbortServe
<1> QED
  BY <1>1, <1>2, <1>3, <1>4, <1>5, <1>6, <1>7, <1>8, <1>9, <1>10
     DEF ServeProgress, ServeCutShort

\* What a task does keeps the types.
LEMMA TaskType ==
  ASSUME ZenohTypeOK, ServerTypeOK, NEW s \in Server, TaskStep(s)
  PROVE  ZenohTypeOK' /\ ServerTypeOK'
<1> PICK t \in tasks[s] :
       \/ MethodMissing(s, t) \/ MethodUnknown(s, t) \/ RunHandler(s, t)
       \/ HandlerPanics(s, t) \/ SendReply(s, t)
  BY DEF TaskStep
<1>0. t \in Task /\ t.query \in Query
  BY DEF ServerTypeOK, Task
<1>1. CASE MethodMissing(s, t)
  <2>1. tasks' \in [Server -> SUBSET Task]
    BY <1>1, FinishType, SampleType DEF MethodMissing
  <2> QED BY <1>1, <2>1 DEF MethodMissing, zenohVars, ZenohTypeOK, ServerTypeOK
<1>2. CASE MethodUnknown(s, t)
  <2>1. tasks' \in [Server -> SUBSET Task]
    BY <1>2, FinishType, SampleType DEF MethodUnknown
  <2> QED BY <1>2, <2>1 DEF MethodUnknown, zenohVars, ZenohTypeOK, ServerTypeOK
<1>3. CASE RunHandler(s, t)
  <2>1. counter[s] + 1 \in Nat
    BY DEF ServerTypeOK
  <2>2. PICK outcome \in Outcomes : Finish(s, t, HandlerReply(outcome, counter[s] + 1))
    BY <1>3 DEF RunHandler
  <2>3. tasks' \in [Server -> SUBSET Task]
    BY <2>1, <2>2, FinishType, HandlerReplyType
  <2>4. [id |-> t.query.id, server |-> s, value |-> counter[s] + 1] \in Execution
    BY <1>0, <2>1 DEF Execution, Query
  <2>5. executed' \subseteq Execution /\ counter' \in [Server -> Nat]
    BY <1>3, <2>1, <2>4 DEF RunHandler, ServerTypeOK
  <2> QED BY <1>3, <2>3, <2>5 DEF RunHandler, zenohVars, ZenohTypeOK, ServerTypeOK
<1>4. CASE HandlerPanics(s, t)
  <2>1. CASE ProcessDies(ZidOf[s])
    BY <2>1, ProcessDiesType
  <2>2. CASE /\ tasks' = [tasks EXCEPT ![s] = @ \ {t}]
             /\ open' = Dropping({s}, {t.query.id})
             /\ UNCHANGED <<phase, declared, held, counter, executed, queryables, inbox>>
    <3>1. open' \in [Client -> OpenGet]
      BY <2>2, DroppingType DEF ZenohTypeOK
    <3> QED BY <2>2, <3>1 DEF ZenohTypeOK, ServerTypeOK
  <2> QED BY <1>4, <2>1, <2>2 DEF HandlerPanics
<1>5. CASE SendReply(s, t)
  <2>1. t.reply \in Reply
    BY <1>0, <1>5 DEF SendReply, Task
  <2>2. open' \in [Client -> OpenGet]
    BY <1>5, <2>1, AnsweringType DEF SendReply, ZenohTypeOK
  <2> QED BY <1>5, <2>2 DEF SendReply, ZenohTypeOK, ServerTypeOK
<1> QED BY <1>1, <1>2, <1>3, <1>4, <1>5

\* Every step of a server keeps the types.
LEMMA ServerStepType ==
  ASSUME ZenohTypeOK, ServerTypeOK, ServerNext
  PROVE  ZenohTypeOK' /\ ServerTypeOK'
<1>1. CASE \E s \in Server : DeclareQueryable(s) \/ ServeProgress(s) \/ ServeCutShort(s)
  BY <1>1, ServeType
<1>2. CASE \E s \in Server : TaskStep(s)
  BY <1>2, TaskType
<1>3. ASSUME NEW s \in Server, DropServer(s)
      PROVE  ZenohTypeOK' /\ ServerTypeOK'
  BY <1>3 DEF DropServer, zenohVars, ZenohTypeOK, ServerTypeOK, Phase
<1>4. ASSUME NEW z \in Zid, CloseSession(z)
      PROVE  ZenohTypeOK' /\ ServerTypeOK'
  <2>1. open' \in [Client -> OpenGet]
    BY <1>4 DEF CloseSession, ZenohTypeOK, OpenGet
  <2> QED BY <1>4, <2>1, GoneType DEF CloseSession, ZenohTypeOK
<1>5. CASE \E z \in Crashable : Crash(z)
  BY <1>5, ProcessDiesType DEF Crash
<1>6. ASSUME NEW z \in Zid, LeaseExpires(z)
      PROVE  ZenohTypeOK' /\ ServerTypeOK'
  <2>1. open' \in [Client -> OpenGet]
    BY <1>6 DEF LeaseExpires, ZenohTypeOK, OpenGet
  <2> QED BY <1>6, <2>1, GoneType DEF LeaseExpires, ZenohTypeOK
<1> QED BY <1>1, <1>2, <1>3, <1>4, <1>5, <1>6 DEF ServerNext

-----------------------------------------------------------------------------
\* The end of a call keeps the types.
LEMMA ReturnType ==
  ASSUME ClientTypeOK, RequestKnown, NEW c \in Client, NEW result \in Result,
         Return(c, result)
  PROVE  ClientTypeOK' /\ RequestKnown'
<1>1. Append(results[c], result) \in Seq(Result)
  BY AppendProperties DEF ClientTypeOK
<1>2. results' \in [Client -> Seq(Result)]
  BY <1>1 DEF Return, ClientTypeOK
<1>3. <<>> \in Seq(ServerMetadata)
  BY EmptySeq
<1>4. ClientTypeOK'
  BY <1>2, <1>3 DEF Return, ClientTypeOK, ClientPc
<1>5. RequestKnown'
  BY DEF Return, RequestKnown, ClientTypeOK
<1> QED BY <1>4, <1>5

LEMMA ReturnFromGetType ==
  ASSUME ZenohTypeOK, ClientTypeOK, RequestKnown, NEW c \in Client,
         NEW result \in Result, ReturnFromGet(c, result)
  PROVE  ZenohTypeOK' /\ ClientTypeOK' /\ RequestKnown'
<1>1. NoGet \in OpenGet
  BY EmptySeq DEF NoGet, OpenGet
<1> QED BY <1>1, ReturnType DEF ReturnFromGet, ZenohTypeOK

LEMMA ReturnWithoutGetType ==
  ASSUME ZenohTypeOK, ClientTypeOK, RequestKnown, NEW c \in Client,
         NEW result \in Result, ReturnWithoutGet(c, result)
  PROVE  ZenohTypeOK' /\ ClientTypeOK' /\ RequestKnown'
BY ReturnType DEF ReturnWithoutGet, zenohVars, ZenohTypeOK

\* The status codes the client makes up itself.
LEMMA ErrType == Err("InternalError") \in Result /\ Err("Unavailable") \in Result
BY DEF Err, Result, Code, ErrorCode

LEMMA GetIdType ==
  ASSUME ClientTypeOK, NEW c \in Client, NEW kind \in {"metadata", "call"}, NEW z \in Zid
  PROVE  GetId(c, kind, z) \in QueryId
<1>1. Len(results[c]) + 1 \in Nat \ {0}
  BY LenProperties DEF ClientTypeOK
<1> QED BY <1>1 DEF GetId, CurrentCall, QueryId

LEMMA KeyType ==
  ASSUME NEW z \in Zid
  PROVE  /\ MetadataKey(z) \in Seq(KeyToken)
         /\ \A v \in Svc, m \in Method : ServiceKey(z, v, m) \in Seq(KeyToken)
BY DEF MetadataKey, ServiceKey, KeyToken

\* Every step of a client keeps the types.
LEMMA ClientStepType ==
  ASSUME ZenohTypeOK, ServerTypeOK, ClientTypeOK, RequestKnown, NEW c \in Client,
         StartCall(c) \/ ClientProgress(c) \/ Interrupted(c)
  PROVE  ZenohTypeOK' /\ ClientTypeOK' /\ RequestKnown'
<1>1. CASE Discover(c, Advertising(ClientService[c]))
  <2>1. PICK r \in Requests, found \in SUBSET Advertising(ClientService[c]) :
          /\ request' = [request EXCEPT ![c] = r]
          /\ ids' = [ids EXCEPT ![c] = found]
          /\ todo' = [todo EXCEPT ![c] = found]
    BY <1>1 DEF Discover
  <2>2. found \subseteq Zid
    BY ZenohAssumption DEF Advertising
  <2>3. ClientTypeOK'
    BY <1>1, <2>1, <2>2 DEF Discover, ClientTypeOK, ClientPc
  <2>4. RequestKnown'
    BY <1>1, <2>1 DEF Discover, ClientTypeOK, RequestKnown
  <2> QED BY <1>1, <2>3, <2>4 DEF Discover, zenohVars, ZenohTypeOK
<1>2. CASE RawGet(c)
  <2>1. PICK ke \in RawKeys, body \in RawBodies :
          Get(c, GetId(c, "call", Token(ke, 1)), ke, body)
    BY <1>2 DEF RawGet
  <2>2. ke \in Seq(KeyToken) /\ Token(ke, 1) \in Zid /\ body \in Body
    BY ClientAssumption
  <2>3. ZenohTypeOK'
    BY <2>1, <2>2, GetType, GetIdType
  <2> QED BY <1>2, <2>3 DEF RawGet, ClientTypeOK, ClientPc, RequestKnown
<1>3. CASE AskMetadata(c)
  <2>1. PICK z \in todo[c] :
          /\ todo' = [todo EXCEPT ![c] = @ \ {z}]
          /\ Get(c, GetId(c, "metadata", z), MetadataKey(z), "absent")
    BY <1>3 DEF AskMetadata
  <2>2. z \in Zid
    BY DEF ClientTypeOK
  <2>3. "absent" \in Body
    BY DEF Body
  <2>4. ZenohTypeOK'
    BY <2>1, <2>2, <2>3, GetType, GetIdType, KeyType
  <2> QED BY <1>3, <2>1, <2>4 DEF AskMetadata, ClientTypeOK, ClientPc, RequestKnown
<1>4. CASE TakeMetadata(c)
  <2>1. /\ open[c] \in OpenGet
        /\ Head(open[c].replies) \in Reply
        /\ Tail(open[c].replies) \in Seq(Reply)
    BY <1>4, HeadTailProperties DEF TakeMetadata, ZenohTypeOK, OpenGet
  <2>2. open' \in [Client -> OpenGet]
    BY <1>4, <2>1 DEF TakeMetadata, ZenohTypeOK, OpenGet
  <2> DEFINE r == Head(open[c].replies)
             m == [id |-> r.payload.id, labels |-> r.payload.labels]
  <2>3. metas' \in [Client -> Seq(ServerMetadata)]
    <3>1. CASE Usable(c, r)
      <4>1. r \in [kind : {"sample"}, code : Code, payload : Payload]
        BY <2>1, <3>1 DEF Usable, Reply, ReplyError
      <4>2. r.payload \in [kind : {"metadata"}, id : Zid, labels : SUBSET Label]
        BY <3>1, <4>1 DEF Usable, Payload, NoPayload, Opaque
      <4>3. m \in ServerMetadata
        BY <4>2 DEF ServerMetadata
      <4>4. Append(metas[c], m) \in Seq(ServerMetadata)
        BY <4>3, AppendProperties DEF ClientTypeOK
      <4> QED BY <1>4, <3>1, <4>4 DEF TakeMetadata, ClientTypeOK
    <3>2. CASE ~Usable(c, r)
      BY <1>4, <3>2 DEF TakeMetadata, ClientTypeOK
    <3> QED BY <3>1, <3>2
  <2> QED BY <1>4, <2>2, <2>3 DEF TakeMetadata, ZenohTypeOK, ClientTypeOK, RequestKnown
<1>5. CASE MetadataClosed(c)
  <2>1. NoGet \in OpenGet
    BY EmptySeq DEF NoGet, OpenGet
  <2> QED
    BY <1>5, <2>1 DEF MetadataClosed, ZenohTypeOK, ClientTypeOK, ClientPc, RequestKnown
<1>6. CASE NoServerFound(c)
  BY <1>6, ReturnWithoutGetType, ErrType DEF NoServerFound
<1>7. CASE SendCall(c)
  <2>1. PICK i \in Eligible(c) :
          Get(c, GetId(c, "call", metas[c][i].id),
              ServiceKey(metas[c][i].id, ClientService[c], request[c].method),
              request[c].body)
    BY <1>7 DEF SendCall
  <2>2. metas[c][i].id \in Zid
    <3>1. metas[c] \in Seq(ServerMetadata)
      BY DEF ClientTypeOK
    <3>2. i \in 1..Len(metas[c])
      BY <3>1, LenProperties DEF Eligible
    <3>3. metas[c][i] \in ServerMetadata
      BY <3>1, <3>2, ElementOfSeq
    <3> QED BY <3>3 DEF ServerMetadata
  <2>3. request[c].method \in Method /\ request[c].body \in Body
    BY <1>7, ClientAssumption DEF SendCall, RequestKnown, Body
  <2>4. ClientService[c] \in Svc
    BY ClientAssumption
  <2>5. ZenohTypeOK'
    BY <2>1, <2>2, <2>3, <2>4, GetType, GetIdType, KeyType
  <2> QED BY <1>7, <2>5 DEF SendCall, ClientTypeOK, ClientPc, RequestKnown
<1>8. CASE SerializeFails(c)
  BY <1>8, ReturnWithoutGetType, ErrType DEF SerializeFails
<1>9. CASE TakeReply(c)
  <2>1. Head(open[c].replies) \in Reply
    BY <1>9, HeadTailProperties DEF TakeReply, ZenohTypeOK, OpenGet
  <2> QED BY <1>9, <2>1, CallResultType, ReturnFromGetType DEF TakeReply
<1>10. CASE NoReply(c)
  BY <1>10, ReturnFromGetType, ErrType DEF NoReply
<1>11. CASE Interrupted(c)
  <2>1. Cancelled \in Result
    BY DEF Cancelled, Result
  <2> QED BY <1>11, <2>1, ReturnWithoutGetType, ReturnFromGetType, ErrType
          DEF Interrupted, LivelinessFails, ForeignToken, AskMetadataFails, SendFails, Cancel
<1> QED
  BY <1>1, <1>2, <1>3, <1>4, <1>5, <1>6, <1>7, <1>8, <1>9, <1>10, <1>11
     DEF StartCall, ClientProgress

\* A timer keeps the types.
LEMMA QueryTimeoutType ==
  ASSUME ZenohTypeOK, NEW c \in Client, QueryTimeout(c)
  PROVE  ZenohTypeOK'
<1>1. open[c] \in OpenGet
  BY DEF ZenohTypeOK
<1>2. Append(open[c].replies, ReplyError) \in Seq(Reply)
  BY <1>1, AppendProperties DEF OpenGet, Reply
<1>3. open' \in [Client -> OpenGet]
  BY <1>1, <1>2 DEF QueryTimeout, ZenohTypeOK, OpenGet
<1> QED BY <1>3 DEF QueryTimeout, ZenohTypeOK

-----------------------------------------------------------------------------
LEMMA TypeInvInit == Init => TypeInv
<1> SUFFICES ASSUME Init PROVE TypeInv
  OBVIOUS
<1>1. ZenohTypeOK
  BY EmptySeq DEF Init, ZenohInit, ZenohTypeOK, OpenGet, NoGet
<1>2. ServerTypeOK
  BY DEF Init, ServerInit, ServerTypeOK, Phase
<1>3. ClientTypeOK
  BY EmptySeq DEF Init, ClientInit, ClientTypeOK, ClientPc
<1>4. RequestKnown
  BY DEF Init, ClientInit, RequestKnown
<1> QED BY <1>1, <1>2, <1>3, <1>4 DEF TypeInv, TypeOK

LEMMA TypeInvStep == TypeInv /\ [Next]_vars => TypeInv'
<1> SUFFICES ASSUME TypeInv, [Next]_vars PROVE TypeInv'
  OBVIOUS
<1> USE DEF TypeInv, TypeOK
<1>1. CASE ServerNext /\ UNCHANGED clientVars
  <2>1. ZenohTypeOK' /\ ServerTypeOK'
    BY <1>1, ServerStepType
  <2> QED BY <1>1, <2>1 DEF clientVars, ClientTypeOK, RequestKnown
<1>2. CASE \E c \in Client : (StartCall(c) \/ ClientProgress(c) \/ Interrupted(c))
                             /\ UNCHANGED serverVars
  <2>1. ZenohTypeOK' /\ ClientTypeOK' /\ RequestKnown'
    BY <1>2, ClientStepType
  <2> QED BY <1>2, <2>1 DEF serverVars, ServerTypeOK
<1>3. CASE \E c \in Client : QueryTimeout(c) /\ UNCHANGED <<serverVars, clientVars>>
  <2>1. ZenohTypeOK'
    BY <1>3, QueryTimeoutType
  <2> QED
    BY <1>3, <2>1 DEF serverVars, clientVars, ServerTypeOK, ClientTypeOK, RequestKnown
<1>4. CASE UNCHANGED vars
  BY <1>4 DEF vars, zenohVars, serverVars, clientVars,
              ZenohTypeOK, ServerTypeOK, ClientTypeOK, RequestKnown
<1> QED BY <1>1, <1>2, <1>3, <1>4 DEF Next

\* The state of Zenoh, of every server and of every client keeps its type; a
\* client that has yet to send its call still knows the request.
THEOREM TypeInvariance == Spec => []TypeInv
BY TypeInvInit, TypeInvStep, PTL DEF Spec

THEOREM TypeCorrect == Spec => []TypeOK
BY TypeInvariance, PTL DEF TypeInv
=============================================================================
