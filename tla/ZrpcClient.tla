----------------------------- MODULE ZrpcClient -----------------------------
(***************************************************************************)
(* The client side: the client that zrpc-derive generates (find_server,    *)
(* then call_fun) over RPCClientChannel of zrpc/src/rpcchannel.rs, and the *)
(* applications that use RPCClientChannel or the session directly.         *)
(*                                                                         *)
(* A generated client awaits, in turn: the liveliness query for its        *)
(* service, one metadata query per session found, and the call.  It caches *)
(* nothing between calls and never retries.                                *)
(***************************************************************************)
EXTENDS Zenoh

CONSTANTS
  RawClient,      \* clients that issue gets of their own making
  RawKeys,        \* the keys those use
  RawBodies,      \* and the payloads they attach
  ClientService,  \* the service of each generated client
  ClientLabels,   \* the labels it requires
  Requests,       \* the requests of users: [method, body]
  MaxCalls        \* bound: calls per client

ASSUME ClientAssumption ==
  /\ RawClient \subseteq Client
  /\ \A ke \in RawKeys : ke \in Seq(KeyToken) /\ Len(ke) >= 2 /\ Token(ke, 1) \in Zid
  /\ RawBodies \subseteq Body
  /\ ClientService \in [Client -> Svc]
  /\ ClientLabels \in [Client -> SUBSET Label]
  /\ Requests \subseteq [method : Method, body : {"wellformed", "malformed", "unserializable"}]
  /\ MaxCalls \in Nat

VARIABLES
  pc,       \* what each client awaits
  request,  \* the request of its call
  ids,      \* the sessions its liveliness query found
  todo,     \* those whose metadata it has yet to ask for
  metas,    \* the metadata it collected, in order
  results   \* history: the results of its calls

clientVars == <<pc, request, ids, todo, metas, results>>

GeneratedClient == Client \ RawClient
ClientPc == {"idle", "collecting", "metadata", "calling"}
NoRequest == [body |-> "absent"]
ServerMetadata == [id : Zid, labels : SUBSET Label]

CurrentCall(c) == Len(results[c]) + 1
GetId(c, kind, z) == [client |-> c, call |-> CurrentCall(c), kind |-> kind, zid |-> z]

ClientInit ==
  /\ pc = [c \in Client |-> "idle"]
  /\ request = [c \in Client |-> NoRequest]
  /\ ids = [c \in Client |-> {}]
  /\ todo = [c \in Client |-> {}]
  /\ metas = [c \in Client |-> <<>>]
  /\ results = [c \in Client |-> <<>>]

\* The call ends: its Result is handed to the user and its locals are dropped.
Return(c, result) ==
  /\ pc' = [pc EXCEPT ![c] = "idle"]
  /\ request' = [request EXCEPT ![c] = NoRequest]
  /\ ids' = [ids EXCEPT ![c] = {}]
  /\ todo' = [todo EXCEPT ![c] = {}]
  /\ metas' = [metas EXCEPT ![c] = <<>>]
  /\ results' = [results EXCEPT ![c] = Append(@, result)]

\* ... and with them the receiver of the get it was waiting on.
ReturnFromGet(c, result) ==
  /\ Return(c, result)
  /\ open' = [open EXCEPT ![c] = NoGet]
  /\ UNCHANGED <<queryables, inbox>>

ReturnWithoutGet(c, result) ==
  /\ Return(c, result)
  /\ UNCHANGED zenohVars

-----------------------------------------------------------------------------
(* find_server.                                                            *)

MayCall(c) == pc[c] = "idle" /\ Len(results[c]) < MaxCalls

\* The liveliness query @rpc/*/service/<service>: it finds some of the sessions
\* that advertise the service, all of them once declarations have propagated.
Discover(c, advertising) ==
  /\ MayCall(c)
  /\ c \in GeneratedClient
  /\ \E r \in Requests, found \in SUBSET advertising :
       /\ request' = [request EXCEPT ![c] = r]
       /\ ids' = [ids EXCEPT ![c] = found]
       /\ todo' = [todo EXCEPT ![c] = found]
  /\ pc' = [pc EXCEPT ![c] = "collecting"]
  /\ UNCHANGED <<metas, results, zenohVars>>

LivelinessFails(c) ==
  /\ MayCall(c)
  /\ c \in GeneratedClient
  /\ ReturnWithoutGet(c, Err("Unavailable"))

\* extract_id_from_ke on the token of somebody else, whose id is no ZenohId.
ForeignToken(c) ==
  /\ MayCall(c)
  /\ c \in GeneratedClient
  /\ ReturnWithoutGet(c, Err("InternalError"))

\* get_servers_metadata: the next get of its loop over the ids.
AskMetadata(c) ==
  /\ pc[c] = "collecting"
  /\ \E z \in todo[c] :
       /\ todo' = [todo EXCEPT ![c] = @ \ {z}]
       /\ Get(c, GetId(c, "metadata", z), MetadataKey(z), "absent")
  /\ pc' = [pc EXCEPT ![c] = "metadata"]
  /\ UNCHANGED <<request, ids, metas, results>>

\* The get itself fails ("?"): no metadata collected so far is used.
AskMetadataFails(c) ==
  /\ pc[c] = "collecting"
  /\ todo[c] # {}
  /\ ReturnWithoutGet(c, Err("InternalError"))

\* The filters of get_servers_metadata on one reply.
Usable(c, r) ==
  /\ r.kind = "sample"
  /\ r.payload.kind = "metadata"
  /\ r.payload.id \in ids[c]

TakeMetadata(c) ==
  /\ pc[c] = "metadata"
  /\ open[c].replies # <<>>
  /\ LET r == Head(open[c].replies)
     IN  metas' = IF Usable(c, r)
                  THEN [metas EXCEPT ![c] =
                          Append(@, [id |-> r.payload.id, labels |-> r.payload.labels])]
                  ELSE metas
  /\ open' = [open EXCEPT ![c].replies = Tail(@)]
  /\ UNCHANGED <<pc, request, ids, todo, results, queryables, inbox>>

\* The reply channel is closed and empty: on to the next id.
MetadataClosed(c) ==
  /\ pc[c] = "metadata"
  /\ open[c].replies = <<>> /\ open[c].pending = {}
  /\ pc' = [pc EXCEPT ![c] = "collecting"]
  /\ open' = [open EXCEPT ![c] = NoGet]
  /\ UNCHANGED <<request, ids, todo, metas, results, queryables, inbox>>

\* A find_server that does not look at the labels.
Eligible_AnyLabels(c) == DOMAIN metas[c]

\* The metadata whose labels are a superset of the client's.
Eligible(c) == {i \in DOMAIN metas[c] : ClientLabels[c] \subseteq metas[c][i].labels}

NoServerFound(c) ==
  /\ pc[c] = "collecting"
  /\ todo[c] = {}
  /\ Eligible(c) = {}
  /\ ReturnWithoutGet(c, Err("Unavailable"))

-----------------------------------------------------------------------------
(* call_fun.                                                               *)

\* A send that puts the default for a request that does not serialize.
SendCall_AnyRequest(c) ==
  /\ pc[c] = "collecting"
  /\ todo[c] = {}
  /\ \E i \in Eligible(c) :
       /\ \A j \in Eligible(c) : j <= i
       /\ Get(c, GetId(c, "call", metas[c][i].id),
              ServiceKey(metas[c][i].id, ClientService[c], request[c].method),
              request[c].body)
  /\ pc' = [pc EXCEPT ![c] = "calling"]
  /\ UNCHANGED <<request, ids, todo, metas, results>>

\* ids.pop(), then the get of RPCClientChannel::send to the session popped.
SendCall(c) ==
  /\ pc[c] = "collecting"
  /\ todo[c] = {}
  /\ request[c].body # "unserializable"
  /\ \E i \in Eligible(c) :
       /\ \A j \in Eligible(c) : j <= i
       /\ Get(c, GetId(c, "call", metas[c][i].id),
              ServiceKey(metas[c][i].id, ClientService[c], request[c].method),
              request[c].body)
  /\ pc' = [pc EXCEPT ![c] = "calling"]
  /\ UNCHANGED <<request, ids, todo, metas, results>>

\* send fails before anything is sent: its request does not serialize,
SerializeFails(c) ==
  /\ pc[c] = "collecting"
  /\ todo[c] = {}
  /\ Eligible(c) # {}
  /\ request[c].body = "unserializable"
  /\ ReturnWithoutGet(c, Err("InternalError"))

\* or the get itself fails.
SendFails(c) ==
  /\ pc[c] = "collecting"
  /\ todo[c] = {}
  /\ Eligible(c) # {}
  /\ request[c].body # "unserializable"
  /\ ReturnWithoutGet(c, Err("InternalError"))

\* A client of RPCClientChannel, or of the session, addresses what it likes.
RawGet(c) ==
  /\ MayCall(c)
  /\ c \in RawClient
  /\ \E ke \in RawKeys, body \in RawBodies :
       Get(c, GetId(c, "call", Token(ke, 1)), ke, body)
  /\ pc' = [pc EXCEPT ![c] = "calling"]
  /\ UNCHANGED <<request, ids, todo, metas, results>>

\* recv_async: only the first reply is taken.
TakeReply(c) ==
  /\ pc[c] = "calling"
  /\ open[c].replies # <<>>
  /\ ReturnFromGet(c, CallResult(Head(open[c].replies)))

\* recv_async fails: the channel closed without a reply.
NoReply(c) ==
  /\ pc[c] = "calling"
  /\ open[c].replies = <<>> /\ open[c].pending = {}
  /\ ReturnFromGet(c, Err("InternalError"))

\* The user drops the future of the call while it awaits the reply, with the
\* receiver of the get.  (The metadata gets are not awaited: their replies are
\* iterated over synchronously, and a future cannot be dropped meanwhile.)
Cancel(c) ==
  /\ pc[c] = "calling"
  /\ ReturnFromGet(c, Cancelled)

-----------------------------------------------------------------------------
\* What a client does once its user has called it.
ClientProgress(c) ==
  \/ AskMetadata(c)
  \/ TakeMetadata(c)
  \/ MetadataClosed(c)
  \/ NoServerFound(c)
  \/ SendCall(c)
  \/ SerializeFails(c)
  \/ TakeReply(c)
  \/ NoReply(c)

\* The ways in which a call ends before it has an answer.
Interrupted(c) ==
  \/ LivelinessFails(c)
  \/ ForeignToken(c)
  \/ AskMetadataFails(c)
  \/ SendFails(c)
  \/ Cancel(c)

ClientTypeOK ==
  /\ pc \in [Client -> ClientPc]
  /\ request \in [Client -> Requests \cup {NoRequest}]
  /\ ids \in [Client -> SUBSET Zid]
  /\ todo \in [Client -> SUBSET Zid]
  /\ metas \in [Client -> Seq(ServerMetadata)]
  /\ results \in [Client -> Seq(Result)]
=============================================================================
