---------------------------- MODULE ZrpcRouting -----------------------------
(***************************************************************************)
(* Where calls may go, for every value of the constants: what is           *)
(* advertised can be asked for, queries of generated clients never end     *)
(* serve(), handlers run for suitable clients only, and on a good day      *)
(* whoever was found is reached.                                           *)
(*                                                                         *)
(* All but the first hold when servers that share a session can stand in   *)
(* for each other.  Their inductive invariant follows the metadata from    *)
(* the server that answers it, through its task, the reply channel and the *)
(* list of the client, to the query that the client then sends.            *)
(***************************************************************************)
EXTENDS ZrpcTyping

-----------------------------------------------------------------------------
(* Sequences, seen as the sets of their elements.                          *)

LEMMA AppendElement ==
  ASSUME NEW S, NEW seq \in Seq(S), NEW e \in S, NEW i \in DOMAIN Append(seq, e)
  PROVE  Append(seq, e)[i] = e \/ (i \in DOMAIN seq /\ Append(seq, e)[i] = seq[i])
<1>1. /\ Append(seq, e) \in Seq(S)
      /\ Len(Append(seq, e)) = Len(seq) + 1
      /\ \A j \in 1..Len(seq) : Append(seq, e)[j] = seq[j]
      /\ Append(seq, e)[Len(seq) + 1] = e
  BY AppendProperties
<1>2. i \in 1..(Len(seq) + 1) /\ DOMAIN seq = 1..Len(seq) /\ Len(seq) \in Nat
  BY <1>1, LenProperties
<1>3. CASE i = Len(seq) + 1
  BY <1>1, <1>3
<1>4. CASE i # Len(seq) + 1
  <2>1. i \in 1..Len(seq)
    BY <1>2, <1>4
  <2> QED BY <1>1, <1>2, <2>1
<1> QED BY <1>3, <1>4

LEMMA AppendKeeps ==
  ASSUME NEW S, NEW seq \in Seq(S), NEW e \in S, NEW new, new = Append(seq, e)
  PROVE  /\ \A i \in DOMAIN seq : i \in DOMAIN new /\ new[i] = seq[i]
         /\ \E i \in DOMAIN new : new[i] = e
<1>1. /\ new \in Seq(S) /\ Len(new) = Len(seq) + 1
      /\ \A i \in 1..Len(seq) : new[i] = seq[i]
      /\ new[Len(seq) + 1] = e
  BY AppendProperties
<1>2. /\ DOMAIN seq = 1..Len(seq) /\ Len(seq) \in Nat
      /\ DOMAIN new = 1..(Len(seq) + 1)
  BY <1>1, LenProperties
<1>3. Len(seq) + 1 \in DOMAIN new
  BY <1>2
<1> QED BY <1>1, <1>2, <1>3

LEMMA HeadTailElement ==
  ASSUME NEW S, NEW seq \in Seq(S), seq # <<>>
  PROVE  /\ 1 \in DOMAIN seq /\ Head(seq) = seq[1]
         /\ \A i \in DOMAIN Tail(seq) : i + 1 \in DOMAIN seq /\ Tail(seq)[i] = seq[i + 1]
<1>1. Len(seq) \in Nat \ {0} /\ DOMAIN seq = 1..Len(seq)
  BY EmptySeq, LenProperties
<1>2. /\ Tail(seq) \in Seq(S)
      /\ Len(Tail(seq)) = Len(seq) - 1
      /\ \A i \in 1..Len(Tail(seq)) : Tail(seq)[i] = seq[i + 1]
  BY HeadTailProperties
<1>3. DOMAIN Tail(seq) = 1..(Len(seq) - 1)
  BY <1>2, LenProperties
<1>4. Head(seq) = seq[1]
  OBVIOUS
<1> QED BY <1>1, <1>2, <1>3, <1>4

-----------------------------------------------------------------------------
(* What is advertised can be asked for.                                    *)

\* Tokens are local to a serve() that still runs or whose process has died,
\* a Server keeps all of its tokens or none, and whoever runs serve() has its
\* queryable.
AdvertisingInv ==
  \A s \in Server :
    /\ declared[s] # {} => s \in queryables /\ phase[s] \in {"declaring", "crashed"}
    /\ held[s] \in {{}, ServicesOf[s]}
    /\ held[s] # {} => s \in queryables \/ phase[s] \in {"ended", "crashed"}
    /\ phase[s] \in {"declaring", "serving"} => s \in queryables

LEMMA AdvertisingServe ==
  ASSUME TypeInv, AdvertisingInv, NEW s \in Server,
         DeclareQueryable(s) \/ ServeProgress(s) \/ ServeCutShort(s)
  PROVE  AdvertisingInv'
<1> USE DEF TypeInv, TypeOK, ServerTypeOK, AdvertisingInv
<1>1. CASE DeclareQueryable(s)
  BY <1>1 DEF DeclareQueryable
<1>2. CASE QueryableRefused(s)
  BY <1>2 DEF QueryableRefused, zenohVars
<1>3. CASE ServeEnds(s)
  BY <1>3 DEF ServeEnds
<1>4. CASE DeclareToken(s)
  BY <1>4 DEF DeclareToken, zenohVars
<1>5. CASE EnterLoop(s)
  BY <1>5 DEF EnterLoop, zenohVars
<1>6. CASE UNCHANGED <<phase, declared, held, queryables>>
  BY <1>6
<1> QED
  BY <1>1, <1>2, <1>3, <1>4, <1>5, <1>6
     DEF ServeProgress, ServeCutShort, TokenRefused, AbortServe, ReceiveServiceCall,
         ReceiveMetadata,
         ReceiveUnknown, ReceiveEndsServe, Spawn

LEMMA AdvertisingDies ==
  ASSUME TypeInv, AdvertisingInv, NEW z, ProcessDies(z)
  PROVE  AdvertisingInv'
BY DEF TypeInv, TypeOK, ServerTypeOK, AdvertisingInv, ProcessDies

LEMMA AdvertisingGone ==
  ASSUME TypeInv, AdvertisingInv, NEW S, Gone(S)
  PROVE  AdvertisingInv'
BY DEF TypeInv, TypeOK, ServerTypeOK, AdvertisingInv, Gone

LEMMA AdvertisingStep ==
  ASSUME TypeInv, AdvertisingInv, [Next]_vars
  PROVE  AdvertisingInv'
<1>1. CASE \E s \in Server : DeclareQueryable(s) \/ ServeProgress(s) \/ ServeCutShort(s)
  BY <1>1, AdvertisingServe
<1>2. CASE \E z \in Zid : ProcessDies(z)
  BY <1>2, AdvertisingDies
<1>3. CASE \E S \in SUBSET Server : Gone(S)
  BY <1>3, AdvertisingGone
<1>4. CASE UNCHANGED <<phase, declared, held, queryables>>
  BY <1>4 DEF AdvertisingInv
<1>5. ASSUME NEW s \in Server, TaskStep(s) PROVE AdvertisingInv'
  BY <1>2, <1>4, <1>5, ZenohAssumption
     DEF TaskStep, MethodMissing, MethodUnknown, RunHandler, HandlerPanics, SendReply, zenohVars
<1>6. CASE ServerNext
  <2>1. ASSUME NEW z \in Crashable, Crash(z) PROVE AdvertisingInv'
    BY <1>2, <2>1, ServerAssumption DEF Crash
  <2>2. ASSUME NEW s \in Server, DropServer(s) PROVE AdvertisingInv'
    BY <2>2
       DEF DropServer, Alive, Running, zenohVars, TypeInv, TypeOK, ServerTypeOK, AdvertisingInv
  <2>3. ASSUME NEW z \in Zid, CloseSession(z) \/ LeaseExpires(z) PROVE AdvertisingInv'
    BY <1>3, <2>3 DEF CloseSession, LeaseExpires
  <2> QED BY <1>1, <1>5, <1>6, <2>1, <2>2, <2>3 DEF ServerNext
<1>7. ASSUME NEW c \in Client, StartCall(c) \/ ClientProgress(c) \/ Interrupted(c),
             UNCHANGED serverVars
      PROVE  AdvertisingInv'
  <2>1. queryables' = queryables
    BY <1>7 DEF StartCall, ClientProgress, Interrupted, Discover, RawGet, AskMetadata,
       TakeMetadata, MetadataClosed, NoServerFound, SendCall, SerializeFails, TakeReply,
       NoReply, LivelinessFails, ForeignToken, AskMetadataFails, SendFails, Cancel, ReturnFromGet,
       ReturnWithoutGet, Get, zenohVars
  <2> QED BY <1>4, <1>7, <2>1 DEF serverVars
<1>8. CASE \E c \in Client : QueryTimeout(c) /\ UNCHANGED <<serverVars, clientVars>>
  BY <1>4, <1>8 DEF QueryTimeout, serverVars
<1>9. CASE UNCHANGED vars
  BY <1>4, <1>9 DEF vars, serverVars, zenohVars
<1> QED BY <1>6, <1>7, <1>8, <1>9 DEF Next

LEMMA AdvertisingInvariance == Spec => []AdvertisingInv
<1>1. Init => AdvertisingInv
  BY DEF Init, ZenohInit, ServerInit, AdvertisingInv
<1>2. TypeInv /\ AdvertisingInv /\ [Next]_vars => AdvertisingInv'
  BY AdvertisingStep
<1> QED BY <1>1, <1>2, TypeInvariance, PTL DEF Spec

\* A token is advertised only while there is a queryable behind it, but for
\* those that a Server keeps after its serve() has failed or its process died.
THEOREM AdvertisedCorrect == Spec => []AdvertisedAnswerable
<1>1. AdvertisingInv => AdvertisedAnswerable
  BY DEF AdvertisingInv, AdvertisedAnswerable
<1> QED BY <1>1, AdvertisingInvariance, PTL

-----------------------------------------------------------------------------
(* Where queries come from.                                                *)

\* A reply with metadata tells the truth about the server of that session.
Truthful(id, labels) == \A s \in Server : ZidOf[s] = id => labels = LabelsOf[s]

TrueReply(r) ==
  r.kind = "sample" =>
    (r.payload.kind = "metadata" => Truthful(r.payload.id, r.payload.labels))

TasksTrue == \A s \in Server : \A t \in tasks[s] : TrueReply(t.reply)

RepliesTrue ==
  \A c \in Client : \A i \in DOMAIN open[c].replies : TrueReply(open[c].replies[i])

\* What a client collects: sessions where some server offers its service, and
\* the true labels of some of those.
IdsOffer ==
  \A c \in Client :
    /\ todo[c] \subseteq ids[c]
    /\ \A z \in ids[c] : \E s \in Server : ZidOf[s] = z /\ ClientService[c] \in ServicesOf[s]

MetasTrue ==
  \A c \in Client : \A i \in DOMAIN metas[c] :
    metas[c][i].id \in ids[c] /\ Truthful(metas[c][i].id, metas[c][i].labels)

\* A client forgets what it collected when its call returns.
NothingKept == \A c \in Client : pc[c] = "idle" => metas[c] = <<>>

\* The queries of a generated client are for metadata, or are calls that the
\* server they are sent to may execute.
WellAddressed(s, q) ==
  q.id.client \in GeneratedClient =>
    \/ q.ke = MetadataKey(ZidOf[s])
    \/ /\ Suitable(q.id.client, s)
       /\ q.body # "absent"
       /\ \E m \in Method : q.ke = ServiceKey(ZidOf[s], ClientService[q.id.client], m)

QueriesAddressed == \A s \in Server : \A q \in HeldQueries(s) : WellAddressed(s, q)

RoutingInv ==
  /\ TasksTrue /\ RepliesTrue
  /\ IdsOffer /\ MetasTrue /\ NothingKept
  /\ QueriesAddressed
  /\ LabelsRespected

-----------------------------------------------------------------------------
(* Steps of servers.                                                       *)

\* What becomes of a server's tasks in one of its steps: each is an old one, an
\* old one that has computed its reply, or a new one for the head of the channel.
LEMMA SpawnedTask ==
  ASSUME TypeInv, NEW s \in Server, Receivable(s), NEW reply, Spawn(s, reply), NEW r \in Server
  PROVE  /\ \A t \in tasks'[r] : t \in tasks[r] \/ t.reply = reply
         /\ HeldQueries(r)' \subseteq HeldQueries(r)
<1>1. inbox[s] \in Seq(Query) /\ inbox[s] # <<>>
  BY DEF TypeInv, TypeOK, ZenohTypeOK, Receivable
<1>2. /\ Head(inbox[s]) \in HeldQueries(s)
      /\ \A i \in DOMAIN Tail(inbox[s]) : Tail(inbox[s])[i] \in HeldQueries(s)
  BY <1>1, HeadTailElement DEF HeldQueries
<1>3. CASE r = s
  <2>1. tasks'[s] = tasks[s] \cup {[query |-> Head(inbox[s]), reply |-> reply]}
    BY DEF Spawn, TypeInv, TypeOK, ServerTypeOK
  <2>2. inbox'[s] = Tail(inbox[s])
    BY DEF Spawn, TypeInv, TypeOK, ZenohTypeOK
  <2> QED BY <1>2, <1>3, <2>1, <2>2 DEF HeldQueries
<1>4. CASE r # s
  <2>1. tasks'[r] = tasks[r] /\ inbox'[r] = inbox[r]
    BY <1>4 DEF Spawn, TypeInv, TypeOK, ServerTypeOK, ZenohTypeOK
  <2> QED BY <2>1 DEF HeldQueries
<1> QED BY <1>3, <1>4

LEMMA FinishedTask ==
  ASSUME TypeInv, NEW s \in Server, NEW t \in tasks[s], NEW reply, Finish(s, t, reply),
         UNCHANGED inbox, NEW r \in Server
  PROVE  /\ \A u \in tasks'[r] : u \in tasks[r] \/ u.reply = reply
         /\ HeldQueries(r)' \subseteq HeldQueries(r)
<1>1. t \in [query : Query, reply : Reply \cup {Pending}]
  BY DEF TypeInv, TypeOK, ServerTypeOK, Task
<1>2. [t EXCEPT !.reply = reply].query = t.query /\ [t EXCEPT !.reply = reply].reply = reply
  BY <1>1
<1>3. CASE r = s
  <2>1. tasks'[s] = (tasks[s] \ {t}) \cup {[t EXCEPT !.reply = reply]}
    BY DEF Finish, TypeInv, TypeOK, ServerTypeOK
  <2> QED BY <1>2, <1>3, <2>1 DEF HeldQueries
<1>4. CASE r # s
  <2>1. tasks'[r] = tasks[r]
    BY <1>4 DEF Finish, TypeInv, TypeOK, ServerTypeOK
  <2> QED BY <2>1 DEF HeldQueries
<1> QED BY <1>3, <1>4

\* Servers only lose queries, whatever they do.
LEMMA LostQueries ==
  ASSUME TypeInv, NEW r \in Server,
         inbox'[r] = inbox[r] \/ inbox'[r] = <<>>, tasks'[r] \subseteq tasks[r]
  PROVE  /\ \A t \in tasks'[r] : t \in tasks[r]
         /\ HeldQueries(r)' \subseteq HeldQueries(r)
<1>1. \A i \in DOMAIN inbox'[r] : inbox'[r][i] \in HeldQueries(r)
  BY DEF HeldQueries
<1> QED BY <1>1 DEF HeldQueries

\* The replies a server computes without a handler, and those of a handler.
LEMMA ComputedReplies ==
  ASSUME Interchangeable
  PROVE  /\ TrueReply(Pending)
         /\ TrueReply(Sample("InternalError", NoPayload))
         /\ TrueReply(Sample("Unavailable", NoPayload))
         /\ \A s \in Server : TrueReply(Sample("Ok", Metadata(ZidOf[s], LabelsOf[s])))
         /\ \A outcome \in Outcomes, n \in Nat : TrueReply(HandlerReply(outcome, n))
BY DEF Interchangeable, TrueReply, Truthful, Pending, Sample, NoPayload, Metadata,
       HandlerReply, Value, Opaque

\* No step of a server adds a query to what it holds or a lie to its replies.
LEMMA ServerHolds ==
  ASSUME Interchangeable, TypeInv, TasksTrue, ServerNext
  PROVE  TasksTrue' /\ \A r \in Server : HeldQueries(r)' \subseteq HeldQueries(r)
<1> DEFINE Kept == \A r \in Server : /\ \A t \in tasks'[r] : t \in tasks[r] \/ TrueReply(t.reply)
                                     /\ HeldQueries(r)' \subseteq HeldQueries(r)
<1> SUFFICES Kept
  BY DEF TasksTrue
<1> USE DEF TypeInv, TypeOK, ZenohTypeOK, ServerTypeOK
<1>1. CASE \A r \in Server : /\ inbox'[r] = inbox[r] \/ inbox'[r] = <<>>
                             /\ tasks'[r] \subseteq tasks[r]
  BY <1>1, LostQueries
<1>2. ASSUME NEW s \in Server, DeclareQueryable(s) \/ ServeProgress(s) \/ ServeCutShort(s)
      PROVE  Kept
  <2>1. CASE ReceiveServiceCall(s) \/ ReceiveMetadata(s) \/ ReceiveUnknown(s)
    <3>1. PICK reply : TrueReply(reply) /\ Receivable(s) /\ Spawn(s, reply)
      BY <2>1, ComputedReplies DEF ReceiveServiceCall, ReceiveMetadata, ReceiveUnknown
    <3> QED BY <3>1, SpawnedTask
  <2>2. CASE ServeEnds(s)
    BY <1>1, <2>2 DEF ServeEnds
  <2>3. CASE UNCHANGED <<inbox, tasks>>
    BY <1>1, <2>3
  <2> QED
    BY <1>2, <2>1, <2>2, <2>3
       DEF ServeProgress, ServeCutShort, DeclareQueryable, QueryableRefused, DeclareToken,
           TokenRefused, AbortServe, EnterLoop, ReceiveEndsServe, zenohVars
<1>3. ASSUME NEW s \in Server, TaskStep(s)
      PROVE  Kept
  <2> PICK t \in tasks[s] :
         \/ MethodMissing(s, t) \/ MethodUnknown(s, t) \/ RunHandler(s, t)
         \/ HandlerPanics(s, t) \/ SendReply(s, t)
    BY <1>3 DEF TaskStep
  <2>1. CASE MethodMissing(s, t) \/ MethodUnknown(s, t) \/ RunHandler(s, t)
    <3>1. counter[s] + 1 \in Nat
      OBVIOUS
    <3>2. PICK reply : TrueReply(reply) /\ Finish(s, t, reply) /\ UNCHANGED inbox
      BY <2>1, <3>1, ComputedReplies DEF MethodMissing, MethodUnknown, RunHandler, zenohVars
    <3> QED BY <3>2, FinishedTask
  <2>2. CASE HandlerPanics(s, t)
    BY <1>1, <2>2 DEF HandlerPanics, ProcessDies
  <2>3. CASE SendReply(s, t)
    BY <1>1, <2>3 DEF SendReply
  <2> QED BY <2>1, <2>2, <2>3
<1>4. CASE \E S \in SUBSET Server : Gone(S)
  BY <1>1, <1>4 DEF Gone
<1>5. CASE \E z \in Zid : ProcessDies(z)
  BY <1>1, <1>5 DEF ProcessDies
<1>6. ASSUME NEW z \in Crashable, Crash(z)
      PROVE  Kept
  BY <1>5, <1>6, ServerAssumption DEF Crash
<1>7. ASSUME NEW s \in Server, DropServer(s)
      PROVE  Kept
  BY <1>1, <1>7 DEF DropServer, zenohVars
<1>8. ASSUME NEW z \in Zid, CloseSession(z) \/ LeaseExpires(z)
      PROVE  Kept
  BY <1>4, <1>8 DEF CloseSession, LeaseExpires
<1> QED BY <1>2, <1>3, <1>6, <1>7, <1>8 DEF ServerNext

\* What reaches a reply channel in a step of a server is the reply of a task.
LEMMA ServerReplies ==
  ASSUME TypeInv, TasksTrue, RepliesTrue, ServerNext
  PROVE  RepliesTrue'
<1> USE DEF TypeInv, TypeOK, ZenohTypeOK, ServerTypeOK
<1>1. ASSUME \A c \in Client : open'[c].replies = open[c].replies
      PROVE  RepliesTrue'
  BY <1>1 DEF RepliesTrue
<1>2. \A S, qs : \A c \in Client : Dropping(S, qs)[c].replies = open[c].replies
  BY DEF Dropping, OpenGet
<1>3. \A S : \A c \in Client :
        [d \in Client |-> [open[d] EXCEPT !.pending = @ \ S]][c].replies = open[c].replies
  BY DEF OpenGet
<1>4. ASSUME NEW s \in Server, NEW t \in tasks[s], SendReply(s, t)
      PROVE  RepliesTrue'
  <2>1. t.reply \in Reply /\ TrueReply(t.reply)
    BY <1>4 DEF SendReply, Task, TasksTrue
  <2>2. ASSUME NEW c \in Client, NEW i \in DOMAIN open'[c].replies
        PROVE  TrueReply(open'[c].replies[i])
    <3>1. open[c] \in OpenGet /\ open[c].replies \in Seq(Reply)
      BY DEF OpenGet
    <3>2. CASE open'[c].replies = open[c].replies
      BY <3>2 DEF RepliesTrue
    <3>3. CASE open'[c].replies = Append(open[c].replies, t.reply)
      BY <2>1, <3>1, <3>3, AppendElement DEF RepliesTrue
    <3> QED BY <1>4, <3>1, <3>2, <3>3 DEF SendReply, Answering, OpenGet
  <2> QED BY <2>2 DEF RepliesTrue
<1>5. CASE UNCHANGED open
  BY <1>1, <1>5
<1>6. ASSUME NEW s \in Server, TaskStep(s)
      PROVE  RepliesTrue'
  <2>1. ASSUME NEW t \in tasks[s], HandlerPanics(s, t)
        PROVE  RepliesTrue'
    BY <1>1, <1>2, <1>5, <2>1 DEF HandlerPanics, ProcessDies
  <2> QED
    BY <1>4, <1>5, <1>6, <2>1
       DEF TaskStep, MethodMissing, MethodUnknown, RunHandler, zenohVars
<1>7. ASSUME NEW s \in Server, DeclareQueryable(s) \/ ServeProgress(s) \/ ServeCutShort(s)
      PROVE  RepliesTrue'
  <2>1. CASE ServeEnds(s)
    BY <1>1, <1>2, <2>1 DEF ServeEnds
  <2> QED
    BY <1>5, <1>7, <2>1
       DEF ServeProgress, ServeCutShort, DeclareQueryable, QueryableRefused, DeclareToken,
           TokenRefused, AbortServe, EnterLoop, ReceiveServiceCall, ReceiveMetadata, ReceiveUnknown,
           ReceiveEndsServe, Spawn, zenohVars
<1>8. ASSUME NEW s \in Server, DropServer(s)
      PROVE  RepliesTrue'
  BY <1>5, <1>8 DEF DropServer, zenohVars
<1>9. ASSUME NEW z \in Zid, CloseSession(z) \/ LeaseExpires(z)
      PROVE  RepliesTrue'
  <2>1. PICK S : open' = [d \in Client |-> [open[d] EXCEPT !.pending = @ \ S]]
    BY <1>9 DEF CloseSession, LeaseExpires
  <2> QED BY <1>1, <1>3, <2>1
<1>10. ASSUME NEW z \in Crashable, Crash(z)
       PROVE  RepliesTrue'
  BY <1>5, <1>10 DEF Crash, ProcessDies
<1> QED BY <1>6, <1>7, <1>8, <1>9, <1>10 DEF ServerNext

\* A handler runs for the query of a task, which is a call and so suitable.
LEMMA ServerExecutes ==
  ASSUME TypeInv, QueriesAddressed, LabelsRespected, ServerNext
  PROVE  LabelsRespected'
<1>1. ASSUME NEW s \in Server, NEW t \in tasks[s], RunHandler(s, t)
      PROVE  LabelsRespected'
  <2>1. t.query \in HeldQueries(s) /\ HasToken(t.query.ke, 4)
    BY <1>1 DEF HeldQueries, RunHandler, Dispatched
  <2>2. t.query.ke # MetadataKey(ZidOf[s])
    <3>1. ~HasToken(MetadataKey(ZidOf[s]), 4)
      <4>1. Len(MetadataKey(ZidOf[s])) = 3
        BY DEF MetadataKey
      <4> QED BY <4>1 DEF HasToken
    <3> QED BY <2>1, <3>1, Zenon
  <2>3. t.query.id.client \in GeneratedClient => Suitable(t.query.id.client, s)
    BY <2>1, <2>2 DEF QueriesAddressed, WellAddressed
  <2>4. executed' = executed \cup {[id |-> t.query.id, server |-> s, value |-> counter[s] + 1]}
    BY <1>1 DEF RunHandler
  <2> QED BY <2>3, <2>4 DEF LabelsRespected, Suitable
<1>2. CASE UNCHANGED executed
  BY <1>2 DEF LabelsRespected, Suitable
<1>3. ASSUME NEW s \in Server, TaskStep(s)
      PROVE  LabelsRespected'
  BY <1>1, <1>2, <1>3
     DEF TaskStep, MethodMissing, MethodUnknown, HandlerPanics, ProcessDies, SendReply
<1>4. ASSUME NEW s \in Server, DeclareQueryable(s) \/ ServeProgress(s) \/ ServeCutShort(s)
      PROVE  executed' = executed
  BY <1>4
     DEF ServeProgress, ServeCutShort, DeclareQueryable, QueryableRefused, DeclareToken,
         TokenRefused, AbortServe, EnterLoop, ReceiveServiceCall, ReceiveMetadata, ReceiveUnknown,
         ReceiveEndsServe, ServeEnds, Spawn
<1>5. ASSUME NEW s \in Server, DropServer(s)
      PROVE  executed' = executed
  BY <1>5 DEF DropServer, Gone
<1>6. ASSUME NEW z \in Zid, CloseSession(z) \/ LeaseExpires(z)
      PROVE  executed' = executed
  BY <1>6 DEF CloseSession, LeaseExpires, Gone
<1>7. ASSUME NEW z \in Crashable, Crash(z)
      PROVE  executed' = executed
  BY <1>7 DEF Crash, ProcessDies
<1> QED BY <1>2, <1>3, <1>4, <1>5, <1>6, <1>7 DEF ServerNext

LEMMA RoutingServer ==
  ASSUME Interchangeable, TypeInv, RoutingInv, ServerNext, UNCHANGED clientVars
  PROVE  RoutingInv'
<1> USE DEF RoutingInv
<1>1. TasksTrue' /\ \A r \in Server : HeldQueries(r)' \subseteq HeldQueries(r)
  BY ServerHolds
<1>2. QueriesAddressed'
  BY <1>1 DEF QueriesAddressed, WellAddressed, Suitable
<1>3. RepliesTrue' /\ LabelsRespected'
  BY ServerReplies, ServerExecutes
<1>4. IdsOffer' /\ MetasTrue' /\ NothingKept'
  BY DEF clientVars, IdsOffer, MetasTrue, Truthful, NothingKept
<1> QED BY <1>1, <1>2, <1>3, <1>4

-----------------------------------------------------------------------------
(* Steps of clients.                                                       *)

\* A get adds its query to the channels of the servers its key matches, and
\* starts with an empty reply channel.
LEMMA GetQueries ==
  ASSUME TypeInv, NEW c \in Client, NEW id \in QueryId, NEW ke \in Seq(KeyToken),
         NEW body \in Body, Get(c, id, ke, body), UNCHANGED tasks
  PROVE  /\ \A s \in Server : \A q \in HeldQueries(s)' :
              \/ q \in HeldQueries(s)
              \/ ZidOf[s] = Token(ke, 1) /\ q = [id |-> id, ke |-> ke, body |-> body]
         /\ RepliesTrue => RepliesTrue'
<1> USE DEF TypeInv, TypeOK, ZenohTypeOK
<1> DEFINE query == [id |-> id, ke |-> ke, body |-> body]
<1>1. ASSUME NEW s \in Server, NEW i \in DOMAIN inbox'[s]
      PROVE  \/ inbox'[s][i] \in HeldQueries(s)
             \/ ZidOf[s] = Token(ke, 1) /\ inbox'[s][i] = query
  <2>1. query \in Query /\ inbox[s] \in Seq(Query)
    BY DEF Query
  <2>2. CASE s \in Matching(ke)
    <3>1. inbox'[s] = Append(inbox[s], query) /\ ZidOf[s] = Token(ke, 1)
      BY <2>2 DEF Get, Matching
    <3> HIDE DEF query
    <3> QED BY <2>1, <3>1, AppendElement DEF HeldQueries
  <2>3. CASE s \notin Matching(ke)
    BY <2>3 DEF Get, HeldQueries
  <2> QED BY <2>2, <2>3
<1>2. ASSUME RepliesTrue PROVE RepliesTrue'
  <2>1. \A d \in Client : open'[d].replies = open[d].replies \/ open'[d].replies = <<>>
    BY DEF Get
  <2> QED BY <1>2, <2>1 DEF RepliesTrue
<1> QED BY <1>1, <1>2 DEF HeldQueries

\* The gets that a client issues are well formed.
LEMMA ClientGets ==
  ASSUME TypeInv, NEW c \in Client, RawGet(c) \/ AskMetadata(c) \/ SendCall(c)
  PROVE  \E kind \in {"metadata", "call"}, z \in Zid, ke \in Seq(KeyToken), body \in Body :
           /\ GetId(c, kind, z) \in QueryId
           /\ Token(ke, 1) = z
           /\ Get(c, GetId(c, kind, z), ke, body)
           /\ kind = "metadata" => AskMetadata(c) /\ ke = MetadataKey(z)
           /\ kind = "call" => RawGet(c) \/ SendCall(c)
<1> USE DEF TypeInv, TypeOK
<1>1. CASE RawGet(c)
  <2>1. PICK ke \in RawKeys, body \in RawBodies :
          Get(c, GetId(c, "call", Token(ke, 1)), ke, body)
    BY <1>1 DEF RawGet
  <2>2. ke \in Seq(KeyToken) /\ Token(ke, 1) \in Zid /\ body \in Body
    BY ClientAssumption
  <2> QED BY <1>1, <2>1, <2>2, GetIdType
<1>2. CASE AskMetadata(c)
  <2>1. PICK z \in todo[c] : Get(c, GetId(c, "metadata", z), MetadataKey(z), "absent")
    BY <1>2 DEF AskMetadata
  <2>2. z \in Zid /\ "absent" \in Body /\ MetadataKey(z) \in Seq(KeyToken)
    BY KeyType DEF ClientTypeOK, Body
  <2>3. Token(MetadataKey(z), 1) = z
    BY <2>2 DEF MetadataKey, Token
  <2> QED BY <1>2, <2>1, <2>2, <2>3, GetIdType
<1>3. CASE SendCall(c)
  <2>1. PICK i \in Eligible(c) :
          Get(c, GetId(c, "call", metas[c][i].id),
              ServiceKey(metas[c][i].id, ClientService[c], request[c].method), request[c].body)
    BY <1>3 DEF SendCall
  <2> DEFINE z == metas[c][i].id
             ke == ServiceKey(z, ClientService[c], request[c].method)
             body == request[c].body
  <2>2. metas[c][i] \in ServerMetadata
    BY LenProperties, ElementOfSeq DEF Eligible, ClientTypeOK
  <2>3. z \in Zid
    BY <2>2 DEF ServerMetadata
  <2>4. request[c] \in Requests /\ body # "unserializable"
    BY <1>3 DEF SendCall, RequestKnown
  <2>5. request[c].method \in Method /\ body \in Body /\ ClientService[c] \in Svc
    BY <2>4, ClientAssumption DEF Body
  <2>6. ke \in Seq(KeyToken) /\ Token(ke, 1) = z
    BY <2>3, <2>5, KeyType DEF ServiceKey, Token
  <2> HIDE DEF z, ke, body
  <2>7. Get(c, GetId(c, "call", z), ke, body)
    BY <2>1 DEF z, ke, body
  <2> QED BY <1>3, <2>3, <2>5, <2>6, <2>7, GetIdType
<1> QED BY <1>1, <1>2, <1>3

\* The other steps of a client: what it does with its reply channel, or nothing.
LEMMA ClientListens ==
  ASSUME NEW c \in Client, StartCall(c) \/ ClientProgress(c) \/ Interrupted(c)
  PROVE  \/ RawGet(c) \/ AskMetadata(c) \/ SendCall(c)
         \/ Discover(c, Advertising(ClientService[c])) \/ TakeMetadata(c) \/ MetadataClosed(c)
         \/ \E result : ReturnFromGet(c, result) \/ ReturnWithoutGet(c, result)
BY DEF StartCall, ClientProgress, Interrupted, NoServerFound, SerializeFails, TakeReply,
       NoReply, LivelinessFails, ForeignToken, AskMetadataFails, SendFails, Cancel

\* A metadata query may be sent to any session: it cannot end serve().
LEMMA AskMetadataAddressed ==
  ASSUME TypeInv, RoutingInv, NEW c \in Client, AskMetadata(c), UNCHANGED serverVars
  PROVE  QueriesAddressed' /\ RepliesTrue'
<1>1. PICK z \in todo[c] : Get(c, GetId(c, "metadata", z), MetadataKey(z), "absent")
  BY DEF AskMetadata
<1>2. z \in Zid /\ "absent" \in Body /\ GetId(c, "metadata", z) \in QueryId
  BY GetIdType DEF TypeInv, TypeOK, ClientTypeOK, Body
<1>3. MetadataKey(z) \in Seq(KeyToken) /\ Token(MetadataKey(z), 1) = z
  BY <1>2, KeyType DEF MetadataKey, Token
<1>4. /\ \A s \in Server : \A q \in HeldQueries(s)' :
           q \in HeldQueries(s) \/ q.ke = MetadataKey(ZidOf[s])
      /\ RepliesTrue'
  BY <1>1, <1>2, <1>3, GetQueries DEF RoutingInv, serverVars
<1> QED BY <1>4 DEF RoutingInv, QueriesAddressed, WellAddressed, Suitable

\* A call is sent to the session of an eligible server, and with one server per
\* session to that server: it offers the service and has the labels.
LEMMA SendCallAddressed ==
  ASSUME Interchangeable, TypeInv, RoutingInv, NEW c \in Client, SendCall(c), UNCHANGED serverVars
  PROVE  QueriesAddressed' /\ RepliesTrue'
<1> USE DEF TypeInv, TypeOK, RoutingInv
<1>1. PICK i \in Eligible(c) :
        Get(c, GetId(c, "call", metas[c][i].id),
            ServiceKey(metas[c][i].id, ClientService[c], request[c].method), request[c].body)
  BY DEF SendCall
<1> DEFINE z == metas[c][i].id
           v == ClientService[c]
           m == request[c].method
           body == request[c].body
<1>2. /\ i \in DOMAIN metas[c] /\ ClientLabels[c] \subseteq metas[c][i].labels
      /\ metas[c][i] \in ServerMetadata
  BY LenProperties, ElementOfSeq DEF Eligible, ClientTypeOK
<1>3. z \in Zid /\ z \in ids[c] /\ Truthful(z, metas[c][i].labels)
  BY <1>2 DEF MetasTrue, ServerMetadata
<1>4. request[c] \in Requests /\ body # "unserializable"
  BY DEF SendCall, RequestKnown
<1>5. m \in Method /\ body \in Body /\ body # "absent" /\ v \in Svc
  BY <1>4, ClientAssumption DEF Body
<1>6. /\ ServiceKey(z, v, m) \in Seq(KeyToken) /\ Token(ServiceKey(z, v, m), 1) = z
      /\ GetId(c, "call", z) \in QueryId /\ GetId(c, "call", z).client = c
  BY <1>3, <1>5, KeyType, GetIdType DEF ServiceKey, Token, GetId
<1>7. \A s \in Server : ZidOf[s] = z => Suitable(c, s)
  BY <1>2, <1>3 DEF IdsOffer, Interchangeable, Truthful, Suitable
<1> HIDE DEF z, v, m, body
<1>8. Get(c, GetId(c, "call", z), ServiceKey(z, v, m), body)
  BY <1>1 DEF z, v, m, body
<1>9. /\ \A s \in Server : \A q \in HeldQueries(s)' :
           \/ q \in HeldQueries(s)
           \/ /\ ZidOf[s] = z
              /\ q = [id |-> GetId(c, "call", z), ke |-> ServiceKey(z, v, m), body |-> body]
      /\ RepliesTrue'
  BY <1>5, <1>6, <1>8, GetQueries DEF serverVars
<1>10. ASSUME NEW s \in Server, ZidOf[s] = z,
              NEW q, q = [id |-> GetId(c, "call", z), ke |-> ServiceKey(z, v, m), body |-> body]
       PROVE  WellAddressed(s, q)
  BY <1>5, <1>6, <1>7, <1>10 DEF WellAddressed, v
<1>11. ASSUME NEW s \in Server, NEW q \in HeldQueries(s)'
       PROVE  WellAddressed(s, q)
  BY <1>9, <1>10, <1>11 DEF QueriesAddressed
<1> QED BY <1>9, <1>11 DEF QueriesAddressed, WellAddressed, Suitable

LEMMA RawGetAddressed ==
  ASSUME TypeInv, RoutingInv, NEW c \in Client, RawGet(c), UNCHANGED serverVars
  PROVE  QueriesAddressed' /\ RepliesTrue'
<1>1. PICK ke \in RawKeys, body \in RawBodies :
        Get(c, GetId(c, "call", Token(ke, 1)), ke, body) /\ c \in RawClient
  BY DEF RawGet
<1>2. /\ ke \in Seq(KeyToken) /\ Token(ke, 1) \in Zid /\ body \in Body
      /\ GetId(c, "call", Token(ke, 1)) \in QueryId
  BY ClientAssumption, GetIdType DEF TypeInv, TypeOK
<1>3. /\ \A s \in Server : \A q \in HeldQueries(s)' :
           q \in HeldQueries(s) \/ q.id.client \notin GeneratedClient
      /\ RepliesTrue'
  BY <1>1, <1>2, GetQueries DEF RoutingInv, serverVars, GetId, GeneratedClient
<1> QED BY <1>3 DEF RoutingInv, QueriesAddressed, WellAddressed, Suitable

\* The end of a call leaves nothing to be wrong about.
LEMMA ReturnRouting ==
  ASSUME TypeInv, RoutingInv, NEW c \in Client, NEW result,
         ReturnFromGet(c, result) \/ ReturnWithoutGet(c, result), UNCHANGED serverVars
  PROVE  RoutingInv'
<1> USE DEF TypeInv, TypeOK, RoutingInv
<1>1. Return(c, result) /\ UNCHANGED inbox
  BY DEF ReturnFromGet, ReturnWithoutGet, zenohVars
<1>2. RepliesTrue'
  <2>1. \A d \in Client : open'[d].replies = open[d].replies \/ open'[d].replies = <<>>
    BY DEF ReturnFromGet, ReturnWithoutGet, zenohVars, ZenohTypeOK, NoGet
  <2> QED BY <2>1 DEF RepliesTrue
<1>3. IdsOffer'
  BY <1>1 DEF Return, IdsOffer, ClientTypeOK
<1>4. MetasTrue'
  <2>1. \A d \in Client : \/ metas'[d] = <<>>
                          \/ metas'[d] = metas[d] /\ ids'[d] = ids[d]
    BY <1>1 DEF Return, ClientTypeOK
  <2> QED BY <2>1 DEF MetasTrue, Truthful
<1>5. NothingKept'
  BY <1>1 DEF Return, NothingKept, ClientTypeOK
<1>6. TasksTrue' /\ LabelsRespected'
  BY DEF serverVars, TasksTrue, LabelsRespected, Suitable
<1>7. QueriesAddressed'
  BY <1>1 DEF serverVars, QueriesAddressed, HeldQueries, WellAddressed, Suitable
<1> QED BY <1>2, <1>3, <1>4, <1>5, <1>6, <1>7

\* Discovery finds sessions where a server offers the service; the reply
\* channel then delivers the labels of some of them.
LEMMA DiscoverRouting ==
  ASSUME TypeInv, RoutingInv, NEW c \in Client,
         Discover(c, Advertising(ClientService[c])), UNCHANGED serverVars
  PROVE  IdsOffer' /\ MetasTrue' /\ NothingKept'
<1> USE DEF TypeInv, TypeOK, ServerTypeOK, ClientTypeOK, RoutingInv
<1>1. PICK found \in SUBSET Advertising(ClientService[c]) :
        ids' = [ids EXCEPT ![c] = found] /\ todo' = [todo EXCEPT ![c] = found]
  BY DEF Discover
<1>2. \A z \in found : \E s \in Server : ZidOf[s] = z /\ ClientService[c] \in ServicesOf[s]
  BY DEF Advertising, Advertised
<1>3. IdsOffer'
  BY <1>1, <1>2 DEF IdsOffer
<1>4. metas' = metas /\ \A d \in Client : d # c => ids'[d] = ids[d]
  BY <1>1 DEF Discover
<1>5. metas[c] = <<>>
  BY DEF Discover, MayCall, NothingKept
<1>6. MetasTrue'
  <2>1. ASSUME NEW d \in Client, NEW i \in DOMAIN metas[d]
        PROVE  metas[d][i].id \in ids'[d] /\ Truthful(metas[d][i].id, metas[d][i].labels)
    <3>1. d # c
      BY <1>5, <2>1
    <3> QED BY <1>4, <2>1, <3>1 DEF MetasTrue
  <2> QED BY <1>4, <2>1 DEF MetasTrue, Truthful
<1>7. NothingKept'
  BY <1>4 DEF Discover, NothingKept
<1> QED BY <1>3, <1>6, <1>7

LEMMA TakeMetadataRouting ==
  ASSUME TypeInv, RoutingInv, NEW c \in Client, TakeMetadata(c), UNCHANGED serverVars
  PROVE  RoutingInv'
<1> USE DEF TypeInv, TypeOK, ZenohTypeOK, ClientTypeOK, RoutingInv
<1> DEFINE r == Head(open[c].replies)
           m == [id |-> r.payload.id, labels |-> r.payload.labels]
<1>1. open[c] \in OpenGet /\ open[c].replies \in Seq(Reply) /\ open[c].replies # <<>>
  BY DEF TakeMetadata, OpenGet
<1>2. TrueReply(r) /\ r \in Reply
  BY <1>1, HeadTailElement, HeadTailProperties DEF RepliesTrue
<1>3. RepliesTrue'
  <2>1. \A i \in DOMAIN Tail(open[c].replies) : TrueReply(Tail(open[c].replies)[i])
    BY <1>1, HeadTailElement DEF RepliesTrue
  <2>2. \A d \in Client : \/ open'[d].replies = open[d].replies
                          \/ d = c /\ open'[d].replies = Tail(open[c].replies)
    BY <1>1 DEF TakeMetadata, OpenGet
  <2> QED BY <2>1, <2>2 DEF RepliesTrue
<1>4. MetasTrue'
  <2>1. ids' = ids
    BY DEF TakeMetadata
  <2>2. CASE metas' = metas
    BY <2>1, <2>2 DEF MetasTrue, Truthful
  <2>3. CASE Usable(c, r) /\ metas' = [metas EXCEPT ![c] = Append(@, m)]
    <3>1. m.id \in ids[c] /\ Truthful(m.id, m.labels)
      BY <1>2, <2>3 DEF Usable, TrueReply
    <3>2. m \in ServerMetadata
      <4>1. r \in [kind : {"sample"}, code : Code, payload : Payload]
        BY <1>2, <2>3 DEF Usable, Reply, ReplyError
      <4>2. r.payload \in [kind : {"metadata"}, id : Zid, labels : SUBSET Label]
        BY <2>3, <4>1 DEF Usable, Payload, NoPayload, Opaque
      <4> QED BY <4>2 DEF ServerMetadata
    <3> HIDE DEF m
    <3>3. ASSUME NEW i \in DOMAIN Append(metas[c], m)
          PROVE  /\ Append(metas[c], m)[i].id \in ids[c]
                 /\ Truthful(Append(metas[c], m)[i].id, Append(metas[c], m)[i].labels)
      <4>1. \/ Append(metas[c], m)[i] = m
            \/ i \in DOMAIN metas[c] /\ Append(metas[c], m)[i] = metas[c][i]
        BY <3>2, AppendElement
      <4> QED BY <3>1, <4>1 DEF MetasTrue
    <3>4. metas'[c] = Append(metas[c], m) /\ \A d \in Client : d # c => metas'[d] = metas[d]
      BY <2>3
    <3>5. ASSUME NEW d \in Client, NEW i \in DOMAIN metas'[d]
          PROVE  metas'[d][i].id \in ids[d] /\ Truthful(metas'[d][i].id, metas'[d][i].labels)
      <4>1. CASE d = c
        BY <3>3, <3>4, <3>5, <4>1
      <4>2. CASE d # c
        BY <3>4, <3>5, <4>2 DEF MetasTrue
      <4> QED BY <4>1, <4>2
    <3> QED BY <2>1, <3>5 DEF MetasTrue, Truthful
  <2> QED BY <2>2, <2>3 DEF TakeMetadata
<1>5. IdsOffer'
  BY DEF TakeMetadata, IdsOffer
<1>6. NothingKept'
  BY DEF TakeMetadata, NothingKept
<1>7. TasksTrue' /\ LabelsRespected'
  BY DEF serverVars, TasksTrue, LabelsRespected, Suitable
<1>8. QueriesAddressed'
  BY DEF TakeMetadata, serverVars, QueriesAddressed, HeldQueries, WellAddressed, Suitable
<1> QED BY <1>3, <1>4, <1>5, <1>6, <1>7, <1>8

LEMMA RoutingClient ==
  ASSUME Interchangeable, TypeInv, RoutingInv, NEW c \in Client,
         StartCall(c) \/ ClientProgress(c) \/ Interrupted(c), UNCHANGED serverVars
  PROVE  RoutingInv'
<1>1. TasksTrue' /\ LabelsRespected'
  BY DEF RoutingInv, serverVars, TasksTrue, LabelsRespected, Suitable
<1>2. CASE \E result : ReturnFromGet(c, result) \/ ReturnWithoutGet(c, result)
  BY <1>2, ReturnRouting
<1>3. CASE Discover(c, Advertising(ClientService[c]))
  <2>1. QueriesAddressed' /\ RepliesTrue'
    BY <1>3 DEF Discover, zenohVars, serverVars, RoutingInv, QueriesAddressed, HeldQueries,
                WellAddressed, Suitable, RepliesTrue
  <2> QED BY <1>1, <1>3, <2>1, DiscoverRouting DEF RoutingInv
<1>4. ASSUME UNCHANGED <<ids, metas>>, pc'[c] # "idle",
             \A d \in Client : d # c => pc'[d] = pc[d],
             \A d \in Client : todo'[d] \subseteq todo[d]
      PROVE  IdsOffer' /\ MetasTrue' /\ NothingKept'
  BY <1>4 DEF RoutingInv, IdsOffer, MetasTrue, NothingKept, Truthful
<1>5. CASE RawGet(c) \/ AskMetadata(c) \/ SendCall(c) \/ MetadataClosed(c)
  <2>1. IdsOffer' /\ MetasTrue' /\ NothingKept'
    BY <1>4, <1>5 DEF RawGet, AskMetadata, SendCall, MetadataClosed, TypeInv, TypeOK,
                      ClientTypeOK
  <2>2. ASSUME MetadataClosed(c)
        PROVE  QueriesAddressed' /\ RepliesTrue'
    <3>1. \A d \in Client : open'[d].replies = open[d].replies \/ open'[d].replies = <<>>
      BY <2>2 DEF MetadataClosed, NoGet, TypeInv, TypeOK, ZenohTypeOK
    <3>2. RepliesTrue'
      BY <3>1 DEF RoutingInv, RepliesTrue
    <3> QED BY <2>2, <3>2 DEF MetadataClosed, serverVars, RoutingInv, QueriesAddressed,
                              HeldQueries, WellAddressed, Suitable
  <2>3. QueriesAddressed' /\ RepliesTrue'
    BY <1>5, <2>2, RawGetAddressed, AskMetadataAddressed, SendCallAddressed
  <2> QED BY <1>1, <2>1, <2>3 DEF RoutingInv
<1>6. CASE TakeMetadata(c)
  BY <1>6, TakeMetadataRouting
<1> QED
  BY <1>2, <1>3, <1>5, <1>6
     DEF StartCall, ClientProgress, Interrupted, NoServerFound, SerializeFails, TakeReply,
         NoReply, LivelinessFails, ForeignToken, AskMetadataFails, SendFails, Cancel

LEMMA RoutingTimeout ==
  ASSUME TypeInv, RoutingInv, NEW c \in Client, QueryTimeout(c),
         UNCHANGED <<serverVars, clientVars>>
  PROVE  RoutingInv'
<1> USE DEF TypeInv, TypeOK, ZenohTypeOK, RoutingInv
<1>1. RepliesTrue'
  <2>1. open[c] \in OpenGet /\ open[c].replies \in Seq(Reply)
    BY DEF OpenGet
  <2>2. ReplyError \in Reply /\ TrueReply(ReplyError)
    BY DEF Reply, ReplyError, TrueReply
  <2>3. \A d \in Client : \/ open'[d].replies = open[d].replies
                          \/ d = c /\ open'[d].replies = Append(open[c].replies, ReplyError)
    BY <2>1 DEF QueryTimeout, OpenGet
  <2>4. \A i \in DOMAIN Append(open[c].replies, ReplyError) :
          TrueReply(Append(open[c].replies, ReplyError)[i])
    BY <2>1, <2>2, AppendElement DEF RepliesTrue
  <2> QED BY <2>3, <2>4 DEF RepliesTrue
<1>2. TasksTrue' /\ LabelsRespected' /\ IdsOffer' /\ MetasTrue' /\ NothingKept'
  BY DEF serverVars, clientVars, TasksTrue, LabelsRespected, Suitable, IdsOffer, MetasTrue,
         Truthful, NothingKept
<1>3. QueriesAddressed'
  BY DEF QueryTimeout, serverVars, QueriesAddressed, HeldQueries, WellAddressed, Suitable
<1> QED BY <1>1, <1>2, <1>3

-----------------------------------------------------------------------------
LEMMA RoutingInit == Init => RoutingInv
BY DEF Init, ZenohInit, ServerInit, ClientInit, NoGet, RoutingInv, TasksTrue, RepliesTrue,
       IdsOffer, MetasTrue, NothingKept, QueriesAddressed, HeldQueries, LabelsRespected

LEMMA RoutingStep ==
  ASSUME Interchangeable, TypeInv, RoutingInv, [Next]_vars
  PROVE  RoutingInv'
<1>1. CASE UNCHANGED vars
  BY <1>1 DEF vars, zenohVars, serverVars, clientVars, RoutingInv, TasksTrue, RepliesTrue,
              IdsOffer, MetasTrue, Truthful, NothingKept, QueriesAddressed, HeldQueries,
              WellAddressed, Suitable, LabelsRespected
<1> QED BY <1>1, RoutingServer, RoutingClient, RoutingTimeout DEF Next

\* A query addressed as generated clients do never ends serve().
LEMMA AddressedIsNoPoison == RoutingInv => NoPoisonQuery
<1> SUFFICES ASSUME RoutingInv, NEW s \in Server, NEW i \in DOMAIN inbox[s],
                    inbox[s][i].id.client \in GeneratedClient
             PROVE  ~EndsServe(s, inbox[s][i])
  BY DEF NoPoisonQuery
<1> DEFINE q == inbox[s][i]
<1>1. q \in HeldQueries(s)
  BY DEF HeldQueries
<1>2. CASE q.ke = MetadataKey(ZidOf[s])
  BY <1>2 DEF EndsServe, IsEndpoint, HasToken, Token, MetadataKey
<1>3. ASSUME NEW m \in Method, Suitable(q.id.client, s), q.body # "absent",
             q.ke = ServiceKey(ZidOf[s], ClientService[q.id.client], m)
      PROVE  ~EndsServe(s, q)
  BY <1>3 DEF EndsServe, NamesService, HasToken, Token, ServiceKey, Suitable
<1> QED BY <1>1, <1>2, <1>3 DEF RoutingInv, QueriesAddressed, WellAddressed

\* With one server per session, every query and every piece of metadata can be
\* traced to where it is right, whatever clients and servers do, crash or lose.
THEOREM RoutingInvariance ==
  ASSUME Interchangeable
  PROVE  Spec => []RoutingInv
<1>1. TypeInv /\ RoutingInv /\ [Next]_vars => RoutingInv'
  BY RoutingStep
<1> QED BY <1>1, RoutingInit, TypeInvariance, PTL DEF Spec

\* What a generated client sends never ends serve().
THEOREM NoPoisonCorrect ==
  ASSUME Interchangeable
  PROVE  Spec => []NoPoisonQuery
BY RoutingInvariance, AddressedIsNoPoison, PTL

\* No handler runs for a generated client whose service its server does not
\* offer or whose labels it lacks.
THEOREM LabelsCorrect ==
  ASSUME Interchangeable
  PROVE  Spec => []LabelsRespected
<1>1. RoutingInv => LabelsRespected
  BY DEF RoutingInv
<1> QED BY <1>1, RoutingInvariance, PTL

-----------------------------------------------------------------------------
(* A good day.                                                             *)

\* Users only run their own clients, and their requests survive the wire.
GoodDay ==
  /\ Interchangeable
  /\ RawClient = {}
  /\ \A r \in Requests : r.body = "wellformed"

Undisturbed == \A s \in Server : phase[s] = "built" \/ Running(s)

\* A session that a client has found stays answerable.
IdsReached == \A c \in Client : \A z \in ids[c] : \E s \in queryables : ZidOf[s] = z

\* What a server is asked is what its clients mean.
ForMetadata(s, q) == q.id.zid = ZidOf[s] /\ q.ke = MetadataKey(ZidOf[s])
ForCall(s, q) ==
  /\ q.body = "wellformed"
  /\ \E m \in Method : q.ke = ServiceKey(ZidOf[s], ClientService[q.id.client], m)

KindsAddressed ==
  \A s \in Server : \A q \in HeldQueries(s) :
    IF q.id.kind = "metadata" THEN ForMetadata(s, q) ELSE ForCall(s, q)

\* A metadata query is answered with metadata of the session it was sent to.
Tells(z, r) == r.kind = "sample" /\ r.payload.kind = "metadata" /\ r.payload.id = z

TasksTell ==
  \A s \in Server : \A t \in tasks[s] :
    t.query.id.kind = "metadata" => Tells(t.query.id.zid, t.reply)

\* The get for the metadata of session z has its answer ahead of it, or in its
\* channel, or it has been collected.
Collected(c, z) == \E i \in DOMAIN metas[c] : metas[c][i].id = z

Asking(c, z) ==
  /\ open[c].id = GetId(c, "metadata", z)
  /\ \A i \in DOMAIN open[c].replies : Tells(z, open[c].replies[i])
  /\ open[c].pending # {} \/ open[c].replies # <<>> \/ Collected(c, z)

AskedAnswers == \A c \in Client : pc[c] = "metadata" => \E z \in ids[c] \ todo[c] : Asking(c, z)

AllCollected ==
  \A c \in Client : pc[c] \in {"collecting", "metadata"} =>
    \A z \in ids[c] \ todo[c] :
      Collected(c, z) \/ (pc[c] = "metadata" /\ open[c].id.zid = z)

FoundInv ==
  /\ Undisturbed /\ IdsReached /\ KindsAddressed
  /\ TasksTell /\ AskedAnswers /\ AllCollected

LEMMA CalmIsNext == CalmNext => Next
BY DEF CalmNext, Next, ServerNext

LEMMA CalmIsSpec == CalmSpec => Spec
<1>1. [CalmNext]_vars => [Next]_vars
  BY CalmIsNext
<1> QED BY <1>1, PTL DEF CalmSpec, Spec

\* What serve() and its tasks read in the keys of a generated client.
LEMMA KeyTokens ==
  ASSUME NEW z, NEW v, NEW m
  PROVE  /\ IsEndpoint(MetadataKey(z), "metadata") /\ ~IsEndpoint(MetadataKey(z), "service")
         /\ IsEndpoint(ServiceKey(z, v, m), "service")
         /\ ~IsEndpoint(ServiceKey(z, v, m), "metadata")
         /\ HasToken(ServiceKey(z, v, m), 4)
         /\ Token(ServiceKey(z, v, m), 3) = v /\ Token(ServiceKey(z, v, m), 4) = m
<1>1. Len(MetadataKey(z)) = 3 /\ Token(MetadataKey(z), 2) = "metadata"
  BY DEF MetadataKey, Token
<1>2. /\ Len(ServiceKey(z, v, m)) = 5 /\ Token(ServiceKey(z, v, m), 2) = "service"
      /\ Token(ServiceKey(z, v, m), 3) = v /\ Token(ServiceKey(z, v, m), 4) = m
  BY DEF ServiceKey, Token
<1> QED BY <1>1, <1>2 DEF IsEndpoint, HasToken

\* A server starts, and disturbs nobody.
Starts(s) ==
  /\ UNCHANGED <<inbox, open, tasks, executed>>
  /\ queryables \subseteq queryables'
  /\ Undisturbed'

\* A server spawns the task that answers the query at the head of its channel.
Answers(s) ==
  /\ Receivable(s)
  /\ \/ /\ Head(inbox[s]).id.kind = "metadata"
        /\ Spawn(s, Sample("Ok", Metadata(ZidOf[s], LabelsOf[s])))
     \/ Head(inbox[s]).id.kind = "call" /\ Spawn(s, Pending)

\* On a good day a server does no more than that, and run its tasks.
LEMMA CalmShapes ==
  ASSUME GoodDay, TypeInv, RoutingInv, FoundInv, NEW s \in Server,
         DeclareQueryable(s) \/ ServeProgress(s) \/ TaskStep(s)
  PROVE  \/ Starts(s)
         \/ Answers(s)
         \/ \E t \in tasks[s] : /\ t.query.id.kind = "call"
                                /\ MethodUnknown(s, t) \/ RunHandler(s, t)
         \/ \E t \in tasks[s] : SendReply(s, t)
<1> USE DEF FoundInv
<1>1. CASE DeclareQueryable(s) \/ DeclareToken(s) \/ EnterLoop(s)
  <2>1. Starts(s)
    BY <1>1 DEF DeclareQueryable, DeclareToken, EnterLoop, Starts, Undisturbed, Running, zenohVars,
                TypeInv, TypeOK, ServerTypeOK
  <2> QED BY <2>1
<1>2. ASSUME Receivable(s)
      PROVE  /\ Head(inbox[s]) \in HeldQueries(s)
             /\ ~EndsServe(s, Head(inbox[s]))
             /\ Head(inbox[s]).id.kind = "metadata" =>
                  /\ IsEndpoint(Head(inbox[s]).ke, "metadata")
                  /\ ~IsEndpoint(Head(inbox[s]).ke, "service")
             /\ Head(inbox[s]).id.kind # "metadata" =>
                  /\ Head(inbox[s]).id.kind = "call"
                  /\ IsEndpoint(Head(inbox[s]).ke, "service")
                  /\ ~IsEndpoint(Head(inbox[s]).ke, "metadata")
  <2> DEFINE q == Head(inbox[s])
  <2>1. inbox[s] \in Seq(Query) /\ inbox[s] # <<>>
    BY <1>2 DEF TypeInv, TypeOK, ZenohTypeOK, Receivable
  <2>2. 1 \in DOMAIN inbox[s] /\ q = inbox[s][1] /\ q \in Query
    BY <2>1, HeadTailElement, HeadTailProperties
  <2>3. q \in HeldQueries(s)
    BY <2>2 DEF HeldQueries
  <2>4. NoPoisonQuery /\ q.id.client \in GeneratedClient
    BY <2>2, AddressedIsNoPoison DEF GoodDay, GeneratedClient, Query, QueryId
  <2>5. ~EndsServe(s, q)
    BY <2>2, <2>4 DEF NoPoisonQuery
  <2>6. CASE q.id.kind = "metadata"
    <3>1. q.ke = MetadataKey(ZidOf[s])
      BY <2>3, <2>6 DEF KindsAddressed, ForMetadata
    <3> QED BY <2>3, <2>5, <2>6, <3>1, KeyTokens
  <2>7. CASE q.id.kind # "metadata"
    <3>1. PICK m \in Method : q.ke = ServiceKey(ZidOf[s], ClientService[q.id.client], m)
      BY <2>3, <2>7 DEF KindsAddressed, ForCall
    <3>2. q.id.kind = "call"
      BY <2>2, <2>7 DEF Query, QueryId
    <3> QED BY <2>3, <2>5, <2>7, <3>1, <3>2, KeyTokens
  <2> QED BY <2>6, <2>7
<1>3. CASE ReceiveServiceCall(s) \/ ReceiveMetadata(s) \/ ReceiveUnknown(s) \/ ReceiveEndsServe(s)
  <2>1. Receivable(s)
    BY <1>3 DEF ReceiveServiceCall, ReceiveMetadata, ReceiveUnknown, ReceiveEndsServe
  <2>2. Answers(s)
    BY <1>2, <1>3, <2>1 DEF Answers, ReceiveServiceCall, ReceiveMetadata, ReceiveUnknown,
                            ReceiveEndsServe
  <2> QED BY <2>2
<1>4. ASSUME NEW t \in tasks[s], t.reply = Pending
      PROVE  t.query.id.kind = "call" /\ HasToken(t.query.ke, 4) /\ t.query.body = "wellformed"
  <2>1. t.query \in HeldQueries(s) /\ t.query \in Query
    BY DEF HeldQueries, TypeInv, TypeOK, ServerTypeOK, Task
  <2>2. t.query.id.kind # "metadata"
    BY <1>4 DEF TasksTell, Tells, Pending
  <2>3. t.query.id.kind = "call"
    BY <2>1, <2>2 DEF Query, QueryId
  <2>4. ForCall(s, t.query)
    BY <2>1, <2>2 DEF KindsAddressed
  <2> QED BY <2>3, <2>4, KeyTokens DEF ForCall
<1>5. CASE TaskStep(s)
  <2> PICK t \in tasks[s] :
         \/ MethodMissing(s, t) \/ MethodUnknown(s, t) \/ RunHandler(s, t)
         \/ HandlerPanics(s, t) \/ SendReply(s, t)
    BY <1>5 DEF TaskStep
  <2>1. CASE SendReply(s, t)
    BY <2>1
  <2>2. CASE ~SendReply(s, t)
    <3>1. t.reply = Pending
      BY <2>2 DEF MethodMissing, MethodUnknown, RunHandler, HandlerPanics, Dispatched
    <3> QED BY <1>4, <2>2, <3>1 DEF MethodMissing, HandlerPanics
  <2> QED BY <2>1, <2>2
<1> QED BY <1>1, <1>3, <1>5 DEF ServeProgress

\* Answering a get leaves its name alone, and only adds the answer to the channel
\* of the client that asked.
LEMMA AnsweringId ==
  ASSUME TypeInv, NEW s, NEW id, NEW reply, open' = Answering(s, id, reply), NEW c \in Client
  PROVE  /\ open'[c].id = open[c].id
         /\ \/ open'[c] = open[c]
            \/ open[c].id = id /\ open'[c].replies = Append(open[c].replies, reply)
BY DEF TypeInv, TypeOK, ZenohTypeOK, OpenGet, Answering

LEMMA Appended ==
  ASSUME NEW S, NEW seq \in Seq(S), NEW e \in S
  PROVE  Append(seq, e) # <<>>
BY AppendProperties

LEMMA FoundServer ==
  ASSUME GoodDay, TypeInv, RoutingInv, FoundInv, NEW s \in Server,
         DeclareQueryable(s) \/ ServeProgress(s) \/ TaskStep(s), UNCHANGED clientVars
  PROVE  FoundInv'
<1> USE DEF FoundInv, TypeInv, TypeOK, ZenohTypeOK, ServerTypeOK
<1>1. \A r \in Server : HeldQueries(r)' \subseteq HeldQueries(r)
  BY ServerHolds DEF ServerNext, GoodDay, RoutingInv
<1>2. KindsAddressed'
  BY <1>1 DEF KindsAddressed, ForMetadata, ForCall
<1>3. ASSUME \A r \in Server : \A u \in tasks'[r] :
               u \in tasks[r] \/ (u.query.id.kind = "metadata" => Tells(u.query.id.zid, u.reply))
      PROVE  TasksTell'
  BY <1>3 DEF TasksTell, Tells
<1>4. ASSUME UNCHANGED phase PROVE Undisturbed'
  BY <1>4 DEF Undisturbed, Running
<1>5. ASSUME queryables \subseteq queryables' PROVE IdsReached'
  BY <1>5 DEF IdsReached, clientVars
<1>0. /\ \A c, z : Collected(c, z)' <=> Collected(c, z)
      /\ \A c, z : GetId(c, "metadata", z)' = GetId(c, "metadata", z)
      /\ UNCHANGED <<pc, ids, todo>>
  BY DEF Collected, GetId, CurrentCall, clientVars
<1>6. ASSUME UNCHANGED open PROVE AskedAnswers' /\ AllCollected'
  <2>1. \A c, z : Asking(c, z)' <=> Asking(c, z)
    BY <1>0, <1>6 DEF Asking, Tells
  <2>2. AskedAnswers'
    BY <1>0, <2>1 DEF AskedAnswers
  <2>3. AllCollected'
    BY <1>0, <1>6 DEF AllCollected
  <2> QED BY <2>2, <2>3
<1>7. CASE Starts(s)
  BY <1>2, <1>3, <1>5, <1>6, <1>7 DEF Starts
<1>8. CASE Answers(s)
  <2>1. PICK reply : /\ Spawn(s, reply)
                     /\ Head(inbox[s]).id.kind = "metadata" => Tells(ZidOf[s], reply)
    <3>1. Tells(ZidOf[s], Sample("Ok", Metadata(ZidOf[s], LabelsOf[s])))
      BY DEF Tells, Sample, Metadata
    <3> QED BY <1>8, <3>1 DEF Answers
  <2>2. inbox[s] \in Seq(Query) /\ inbox[s] # <<>>
    BY <1>8 DEF Answers, Receivable
  <2>3. Head(inbox[s]) \in HeldQueries(s)
    BY <2>2, HeadTailElement DEF HeldQueries
  <2>4. Head(inbox[s]).id.kind = "metadata" => Tells(Head(inbox[s]).id.zid, reply)
    BY <2>1, <2>3 DEF KindsAddressed, ForMetadata
  <2> DEFINE new == [query |-> Head(inbox[s]), reply |-> reply]
  <2>5. new.query = Head(inbox[s]) /\ new.reply = reply
    OBVIOUS
  <2> HIDE DEF new
  <2>6. \A r \in Server : \A u \in tasks'[r] : u \in tasks[r] \/ u = new
    BY <2>1 DEF Spawn, new
  <2>7. TasksTell'
    BY <1>3, <2>4, <2>5, <2>6
  <2> QED BY <1>2, <1>4, <1>5, <1>6, <2>1, <2>7 DEF Spawn
<1>9. ASSUME NEW t \in tasks[s], t.query.id.kind = "call", MethodUnknown(s, t) \/ RunHandler(s, t)
      PROVE  FoundInv'
  <2>1. PICK reply : Finish(s, t, reply)
    BY <1>9 DEF MethodUnknown, RunHandler
  <2> DEFINE new == [t EXCEPT !.reply = reply]
  <2>2. new.query = t.query
    BY DEF Task
  <2> HIDE DEF new
  <2>3. \A r \in Server : \A u \in tasks'[r] : u \in tasks[r] \/ u = new
    BY <2>1 DEF Finish, new
  <2>4. TasksTell'
    BY <1>3, <1>9, <2>2, <2>3
  <2>5. UNCHANGED <<phase, queryables, open>>
    BY <1>9 DEF MethodUnknown, RunHandler, zenohVars
  <2> QED BY <1>2, <1>4, <1>5, <1>6, <2>4, <2>5
<1>10. ASSUME NEW t \in tasks[s], SendReply(s, t)
       PROVE  FoundInv'
  <2>1. TasksTell'
    BY <1>3, <1>10 DEF SendReply
  <2>2. \A c \in Client : open'[c].id = open[c].id
    BY <1>10, AnsweringId DEF SendReply
  <2>3. AllCollected'
    BY <1>0, <2>2 DEF AllCollected
  <2>4. ASSUME NEW c \in Client, NEW z \in ids[c] \ todo[c], Asking(c, z)
        PROVE  Asking(c, z)'
    <3>1. /\ open'[c].id = GetId(c, "metadata", z)
          /\ GetId(c, "metadata", z)' = GetId(c, "metadata", z)
          /\ Collected(c, z)' <=> Collected(c, z)
      BY <1>0, <2>2, <2>4 DEF Asking
    <3>2. CASE open'[c] = open[c]
      BY <2>4, <3>1, <3>2 DEF Asking, Tells
    <3>3. CASE open'[c].replies = Append(open[c].replies, t.reply) /\ open[c].id = t.query.id
      <4>1. t.query.id.kind = "metadata" /\ t.query.id.zid = z
        BY <2>4, <3>3 DEF Asking, GetId
      <4>2. Tells(z, t.reply) /\ t.reply \in Reply /\ open[c].replies \in Seq(Reply)
        BY <1>10, <4>1 DEF TasksTell, SendReply, Task, OpenGet
      <4>3. \A i \in DOMAIN open'[c].replies : Tells(z, open'[c].replies[i])
        BY <2>4, <3>3, <4>2, AppendElement DEF Asking
      <4>4. open'[c].replies # <<>>
        <5>1. Append(open[c].replies, t.reply) # <<>>
          BY <4>2, Appended
        <5> QED BY <3>3, <5>1
      <4> QED BY <3>1, <4>3, <4>4 DEF Asking, Tells
    <3> QED BY <1>10, <3>2, <3>3, AnsweringId DEF SendReply
  <2>5. AskedAnswers'
    BY <1>0, <2>4 DEF AskedAnswers
  <2> QED BY <1>2, <1>4, <1>5, <1>10, <2>1, <2>3, <2>5 DEF SendReply
<1> QED BY <1>7, <1>8, <1>9, <1>10, CalmShapes

\* A step of one client is none of another.
LEMMA ClientAlone ==
  ASSUME TypeInv, NEW c \in Client, StartCall(c) \/ ClientProgress(c) \/ Interrupted(c),
         NEW d \in Client, d # c
  PROVE  /\ pc'[d] = pc[d] /\ request'[d] = request[d] /\ ids'[d] = ids[d] /\ todo'[d] = todo[d]
         /\ metas'[d] = metas[d] /\ results'[d] = results[d] /\ open'[d] = open[d]
<1> USE DEF TypeInv, TypeOK, ZenohTypeOK, ClientTypeOK
<1>1. CASE RawGet(c) \/ AskMetadata(c) \/ SendCall(c)
  <2>1. open'[d] = open[d]
    BY <1>1, ClientGets DEF Get
  <2> QED BY <1>1, <2>1 DEF RawGet, AskMetadata, SendCall
<1>2. CASE Discover(c, Advertising(ClientService[c])) \/ TakeMetadata(c) \/ MetadataClosed(c)
  BY <1>2 DEF Discover, TakeMetadata, MetadataClosed, zenohVars
<1>3. ASSUME NEW result, ReturnFromGet(c, result) \/ ReturnWithoutGet(c, result)
      PROVE  /\ pc'[d] = pc[d] /\ request'[d] = request[d] /\ ids'[d] = ids[d]
             /\ todo'[d] = todo[d] /\ metas'[d] = metas[d] /\ results'[d] = results[d]
             /\ open'[d] = open[d]
  BY <1>3 DEF ReturnFromGet, ReturnWithoutGet, Return, zenohVars
<1> QED BY <1>1, <1>2, <1>3, ClientListens

\* What a step of client c has to respect of what its calls have found.
LEMMA FoundLocal ==
  ASSUME TypeInv, AskedAnswers, AllCollected, NEW c \in Client,
         StartCall(c) \/ ClientProgress(c),
         pc'[c] = "metadata" => \E z \in ids'[c] \ todo'[c] : Asking(c, z)',
         pc'[c] \in {"collecting", "metadata"} =>
           \A z \in ids'[c] \ todo'[c] :
             Collected(c, z)' \/ (pc'[c] = "metadata" /\ open'[c].id.zid = z)
  PROVE  AskedAnswers' /\ AllCollected'
<1>1. ASSUME NEW d \in Client, d # c
      PROVE  /\ pc'[d] = pc[d] /\ ids'[d] = ids[d] /\ todo'[d] = todo[d] /\ open'[d] = open[d]
             /\ \A z : Asking(d, z)' <=> Asking(d, z)
             /\ \A z : Collected(d, z)' <=> Collected(d, z)
  BY <1>1, ClientAlone DEF Asking, Collected, Tells, GetId, CurrentCall
<1>2. AskedAnswers'
  BY <1>1 DEF AskedAnswers
<1>3. AllCollected'
  BY <1>1 DEF AllCollected
<1> QED BY <1>2, <1>3

\* The queries a client issues.
LEMMA FoundGets ==
  ASSUME GoodDay, TypeInv, RoutingInv, FoundInv, NEW c \in Client,
         AskMetadata(c) \/ SendCall(c), UNCHANGED serverVars
  PROVE  KindsAddressed'
<1> USE DEF TypeInv, TypeOK
<1>1. ASSUME NEW id \in QueryId, NEW ke \in Seq(KeyToken), NEW body \in Body,
             Get(c, id, ke, body), NEW q, q = [id |-> id, ke |-> ke, body |-> body],
             \A s \in Server : ZidOf[s] = Token(ke, 1) =>
               IF id.kind = "metadata" THEN ForMetadata(s, q) ELSE ForCall(s, q)
      PROVE  KindsAddressed'
  <2>1. \A s \in Server : \A x \in HeldQueries(s)' :
          x \in HeldQueries(s) \/ (ZidOf[s] = Token(ke, 1) /\ x = q)
    BY <1>1, GetQueries DEF serverVars
  <2>2. q.id = id
    BY <1>1
  <2> QED BY <1>1, <2>1, <2>2 DEF FoundInv, KindsAddressed, ForMetadata, ForCall
<1>2. CASE AskMetadata(c)
  <2>1. PICK z \in todo[c] : Get(c, GetId(c, "metadata", z), MetadataKey(z), "absent")
    BY <1>2 DEF AskMetadata
  <2>2. z \in Zid /\ "absent" \in Body /\ GetId(c, "metadata", z) \in QueryId
    BY GetIdType DEF ClientTypeOK, Body
  <2>3. MetadataKey(z) \in Seq(KeyToken) /\ Token(MetadataKey(z), 1) = z
    BY <2>2, KeyType DEF MetadataKey, Token
  <2>4. PICK q : q = [id |-> GetId(c, "metadata", z), ke |-> MetadataKey(z), body |-> "absent"]
    OBVIOUS
  <2>5. q.id.kind = "metadata" /\ q.id.zid = z /\ q.ke = MetadataKey(z)
    BY <2>4 DEF GetId
  <2>6. \A s \in Server : ZidOf[s] = z => ForMetadata(s, q)
    BY <2>5 DEF ForMetadata
  <2> QED BY <1>1, <2>1, <2>2, <2>3, <2>4, <2>5, <2>6
<1>3. CASE SendCall(c)
  <2>1. PICK i \in Eligible(c) :
          Get(c, GetId(c, "call", metas[c][i].id),
              ServiceKey(metas[c][i].id, ClientService[c], request[c].method), request[c].body)
    BY <1>3 DEF SendCall
  <2>2. PICK z, v, m, body : /\ z = metas[c][i].id /\ v = ClientService[c]
                             /\ m = request[c].method /\ body = request[c].body
    OBVIOUS
  <2>3. metas[c][i] \in ServerMetadata
    BY LenProperties, ElementOfSeq DEF Eligible, ClientTypeOK
  <2>4. z \in Zid
    BY <2>2, <2>3 DEF ServerMetadata
  <2>5. request[c] \in Requests
    BY <1>3 DEF SendCall, RequestKnown
  <2>6. m \in Method /\ body = "wellformed" /\ body \in Body /\ v \in Svc
    BY <2>2, <2>5, ClientAssumption DEF Body, GoodDay
  <2>7. /\ ServiceKey(z, v, m) \in Seq(KeyToken) /\ Token(ServiceKey(z, v, m), 1) = z
        /\ GetId(c, "call", z) \in QueryId
    BY <2>4, <2>6, KeyType, GetIdType DEF ServiceKey, Token
  <2>8. Get(c, GetId(c, "call", z), ServiceKey(z, v, m), body)
    BY <2>1, <2>2
  <2>9. PICK q : q = [id |-> GetId(c, "call", z), ke |-> ServiceKey(z, v, m), body |-> body]
    OBVIOUS
  <2>10. /\ q.id.kind = "call" /\ q.id.client = c /\ q.body = "wellformed"
         /\ q.ke = ServiceKey(z, v, m) /\ GetId(c, "call", z).kind = "call"
    BY <2>6, <2>9 DEF GetId
  <2>11. \A s \in Server : ZidOf[s] = z => ForCall(s, q)
    BY <2>2, <2>6, <2>10 DEF ForCall
  <2> QED BY <1>1, <2>6, <2>7, <2>8, <2>9, <2>10, <2>11
<1> QED BY <1>2, <1>3

\* What a client finds advertised can be reached, as nothing has failed.
LEMMA FoundAdvertised ==
  ASSUME TypeInv, AdvertisingInv, FoundInv, NEW v, NEW z \in Advertising(v)
  PROVE  \E s \in queryables : ZidOf[s] = z
<1>1. PICK s \in Server : v \in Advertised(s) /\ ZidOf[s] = z
  BY DEF Advertising
<1>2. phase[s] \notin {"ended", "crashed"}
  BY DEF FoundInv, Undisturbed, Running
<1>3. s \in queryables
  BY <1>1, <1>2 DEF Advertised, AdvertisingInv
<1> QED BY <1>1, <1>3

\* A client takes a metadata reply only from the session it asks, whose metadata
\* it has then collected.
LEMMA TakeFound ==
  ASSUME TypeInv, FoundInv, NEW c \in Client, TakeMetadata(c)
  PROVE  /\ \A z : Collected(c, z) => Collected(c, z)'
         /\ \E z \in ids'[c] \ todo'[c] : Asking(c, z)'
<1> USE DEF TypeInv, TypeOK, ZenohTypeOK, ClientTypeOK
<1>1. PICK z \in ids[c] \ todo[c] : Asking(c, z)
  BY DEF TakeMetadata, FoundInv, AskedAnswers
<1>2. open[c] \in OpenGet /\ open[c].replies \in Seq(Reply) /\ open[c].replies # <<>>
  BY DEF TakeMetadata, OpenGet
<1> DEFINE r == Head(open[c].replies)
           m == [id |-> r.payload.id, labels |-> r.payload.labels]
<1>3. Tells(z, r) /\ r \in Reply
  BY <1>1, <1>2, HeadTailElement, HeadTailProperties DEF Asking
<1>4. m \in ServerMetadata /\ m.id = z
  <2>1. r.payload \in Payload /\ r.payload.kind = "metadata" /\ r.payload.id = z
    BY <1>3 DEF Tells, Reply, ReplyError
  <2>2. r.payload.labels \in SUBSET Label /\ z \in Zid
    BY <2>1 DEF Payload, NoPayload, Opaque
  <2> QED BY <2>1, <2>2 DEF ServerMetadata
<1>5. Usable(c, r)
  BY <1>3 DEF Tells, Usable
<1>6. metas'[c] = Append(metas[c], m)
  BY <1>5 DEF TakeMetadata
<1> HIDE DEF r, m
<1>7. metas[c] \in Seq(ServerMetadata)
  OBVIOUS
<1>8. /\ \A i \in DOMAIN metas[c] : i \in DOMAIN metas'[c] /\ metas'[c][i] = metas[c][i]
      /\ \E i \in DOMAIN metas'[c] : metas'[c][i] = m
  <2>1. PICK old, new : old = metas[c] /\ new = metas'[c]
    OBVIOUS
  <2>2. old \in Seq(ServerMetadata) /\ new = Append(old, m)
    BY <1>6, <1>7, <2>1
  <2>3. /\ \A i \in DOMAIN old : i \in DOMAIN new /\ new[i] = old[i]
        /\ \E i \in DOMAIN new : new[i] = m
    BY ONLY <1>4, <2>2, AppendKeeps
  <2> QED BY <2>1, <2>3
<1>9. \A x : Collected(c, x) => Collected(c, x)'
  BY <1>8 DEF Collected
<1>10. Collected(c, z)'
  BY <1>4, <1>8 DEF Collected
<1>11. /\ open'[c].id = open[c].id /\ open'[c].replies = Tail(open[c].replies)
       /\ ids'[c] = ids[c] /\ todo'[c] = todo[c]
  BY <1>2 DEF TakeMetadata, OpenGet
<1>12. \A i \in DOMAIN open'[c].replies : Tells(z, open'[c].replies[i])
  BY <1>1, <1>2, <1>11, HeadTailElement DEF Asking
<1>13. open'[c].id = GetId(c, "metadata", z) /\ GetId(c, "metadata", z)' = GetId(c, "metadata", z)
  BY <1>1, <1>11 DEF Asking, GetId, CurrentCall, TakeMetadata
<1>14. Asking(c, z)'
  BY <1>10, <1>12, <1>13 DEF Asking, Tells
<1> QED BY <1>9, <1>11, <1>14

LEMMA FoundClient ==
  ASSUME GoodDay, TypeInv, RoutingInv, AdvertisingInv, FoundInv, NEW c \in Client,
         StartCall(c) \/ ClientProgress(c), UNCHANGED serverVars
  PROVE  FoundInv'
<1> USE DEF FoundInv, TypeInv, TypeOK, ZenohTypeOK, ClientTypeOK
<1>1. Undisturbed' /\ TasksTell'
  BY DEF serverVars, Undisturbed, Running, TasksTell, Tells
<1>2. ~RawGet(c)
  BY DEF RawGet, GoodDay
<1>3. ASSUME UNCHANGED inbox PROVE KindsAddressed'
  BY <1>3 DEF serverVars, KindsAddressed, HeldQueries, ForMetadata, ForCall
<1>4. ASSUME UNCHANGED queryables,
             ids'[c] = ids[c] \/ ids'[c] = {} \/ ids'[c] \subseteq Advertising(ClientService[c])
      PROVE  IdsReached'
  <2>1. ASSUME NEW d \in Client, NEW z \in ids'[d]
        PROVE  \E s \in queryables' : ZidOf[s] = z
    <3>1. CASE z \in ids[d]
      BY <1>4, <3>1 DEF IdsReached
    <3>2. CASE z \notin ids[d]
      BY <1>4, <2>1, <3>2, ClientAlone, FoundAdvertised
    <3> QED BY <3>1, <3>2
  <2> QED BY <2>1 DEF IdsReached
<1>5. CASE AskMetadata(c)
  <2>1. PICK z \in todo[c] : /\ todo' = [todo EXCEPT ![c] = @ \ {z}]
                             /\ Get(c, GetId(c, "metadata", z), MetadataKey(z), "absent")
    BY <1>5 DEF AskMetadata
  <2>2. z \in ids[c] \ todo'[c] /\ ids' = ids /\ todo'[c] = todo[c] \ {z} /\ pc'[c] = "metadata"
    BY <1>5, <2>1 DEF AskMetadata, RoutingInv, IdsOffer
  <2>3. Token(MetadataKey(z), 1) = z
    BY DEF MetadataKey, Token
  <2>4. Matching(MetadataKey(z)) # {}
    BY <2>2, <2>3 DEF Matching, IdsReached
  <2>5. /\ open'[c].id = GetId(c, "metadata", z) /\ open'[c].replies = <<>>
        /\ open'[c].pending # {}
    BY <2>1, <2>4 DEF Get
  <2>6. /\ GetId(c, "metadata", z)' = GetId(c, "metadata", z)
        /\ \A x : Collected(c, x)' <=> Collected(c, x)
        /\ open'[c].id.zid = z
    BY <1>5, <2>5 DEF GetId, CurrentCall, Collected, AskMetadata
  <2>7. Asking(c, z)'
    BY <2>5, <2>6 DEF Asking
  <2>8. pc[c] = "collecting"
    BY <1>5 DEF AskMetadata
  <2>9. \A x \in ids'[c] \ todo'[c] : Collected(c, x)' \/ open'[c].id.zid = x
    BY <2>2, <2>6, <2>8 DEF AllCollected
  <2>10. AskedAnswers' /\ AllCollected'
    BY <2>2, <2>7, <2>9, FoundLocal
  <2> QED BY <1>1, <1>4, <1>5, <2>1, <2>2, <2>10, FoundGets DEF Get
<1>6. CASE SendCall(c)
  <2>1. pc'[c] = "calling" /\ ids' = ids
    BY <1>6 DEF SendCall
  <2>2. AskedAnswers' /\ AllCollected'
    BY <2>1, FoundLocal
  <2>3. UNCHANGED queryables
    BY <1>6 DEF SendCall, Get
  <2> QED BY <1>1, <1>4, <1>6, <2>1, <2>2, <2>3, FoundGets
<1>7. CASE Discover(c, Advertising(ClientService[c]))
  <2>1. /\ pc'[c] = "collecting" /\ ids'[c] \ todo'[c] = {}
        /\ ids'[c] \subseteq Advertising(ClientService[c])
        /\ UNCHANGED <<queryables, inbox>>
    BY <1>7 DEF Discover, zenohVars
  <2>2. AskedAnswers' /\ AllCollected'
    BY <2>1, FoundLocal
  <2> QED BY <1>1, <1>3, <1>4, <2>1, <2>2
<1>8. CASE TakeMetadata(c)
  <2>1. /\ pc[c] = "metadata" /\ pc' = pc /\ ids' = ids /\ todo' = todo
        /\ UNCHANGED <<queryables, inbox>> /\ open'[c].id = open[c].id
    BY <1>8 DEF TakeMetadata, OpenGet
  <2>2. \A z \in ids'[c] \ todo'[c] : Collected(c, z)' \/ open'[c].id.zid = z
    BY <1>8, <2>1, TakeFound DEF AllCollected
  <2>3. AskedAnswers' /\ AllCollected'
    BY <1>8, <2>1, <2>2, TakeFound, FoundLocal
  <2> QED BY <1>1, <1>3, <1>4, <2>1, <2>3
<1>9. CASE MetadataClosed(c)
  <2>1. /\ pc[c] = "metadata" /\ pc'[c] = "collecting" /\ ids' = ids /\ todo' = todo
        /\ metas' = metas /\ UNCHANGED <<queryables, inbox>>
        /\ open[c].replies = <<>> /\ open[c].pending = {}
    BY <1>9 DEF MetadataClosed
  <2>2. PICK z \in ids[c] \ todo[c] : Asking(c, z)
    BY <2>1 DEF AskedAnswers
  <2>3. Collected(c, z) /\ open[c].id.zid = z
    BY <2>1, <2>2 DEF Asking, GetId
  <2>4. \A x \in ids[c] \ todo[c] : Collected(c, x)
    BY <2>1, <2>3 DEF AllCollected
  <2>5. \A x : Collected(c, x)' <=> Collected(c, x)
    BY <2>1 DEF Collected
  <2>6. AskedAnswers' /\ AllCollected'
    BY <2>1, <2>4, <2>5, FoundLocal
  <2> QED BY <1>1, <1>3, <1>4, <2>1, <2>6
<1>10. ASSUME NEW result, ReturnFromGet(c, result) \/ ReturnWithoutGet(c, result)
       PROVE  FoundInv'
  <2>1. pc'[c] = "idle" /\ ids'[c] = {} /\ UNCHANGED <<queryables, inbox>>
    BY <1>10 DEF ReturnFromGet, ReturnWithoutGet, Return, zenohVars
  <2>2. AskedAnswers' /\ AllCollected'
    BY <2>1, FoundLocal
  <2> QED BY <1>1, <1>3, <1>4, <2>1, <2>2
<1> QED BY <1>2, <1>5, <1>6, <1>7, <1>8, <1>9, <1>10, ClientListens

LEMMA FoundInit == Init => FoundInv
BY DEF Init, ZenohInit, ServerInit, ClientInit, NoGet, FoundInv, Undisturbed, IdsReached,
       KindsAddressed, HeldQueries, TasksTell, AskedAnswers, AllCollected

LEMMA FoundStep ==
  ASSUME GoodDay, TypeInv, RoutingInv, AdvertisingInv, FoundInv, [CalmNext]_vars
  PROVE  FoundInv'
<1>1. CASE UNCHANGED vars
  <2>1. /\ \A c, z : Collected(c, z)' <=> Collected(c, z)
        /\ \A c, z : Asking(c, z)' <=> Asking(c, z)
    BY <1>1 DEF vars, zenohVars, clientVars, Collected, Asking, GetId, CurrentCall, Tells
  <2>2. AskedAnswers' /\ AllCollected'
    BY <1>1, <2>1 DEF vars, zenohVars, clientVars, FoundInv, AskedAnswers, AllCollected
  <2> QED BY <1>1, <2>2 DEF vars, zenohVars, clientVars, serverVars, FoundInv, Undisturbed, Running,
                           IdsReached, KindsAddressed, HeldQueries, ForMetadata, ForCall,
                           TasksTell, Tells
<1> QED BY <1>1, FoundServer, FoundClient DEF CalmNext

LEMMA FoundInvariance ==
  ASSUME GoodDay
  PROVE  CalmSpec => []FoundInv
<1>1. TypeInv /\ RoutingInv /\ AdvertisingInv /\ FoundInv /\ [CalmNext]_vars => FoundInv'
  BY FoundStep
<1>2. Interchangeable
  BY DEF GoodDay
<1>3. CalmSpec => [](TypeInv /\ RoutingInv /\ AdvertisingInv)
  BY <1>2, CalmIsSpec, TypeInvariance, RoutingInvariance, AdvertisingInvariance, PTL
<1> QED BY <1>1, <1>3, FoundInit, PTL DEF CalmSpec

\* On a good day every server that a client found, and that has the labels it
\* needs, is among the candidates once its metadata is in.
THEOREM FoundCorrect ==
  ASSUME GoodDay
  PROVE  CalmSpec => []FoundIsReached
<1>1. ASSUME TypeInv, RoutingInv, FoundInv
      PROVE  FoundIsReached
  <2> SUFFICES ASSUME NEW c \in Client, pc[c] = "collecting", NEW s \in Server,
                      ZidOf[s] \in ids[c] \ todo[c], Suitable(c, s)
               PROVE  \E i \in Eligible(c) : metas[c][i].id = ZidOf[s]
    BY DEF FoundIsReached
  <2>1. PICK i \in DOMAIN metas[c] : metas[c][i].id = ZidOf[s]
    BY <1>1 DEF FoundInv, AllCollected, Collected
  <2>2. metas[c][i].labels = LabelsOf[s]
    BY <1>1, <2>1 DEF RoutingInv, MetasTrue, Truthful
  <2>3. i \in Eligible(c)
    BY <2>2 DEF Eligible, Suitable
  <2> QED BY <2>1, <2>3
<1>2. Interchangeable
  BY DEF GoodDay
<1>3. CalmSpec => [](TypeInv /\ RoutingInv)
  BY <1>2, CalmIsSpec, TypeInvariance, RoutingInvariance, PTL
<1> QED BY <1>1, <1>3, FoundInvariance, PTL
=============================================================================
