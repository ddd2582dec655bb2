---------------------------- MODULE ZrpcQueries -----------------------------
(***************************************************************************)
(* What becomes of the queries of a call, for every value of the           *)
(* constants: none is lost without its client being told, an Ok result is  *)
(* what a handler computed for that very call, serve() only ever ends      *)
(* because of a client that made up its own query, and on a good day       *)
(* callers hear exactly what the handlers answered.                        *)
(***************************************************************************)
EXTENDS ZrpcRouting

-----------------------------------------------------------------------------
(* Nothing is lost unnoticed.                                              *)

\* Whoever client c waits for after a step, it waited for before, for the same
\* get, unless the get is new.
StillOpen(c) == open'[c].id = open[c].id /\ open'[c].pending \subseteq open[c].pending

\* Server s still holds what it held, or its process has just died.
StillHeld(s) == HeldQueries(s) \subseteq HeldQueries(s)' \/ phase'[s] = "crashed"

\* Spawning a task moves its query from the channel to the task.
LEMMA SpawnKeeps ==
  ASSUME TypeInv, NEW s \in Server, Receivable(s), NEW reply, Spawn(s, reply), NEW r \in Server
  PROVE  HeldQueries(r) \subseteq HeldQueries(r)'
<1> USE DEF TypeInv, TypeOK, ZenohTypeOK, ServerTypeOK
<1>1. CASE r = s
  <2>1. inbox[s] \in Seq(Query) /\ inbox[s] # <<>>
    BY DEF Receivable
  <2>2. /\ tasks'[s] = tasks[s] \cup {[query |-> Head(inbox[s]), reply |-> reply]}
        /\ inbox'[s] = Tail(inbox[s])
    BY DEF Spawn
  <2>3. Head(inbox[s]) \in HeldQueries(s)'
    <3>1. [query |-> Head(inbox[s]), reply |-> reply] \in tasks'[s]
      BY <2>2
    <3>2. [query |-> Head(inbox[s]), reply |-> reply].query = Head(inbox[s])
      OBVIOUS
    <3> QED BY <3>1, <3>2 DEF HeldQueries
  <2>4. ASSUME NEW i \in DOMAIN inbox[s] PROVE inbox[s][i] \in HeldQueries(s)'
    <3>1. i \in 1..Len(inbox[s]) /\ Len(inbox[s]) \in Nat
      BY <2>1, LenProperties
    <3>2. CASE i = 1
      BY <2>1, <2>3, <3>2, HeadTailElement
    <3>3. CASE i # 1
      <4>1. /\ Tail(inbox[s]) \in Seq(Query) /\ Len(Tail(inbox[s])) = Len(inbox[s]) - 1
            /\ \A j \in 1..Len(Tail(inbox[s])) : Tail(inbox[s])[j] = inbox[s][j + 1]
        BY <2>1, HeadTailProperties
      <4>2. i - 1 \in 1..Len(Tail(inbox[s])) /\ (i - 1) + 1 = i
        BY <3>1, <3>3, <4>1
      <4>3. i - 1 \in DOMAIN Tail(inbox[s]) /\ Tail(inbox[s])[i - 1] = inbox[s][i]
        BY <4>1, <4>2, LenProperties
      <4> QED BY <2>2, <4>3 DEF HeldQueries
    <3> QED BY <3>2, <3>3
  <2>5. \A t \in tasks[s] : t.query \in HeldQueries(s)'
    BY <2>2 DEF HeldQueries
  <2>6. HeldQueries(s) \subseteq HeldQueries(s)'
    BY <2>4, <2>5 DEF HeldQueries
  <2> QED BY <1>1, <2>6
<1>2. CASE r # s
  <2>1. tasks'[r] = tasks[r] /\ inbox'[r] = inbox[r]
    BY <1>2 DEF Spawn
  <2> QED BY <2>1 DEF HeldQueries
<1> QED BY <1>1, <1>2

\* A task that has computed its reply still owns its query.
LEMMA FinishKeeps ==
  ASSUME TypeInv, NEW s \in Server, NEW t \in tasks[s], NEW reply, Finish(s, t, reply),
         UNCHANGED inbox, NEW r \in Server
  PROVE  HeldQueries(r) \subseteq HeldQueries(r)'
<1>1. t \in [query : Query, reply : Reply \cup {Pending}]
  BY DEF TypeInv, TypeOK, ServerTypeOK, Task
<1>2. [t EXCEPT !.reply = reply].query = t.query
  BY <1>1
<1>3. \/ tasks'[r] = tasks[r]
      \/ r = s /\ tasks'[r] = (tasks[r] \ {t}) \cup {[t EXCEPT !.reply = reply]}
  BY DEF Finish, TypeInv, TypeOK, ServerTypeOK
<1> QED BY <1>2, <1>3 DEF HeldQueries

\* A task that ends gives up its query only: what the server held for any other
\* get it still holds.
LEMMA EndedKeeps ==
  ASSUME TypeInv, NEW s \in Server, NEW t \in tasks[s],
         tasks' = [tasks EXCEPT ![s] = @ \ {t}], UNCHANGED inbox, NEW r \in Server
  PROVE  \A q \in HeldQueries(r) : q \in HeldQueries(r)' \/ (r = s /\ q = t.query)
<1>1. \/ tasks'[r] = tasks[r]
      \/ r = s /\ tasks'[r] = tasks[r] \ {t}
  BY DEF TypeInv, TypeOK, ServerTypeOK
<1> QED BY <1>1 DEF HeldQueries

\* PendingIsHeld survives a step that opens no get and loses no query.
LEMMA PendingKept ==
  ASSUME TypeInv, PendingIsHeld, \A c \in Client : StillOpen(c),
         \A s \in Server : StillHeld(s) /\ (phase[s] = "crashed" => phase'[s] = "crashed")
  PROVE  PendingIsHeld'
<1> SUFFICES ASSUME NEW c \in Client, NEW s \in open'[c].pending
             PROVE  \/ \E q \in HeldQueries(s)' : q.id = open'[c].id
                    \/ phase'[s] = "crashed"
  BY DEF PendingIsHeld
<1>1. open'[c].id = open[c].id /\ s \in open[c].pending
  BY DEF StillOpen
<1>2. s \in Server
  BY <1>1 DEF TypeInv, TypeOK, ZenohTypeOK, OpenGet
<1>3. (\E q \in HeldQueries(s) : q.id = open[c].id) \/ phase[s] = "crashed"
  BY <1>1 DEF PendingIsHeld
<1> QED BY <1>1, <1>2, <1>3 DEF StillHeld

LEMMA DroppingOpen ==
  ASSUME TypeInv, NEW S, NEW qs, open' = Dropping(S, qs), NEW c \in Client
  PROVE  StillOpen(c) /\ (open[c].id \in qs => open'[c].pending \cap S = {})
BY DEF TypeInv, TypeOK, ZenohTypeOK, OpenGet, Dropping, StillOpen

LEMMA AnsweringOpen ==
  ASSUME TypeInv, NEW s, NEW id, NEW reply, open' = Answering(s, id, reply), NEW c \in Client
  PROVE  StillOpen(c) /\ (open[c].id = id => s \notin open'[c].pending)
BY DEF TypeInv, TypeOK, ZenohTypeOK, OpenGet, Answering, StillOpen

\* serve() tells Zenoh of the queries it drops when it ends.
LEMMA EndsPending ==
  ASSUME TypeInv, PendingIsHeld, NEW s \in Server, phase[s] # "crashed", UNCHANGED tasks,
         \A r \in Server : r # s => phase'[r] = phase[r] /\ inbox'[r] = inbox[r],
         open' = Dropping({s}, IdsOf(inbox[s]))
  PROVE  PendingIsHeld'
<1> SUFFICES ASSUME NEW c \in Client, NEW r \in open'[c].pending
             PROVE  \/ \E q \in HeldQueries(r)' : q.id = open'[c].id
                    \/ phase'[r] = "crashed"
  BY DEF PendingIsHeld
<1>1. /\ open'[c].id = open[c].id /\ r \in open[c].pending
      /\ open[c].id \in IdsOf(inbox[s]) => r # s
  <2>1. /\ StillOpen(c)
        /\ open[c].id \in IdsOf(inbox[s]) => open'[c].pending \cap {s} = {}
    BY DroppingOpen
  <2> QED BY <2>1 DEF StillOpen
<1>2. r \in Server
  BY <1>1 DEF TypeInv, TypeOK, ZenohTypeOK, OpenGet
<1>3. (\E q \in HeldQueries(r) : q.id = open[c].id) \/ phase[r] = "crashed"
  BY <1>1 DEF PendingIsHeld
<1>4. CASE r # s
  BY <1>1, <1>2, <1>3, <1>4 DEF HeldQueries
<1>5. CASE r = s
  <2>1. PICK q \in HeldQueries(s) : q.id = open[c].id
    BY <1>3, <1>5
  <2>2. q \in {t.query : t \in tasks[s]}
    BY <1>1, <1>5, <2>1 DEF HeldQueries, IdsOf
  <2> QED BY <1>1, <1>5, <2>1, <2>2 DEF HeldQueries
<1> QED BY <1>4, <1>5

\* A task that ends has answered, or dropped, the query it owned.
LEMMA EndedPending ==
  ASSUME TypeInv, PendingIsHeld, NEW s \in Server, NEW t \in tasks[s],
         tasks' = [tasks EXCEPT ![s] = @ \ {t}], UNCHANGED <<inbox, phase>>,
         \A c \in Client : /\ StillOpen(c)
                           /\ open[c].id = t.query.id => s \notin open'[c].pending
  PROVE  PendingIsHeld'
<1> SUFFICES ASSUME NEW c \in Client, NEW r \in open'[c].pending
             PROVE  \/ \E q \in HeldQueries(r)' : q.id = open'[c].id
                    \/ phase'[r] = "crashed"
  BY DEF PendingIsHeld
<1>1. /\ open'[c].id = open[c].id /\ r \in open[c].pending
      /\ open[c].id = t.query.id => r # s
  BY DEF StillOpen
<1>2. r \in Server
  BY <1>1 DEF TypeInv, TypeOK, ZenohTypeOK, OpenGet
<1>3. (\E q \in HeldQueries(r) : q.id = open[c].id) \/ phase[r] = "crashed"
  BY <1>1 DEF PendingIsHeld
<1>4. \A q \in HeldQueries(r) : q \in HeldQueries(r)' \/ (r = s /\ q = t.query)
  BY <1>2, EndedKeeps
<1> QED BY <1>1, <1>3, <1>4

\* Zenoh finds out about the queries of a process that died when its lease ends.
LEMMA DiesPending ==
  ASSUME TypeInv, PendingIsHeld, NEW z, ProcessDies(z)
  PROVE  PendingIsHeld'
<1> USE DEF TypeInv, TypeOK, ServerTypeOK, ZenohTypeOK
<1>1. ASSUME NEW s \in Server
      PROVE  StillHeld(s) /\ (phase[s] = "crashed" => phase'[s] = "crashed")
  <2>1. CASE ZidOf[s] = z /\ HasProcess(s)
    BY <2>1 DEF ProcessDies, StillHeld
  <2>2. CASE ~(ZidOf[s] = z /\ HasProcess(s))
    BY <2>2 DEF ProcessDies, StillHeld, HeldQueries
  <2> QED BY <2>1, <2>2
<1>2. \A c \in Client : StillOpen(c)
  BY DEF ProcessDies, StillOpen
<1> QED BY <1>1, <1>2, PendingKept

LEMMA TaskPending ==
  ASSUME TypeInv, PendingIsHeld, NEW s \in Server, TaskStep(s)
  PROVE  PendingIsHeld'
<1> PICK t \in tasks[s] :
       \/ MethodMissing(s, t) \/ MethodUnknown(s, t) \/ RunHandler(s, t)
       \/ HandlerPanics(s, t) \/ SendReply(s, t)
  BY DEF TaskStep
<1>1. CASE MethodMissing(s, t) \/ MethodUnknown(s, t) \/ RunHandler(s, t)
  <2>1. PICK reply : Finish(s, t, reply) /\ UNCHANGED <<inbox, phase, open>>
    BY <1>1 DEF MethodMissing, MethodUnknown, RunHandler, zenohVars
  <2>2. \A r \in Server : HeldQueries(r) \subseteq HeldQueries(r)'
    BY <2>1, FinishKeeps
  <2> QED BY <2>1, <2>2, PendingKept DEF StillHeld, StillOpen
<1>2. CASE HandlerPanics(s, t)
  <2>1. CASE ProcessDies(ZidOf[s])
    BY <2>1, DiesPending
  <2>2. CASE /\ tasks' = [tasks EXCEPT ![s] = @ \ {t}]
             /\ open' = Dropping({s}, {t.query.id})
             /\ UNCHANGED <<phase, declared, held, counter, executed, queryables, inbox>>
    <3>1. \A c \in Client : /\ StillOpen(c)
                            /\ open[c].id = t.query.id => s \notin open'[c].pending
      BY <2>2, DroppingOpen
    <3> QED BY <2>2, <3>1, EndedPending
  <2> QED BY <1>2, <2>1, <2>2 DEF HandlerPanics
<1>3. CASE SendReply(s, t)
  <2>1. \A c \in Client : /\ StillOpen(c)
                          /\ open[c].id = t.query.id => s \notin open'[c].pending
    BY <1>3, AnsweringOpen DEF SendReply
  <2> QED BY <1>3, <2>1, EndedPending DEF SendReply
<1> QED BY <1>1, <1>2, <1>3

LEMMA ServePending ==
  ASSUME TypeInv, PendingIsHeld, NEW s \in Server,
         DeclareQueryable(s) \/ ServeProgress(s) \/ ServeCutShort(s)
  PROVE  PendingIsHeld'
<1>1. CASE ReceiveServiceCall(s) \/ ReceiveMetadata(s) \/ ReceiveUnknown(s)
  <2>1. PICK reply : Receivable(s) /\ Spawn(s, reply)
    BY <1>1 DEF ReceiveServiceCall, ReceiveMetadata, ReceiveUnknown
  <2>2. \A r \in Server : HeldQueries(r) \subseteq HeldQueries(r)'
    BY <2>1, SpawnKeeps
  <2> QED BY <2>1, <2>2, PendingKept DEF Spawn, StillHeld, StillOpen
<1>2. CASE TokenRefused(s) \/ AbortServe(s) \/ ReceiveEndsServe(s)
  <2>1. ServeEnds(s) /\ phase[s] # "crashed"
    BY <1>2 DEF TokenRefused, AbortServe, ReceiveEndsServe, Receivable, Running
  <2>2. \A r \in Server : r # s => phase'[r] = phase[r] /\ inbox'[r] = inbox[r]
    BY <2>1 DEF ServeEnds, TypeInv, TypeOK, ServerTypeOK, ZenohTypeOK
  <2> QED BY <2>1, <2>2, EndsPending DEF ServeEnds
<1>3. CASE DeclareQueryable(s) \/ QueryableRefused(s) \/ DeclareToken(s) \/ EnterLoop(s)
  <2>1. /\ UNCHANGED <<inbox, tasks, open>>
        /\ \A r \in Server : phase[r] = "crashed" => phase'[r] = "crashed"
    BY <1>3 DEF DeclareQueryable, QueryableRefused, DeclareToken, EnterLoop, zenohVars,
                TypeInv, TypeOK, ServerTypeOK
  <2> QED BY <2>1, PendingKept DEF StillHeld, StillOpen, HeldQueries
<1> QED BY <1>1, <1>2, <1>3 DEF ServeProgress, ServeCutShort

\* Nobody waits for servers whose session is known to be gone.
LEMMA GonePending ==
  ASSUME TypeInv, PendingIsHeld, NEW S \in SUBSET Server, Gone(S),
         open' = [c \in Client |-> [open[c] EXCEPT !.pending = @ \ S]]
  PROVE  PendingIsHeld'
<1> SUFFICES ASSUME NEW c \in Client, NEW r \in open'[c].pending
             PROVE  \/ \E q \in HeldQueries(r)' : q.id = open'[c].id
                    \/ phase'[r] = "crashed"
  BY DEF PendingIsHeld
<1> USE DEF TypeInv, TypeOK, ServerTypeOK, ZenohTypeOK
<1>1. open'[c].id = open[c].id /\ r \in open[c].pending /\ r \notin S
  BY DEF OpenGet
<1>2. r \in Server
  BY <1>1 DEF OpenGet
<1>3. (\E q \in HeldQueries(r) : q.id = open[c].id) \/ phase[r] = "crashed"
  BY <1>1 DEF PendingIsHeld
<1>4. phase'[r] = phase[r] /\ inbox'[r] = inbox[r] /\ tasks'[r] = tasks[r]
  BY <1>1, <1>2 DEF Gone
<1> QED BY <1>1, <1>3, <1>4 DEF HeldQueries

LEMMA ServerPending ==
  ASSUME TypeInv, PendingIsHeld, ServerNext
  PROVE  PendingIsHeld'
<1>1. ASSUME NEW s \in Server, DropServer(s)
      PROVE  PendingIsHeld'
  <2>1. /\ UNCHANGED <<inbox, tasks, open>>
        /\ \A r \in Server : phase[r] = "crashed" => phase'[r] = "crashed"
    BY <1>1 DEF DropServer, Alive, zenohVars, TypeInv, TypeOK, ServerTypeOK
  <2> QED BY <2>1, PendingKept DEF StillHeld, StillOpen, HeldQueries
<1>2. ASSUME NEW z \in Zid, CloseSession(z) \/ LeaseExpires(z)
      PROVE  PendingIsHeld'
  BY <1>2, GonePending DEF CloseSession, LeaseExpires
<1>3. ASSUME NEW z \in Crashable, Crash(z)
      PROVE  PendingIsHeld'
  BY <1>3, DiesPending DEF Crash
<1> QED BY <1>1, <1>2, <1>3, ServePending, TaskPending DEF ServerNext

\* A get is waited for at the servers that have just received it.
LEMMA GetPending ==
  ASSUME TypeInv, PendingIsHeld, NEW c \in Client, NEW id \in QueryId,
         NEW ke \in Seq(KeyToken), NEW body \in Body, Get(c, id, ke, body), UNCHANGED serverVars
  PROVE  PendingIsHeld'
<1> USE DEF TypeInv, TypeOK, ZenohTypeOK
<1> DEFINE query == [id |-> id, ke |-> ke, body |-> body]
<1>1. query \in Query
  BY DEF Query
<1>2. ASSUME NEW s \in Server
      PROVE  /\ HeldQueries(s) \subseteq HeldQueries(s)'
             /\ s \in Matching(ke) => query \in HeldQueries(s)'
  <2>1. inbox[s] \in Seq(Query)
    OBVIOUS
  <2>2. CASE s \in Matching(ke)
    <3> HIDE DEF query
    <3>1. inbox'[s] = Append(inbox[s], query)
      BY <2>2 DEF Get, query
    <3>2. /\ Len(inbox'[s]) = Len(inbox[s]) + 1 /\ inbox'[s] \in Seq(Query)
          /\ \A i \in 1..Len(inbox[s]) : inbox'[s][i] = inbox[s][i]
          /\ inbox'[s][Len(inbox[s]) + 1] = query
      BY <1>1, <2>1, <3>1, AppendProperties
    <3>3. /\ DOMAIN inbox[s] = 1..Len(inbox[s]) /\ Len(inbox[s]) \in Nat
          /\ DOMAIN inbox'[s] = 1..(Len(inbox[s]) + 1)
      BY <2>1, <3>2, LenProperties
    <3>4. query \in HeldQueries(s)'
      <4>1. Len(inbox[s]) + 1 \in DOMAIN inbox'[s]
        BY <3>3
      <4> QED BY <3>2, <4>1 DEF HeldQueries
    <3>5. \A i \in DOMAIN inbox[s] : i \in DOMAIN inbox'[s] /\ inbox'[s][i] = inbox[s][i]
      BY <3>2, <3>3
    <3>6. HeldQueries(s) \subseteq HeldQueries(s)'
      BY <3>5 DEF HeldQueries, serverVars
    <3> QED BY <3>4, <3>6
  <2>3. CASE s \notin Matching(ke)
    BY <2>3 DEF Get, HeldQueries, serverVars
  <2> QED BY <2>2, <2>3
<1>3. ASSUME NEW d \in Client, NEW s \in open'[d].pending
      PROVE  \/ \E q \in HeldQueries(s)' : q.id = open'[d].id
             \/ phase'[s] = "crashed"
  <2>1. CASE d = c
    <3>1. open'[d].id = id /\ s \in Matching(ke)
      BY <1>3, <2>1 DEF Get
    <3>2. query.id = id /\ query \in HeldQueries(s)'
      BY <1>2, <3>1 DEF Matching
    <3> QED BY <3>1, <3>2
  <2>2. CASE d # c
    <3>1. open'[d] = open[d]
      BY <2>2 DEF Get
    <3>2. s \in Server
      BY <1>3, <3>1 DEF OpenGet
    <3>3. (\E q \in HeldQueries(s) : q.id = open[d].id) \/ phase[s] = "crashed"
      BY <1>3, <3>1 DEF PendingIsHeld
    <3> QED BY <1>2, <3>1, <3>2, <3>3 DEF serverVars
  <2> QED BY <2>1, <2>2
<1> QED BY <1>3 DEF PendingIsHeld

LEMMA ClientPending ==
  ASSUME TypeInv, PendingIsHeld, NEW c \in Client,
         StartCall(c) \/ ClientProgress(c) \/ Interrupted(c), UNCHANGED serverVars
  PROVE  PendingIsHeld'
<1> USE DEF TypeInv, TypeOK, ZenohTypeOK
<1>1. CASE RawGet(c) \/ AskMetadata(c) \/ SendCall(c)
  BY <1>1, ClientGets, GetPending
<1>2. ASSUME UNCHANGED inbox,
             \A d \in Client : \/ open'[d].pending = {}
                               \/ open'[d].id = open[d].id /\ open'[d].pending = open[d].pending
      PROVE  PendingIsHeld'
  BY <1>2 DEF PendingIsHeld, HeldQueries, serverVars
<1>3. CASE TakeMetadata(c)
  BY <1>2, <1>3 DEF TakeMetadata, OpenGet
<1>4. CASE MetadataClosed(c)
  BY <1>2, <1>4 DEF MetadataClosed, NoGet
<1>5. CASE \E result : ReturnFromGet(c, result)
  BY <1>2, <1>5 DEF ReturnFromGet, NoGet
<1>6. CASE UNCHANGED zenohVars
  BY <1>2, <1>6 DEF zenohVars
<1> QED BY <1>1, <1>3, <1>4, <1>5, <1>6, ClientListens DEF Discover, ReturnWithoutGet

LEMMA PendingStep ==
  ASSUME TypeInv, PendingIsHeld, [Next]_vars
  PROVE  PendingIsHeld'
<1>1. CASE \E c \in Client : QueryTimeout(c) /\ UNCHANGED <<serverVars, clientVars>>
  <2>1. /\ UNCHANGED inbox
        /\ \A d \in Client : \/ open'[d].pending = {}
                             \/ open'[d].id = open[d].id /\ open'[d].pending = open[d].pending
    BY <1>1 DEF QueryTimeout, TypeInv, TypeOK, ZenohTypeOK, OpenGet
  <2> QED BY <1>1, <2>1 DEF PendingIsHeld, HeldQueries, serverVars
<1>2. CASE UNCHANGED vars
  BY <1>2 DEF vars, zenohVars, serverVars, PendingIsHeld, HeldQueries
<1> QED BY <1>1, <1>2, ServerPending, ClientPending DEF Next

\* No path through serve(), a task or the end of a server loses a query without
\* its client being told, but for a crash that Zenoh has yet to notice.
THEOREM PendingCorrect == Spec => []PendingIsHeld
<1>1. Init => PendingIsHeld
  BY DEF Init, ZenohInit, NoGet, PendingIsHeld
<1>2. TypeInv /\ PendingIsHeld /\ [Next]_vars => PendingIsHeld'
  BY PendingStep
<1> QED BY <1>1, <1>2, TypeInvariance, PTL DEF Spec

-----------------------------------------------------------------------------
(* What a step of a server does with its queries, tasks and executions.    *)

\* Whoever has a queryable serves or has crashed; nobody else has queries in its
\* channel.
QueryableInv ==
  \A s \in Server : IF s \in queryables THEN Running(s) \/ phase[s] = "crashed"
                                        ELSE inbox[s] = <<>> /\ ~Running(s)

LEMMA QueryableStep ==
  ASSUME TypeInv, QueryableInv, [Next]_vars
  PROVE  QueryableInv'
<1> USE DEF TypeInv, TypeOK, ServerTypeOK, ZenohTypeOK, QueryableInv, Running
<1>1. ASSUME UNCHANGED phase,
             \A s \in Server : /\ s \in queryables' <=> s \in queryables
                               /\ s \notin queryables => inbox'[s] = <<>>
      PROVE  QueryableInv'
  BY <1>1
<1>2. ASSUME NEW s \in Server, ServeEnds(s)
      PROVE  QueryableInv'
  BY <1>2 DEF ServeEnds
<1>3. ASSUME NEW s \in Server, DeclareQueryable(s) \/ ServeProgress(s) \/ ServeCutShort(s)
      PROVE  QueryableInv'
  <2>1. CASE ReceiveServiceCall(s) \/ ReceiveMetadata(s) \/ ReceiveUnknown(s)
    <3>1. UNCHANGED <<phase, queryables>> /\ phase[s] = "serving"
      BY <2>1 DEF ReceiveServiceCall, ReceiveMetadata, ReceiveUnknown, Spawn, Receivable
    <3>2. \A r \in Server : r # s => inbox'[r] = inbox[r]
      BY <2>1 DEF ReceiveServiceCall, ReceiveMetadata, ReceiveUnknown, Spawn
    <3> QED BY <3>1, <3>2
  <2>2. CASE DeclareQueryable(s)
    BY <2>2 DEF DeclareQueryable
  <2>3. CASE QueryableRefused(s)
    BY <2>3 DEF QueryableRefused, zenohVars
  <2>4. CASE DeclareToken(s) \/ EnterLoop(s)
    BY <2>4 DEF DeclareToken, EnterLoop, zenohVars
  <2> QED BY <1>2, <1>3, <2>1, <2>2, <2>3, <2>4
          DEF ServeProgress, ServeCutShort, TokenRefused, AbortServe, ReceiveEndsServe
<1>4. ASSUME NEW z, ProcessDies(z)
      PROVE  QueryableInv'
  BY <1>4 DEF ProcessDies, HasProcess, Started, Alive
<1>5. ASSUME NEW S \in SUBSET Server, Gone(S)
      PROVE  QueryableInv'
  BY <1>5 DEF Gone
<1>6. ASSUME NEW s \in Server, TaskStep(s)
      PROVE  QueryableInv'
  BY <1>1, <1>4, <1>6
     DEF TaskStep, MethodMissing, MethodUnknown, RunHandler, HandlerPanics, SendReply, zenohVars
<1>7. ASSUME ServerNext
      PROVE  QueryableInv'
  <2>1. ASSUME NEW s \in Server, DropServer(s) PROVE QueryableInv'
    BY <2>1 DEF DropServer, Alive, zenohVars
  <2>2. ASSUME NEW z \in Zid, CloseSession(z) \/ LeaseExpires(z) PROVE QueryableInv'
    BY <1>5, <2>2 DEF CloseSession, LeaseExpires
  <2>3. ASSUME NEW z \in Crashable, Crash(z) PROVE QueryableInv'
    BY <1>4, <2>3 DEF Crash
  <2> QED BY <1>3, <1>6, <1>7, <2>1, <2>2, <2>3 DEF ServerNext
<1>8. ASSUME NEW c \in Client, StartCall(c) \/ ClientProgress(c) \/ Interrupted(c),
             UNCHANGED serverVars
      PROVE  QueryableInv'
  <2>1. CASE RawGet(c) \/ AskMetadata(c) \/ SendCall(c)
    <3>1. PICK id, ke, body : Get(c, id, ke, body)
      BY <2>1, ClientGets
    <3> QED BY <1>1, <1>8, <3>1 DEF Get, Matching, serverVars
  <2>2. UNCHANGED <<queryables, inbox>> \/ RawGet(c) \/ AskMetadata(c) \/ SendCall(c)
    BY <1>8, ClientListens DEF Discover, TakeMetadata, MetadataClosed, ReturnFromGet,
                               ReturnWithoutGet, zenohVars
  <2> QED BY <1>1, <1>8, <2>1, <2>2 DEF serverVars
<1>9. CASE \E c \in Client : QueryTimeout(c) /\ UNCHANGED <<serverVars, clientVars>>
  BY <1>1, <1>9 DEF QueryTimeout, serverVars
<1>10. CASE UNCHANGED vars
  BY <1>1, <1>10 DEF vars, serverVars, zenohVars
<1> QED BY <1>7, <1>8, <1>9, <1>10 DEF Next

\* The channel is emptied when serve() ends and stays empty until the next.
THEOREM QueryableInvariance == Spec => []QueryableInv
<1>1. Init => QueryableInv
  BY DEF Init, ZenohInit, ServerInit, QueryableInv, Running
<1>2. TypeInv /\ QueryableInv /\ [Next]_vars => QueryableInv'
  BY QueryableStep
<1> QED BY <1>1, <1>2, TypeInvariance, PTL DEF Spec

\* A reply that carries no value computed by a handler.
NoValue(reply) == reply.kind = "sample" => reply.payload.kind # "value"

\* Nothing is executed, no task computes a reply and none is spawned.
Sheds ==
  /\ UNCHANGED executed
  /\ \A s \in Server :
       /\ tasks'[s] \subseteq tasks[s]
       /\ inbox'[s] = <<>> \/ (inbox'[s] = inbox[s] /\ (Running(s)' => Running(s)))

\* A task is spawned for a call, or with the reply that it is to send.
Spawns(s) ==
  /\ Receivable(s)
  /\ \/ Spawn(s, Pending) /\ IsEndpoint(Head(inbox[s]).ke, "service")
     \/ \E reply \in Reply : Spawn(s, reply) /\ NoValue(reply)

\* A task computes its reply without a handler.
Computes(s, t) ==
  /\ \E reply \in Reply : Finish(s, t, reply) /\ NoValue(reply)
  /\ UNCHANGED <<phase, executed, inbox>>

\* Every step of a server is one of these four.
LEMMA ServerShapes ==
  ASSUME TypeInv, QueryableInv, ServerNext
  PROVE  \/ Sheds
         \/ \E s \in Server : Spawns(s)
         \/ \E s \in Server : \E t \in tasks[s] : Computes(s, t) \/ RunHandler(s, t)
<1> USE DEF TypeInv, TypeOK, ServerTypeOK, ZenohTypeOK
<1>1. ASSUME NEW s \in Server, ServeEnds(s)
      PROVE  Sheds
  BY <1>1 DEF ServeEnds, Sheds, Running
<1>2. ASSUME NEW s \in Server,
             DeclareQueryable(s) \/ QueryableRefused(s) \/ DeclareToken(s) \/ EnterLoop(s)
      PROVE  Sheds
  BY <1>2 DEF DeclareQueryable, QueryableRefused, DeclareToken, EnterLoop, zenohVars, Sheds,
              Running, QueryableInv
<1>3. ASSUME NEW s \in Server, ReceiveServiceCall(s) \/ ReceiveMetadata(s) \/ ReceiveUnknown(s)
      PROVE  Spawns(s)
  BY <1>3, SampleType DEF ReceiveServiceCall, ReceiveMetadata, ReceiveUnknown, Spawns,
                          NoValue, Sample, NoPayload, Metadata
<1>4. ASSUME NEW z, ProcessDies(z)
      PROVE  Sheds
  BY <1>4 DEF ProcessDies, Sheds, Running
<1>5. ASSUME NEW S \in SUBSET Server, Gone(S)
      PROVE  Sheds
  BY <1>5 DEF Gone, Sheds, Running
<1>6. ASSUME NEW s \in Server, NEW t \in tasks[s],
             MethodMissing(s, t) \/ MethodUnknown(s, t)
      PROVE  Computes(s, t)
  BY <1>6, SampleType DEF MethodMissing, MethodUnknown, Computes, NoValue, Sample, NoPayload,
                          zenohVars
<1>7. ASSUME NEW s \in Server, NEW t \in tasks[s], HandlerPanics(s, t) \/ SendReply(s, t)
      PROVE  Sheds
  <2>1. CASE tasks' = [tasks EXCEPT ![s] = @ \ {t}] /\ UNCHANGED <<phase, executed, inbox>>
    BY <2>1 DEF Sheds, Running
  <2> QED BY <1>4, <1>7, <2>1 DEF HandlerPanics, SendReply
<1>8. ASSUME NEW s \in Server, DropServer(s) PROVE Sheds
  BY <1>8 DEF DropServer, zenohVars, Sheds, Running
<1>9. ASSUME NEW z \in Zid, CloseSession(z) \/ LeaseExpires(z) PROVE Sheds
  BY <1>5, <1>9 DEF CloseSession, LeaseExpires
<1>10. ASSUME NEW z \in Crashable, Crash(z) PROVE Sheds
  BY <1>4, <1>10 DEF Crash
<1>11. ASSUME NEW s \in Server, DeclareQueryable(s) \/ ServeProgress(s) \/ ServeCutShort(s)
       PROVE  Sheds \/ Spawns(s)
  BY <1>1, <1>2, <1>3, <1>11 DEF ServeProgress, ServeCutShort, TokenRefused, AbortServe, ReceiveEndsServe
<1>12. ASSUME NEW s \in Server, TaskStep(s)
       PROVE  Sheds \/ \E t \in tasks[s] : Computes(s, t) \/ RunHandler(s, t)
  BY <1>6, <1>7, <1>12 DEF TaskStep
<1> QED BY <1>8, <1>9, <1>10, <1>11, <1>12 DEF ServerNext

-----------------------------------------------------------------------------
(* An Ok is what a handler answered.                                       *)

\* A reply to get id carries a value only if a handler computed it for that get.
Answered(id, reply) ==
  reply.kind = "sample" => (reply.payload.kind = "value" =>
    \E e \in executed : e.id = id /\ e.value = reply.payload.value)

TasksAnswered == \A s \in Server : \A t \in tasks[s] : Answered(t.query.id, t.reply)

RepliesAnswered ==
  \A c \in Client : \A i \in DOMAIN open[c].replies : Answered(open[c].id, open[c].replies[i])

\* While a client calls, the reply channel it listens to is that of its own
\* current call.
OpenIsMine ==
  \A c \in Client : pc[c] = "calling" =>
    open[c].id.client = c /\ open[c].id.call = CurrentCall(c)

OkInv == TasksAnswered /\ RepliesAnswered /\ OpenIsMine /\ OkIsExecuted

\* Executions are never forgotten, so what was answered stays answered.
LEMMA AnsweredStays ==
  ASSUME executed \subseteq executed', NEW id, NEW reply, Answered(id, reply)
  PROVE  Answered(id, reply)'
BY DEF Answered

\* The tasks of a server after its handler ran: t has its reply, and what it
\* replies is what was recorded as executed.
LEMMA HandlerAnswers ==
  ASSUME TypeInv, NEW s \in Server, NEW t \in tasks[s], RunHandler(s, t)
  PROVE  /\ UNCHANGED inbox
         /\ executed' = executed \cup
                          {[id |-> t.query.id, server |-> s, value |-> counter[s] + 1]}
         /\ \A r \in Server : \A u \in tasks'[r] :
              \/ u \in tasks[r] /\ (r = s => u # t)
              \/ r = s /\ u.query = t.query /\ u.reply # Pending /\ Answered(u.query.id, u.reply)'
<1> USE DEF TypeInv, TypeOK, ServerTypeOK
<1>1. PICK outcome \in Outcomes : Finish(s, t, HandlerReply(outcome, counter[s] + 1))
  BY DEF RunHandler
<1> DEFINE reply == HandlerReply(outcome, counter[s] + 1)
           e == [id |-> t.query.id, server |-> s, value |-> counter[s] + 1]
           u == [t EXCEPT !.reply = reply]
<1>2. executed' = executed \cup {e} /\ e.id = t.query.id /\ e.value = counter[s] + 1
  BY DEF RunHandler
<1>3. reply \in Reply /\ reply # Pending
  BY HandlerReplyType, ReplyNotPending
<1>4. reply.payload.kind = "value" => reply.payload.value = counter[s] + 1
  BY DEF HandlerReply, Sample, Value, NoPayload, Opaque
<1>5. u.query = t.query /\ u.reply = reply
  BY DEF Task
<1>6. reply.payload.kind = "value" =>
        \E x \in executed' : x.id = t.query.id /\ x.value = reply.payload.value
  BY <1>2, <1>4
<1>7. tasks'[s] = (tasks[s] \ {t}) \cup {u} /\ \A r \in Server : r # s => tasks'[r] = tasks[r]
  BY <1>1 DEF Finish
<1>8. UNCHANGED inbox
  BY DEF RunHandler, zenohVars
<1>9. ASSUME NEW r \in Server, NEW w \in tasks'[r]
      PROVE  \/ w \in tasks[r] /\ (r = s => w # t)
             \/ r = s /\ w.query = t.query /\ w.reply # Pending /\ Answered(w.query.id, w.reply)'
  <2> HIDE DEF reply, e, u
  <2>1. CASE r = s /\ w = u
    BY <1>3, <1>5, <1>6, <2>1 DEF Answered
  <2>2. CASE ~(r = s /\ w = u)
    BY <1>7, <1>9, <2>2
  <2> QED BY <2>1, <2>2
<1> QED BY <1>2, <1>8, <1>9

LEMMA ServerTasksAnswered ==
  ASSUME TypeInv, QueryableInv, TasksAnswered, ServerNext
  PROVE  TasksAnswered' /\ executed \subseteq executed'
<1>1. ASSUME executed \subseteq executed',
             \A r \in Server : \A u \in tasks'[r] :
               u \in tasks[r] \/ u.reply = Pending \/ NoValue(u.reply)
                              \/ Answered(u.query.id, u.reply)'
      PROVE  TasksAnswered'
  <2>1. ASSUME NEW r \in Server, NEW u \in tasks[r]
        PROVE  Answered(u.query.id, u.reply)'
    BY <1>1, <2>1, AnsweredStays DEF TasksAnswered
  <2> QED BY <1>1, <2>1 DEF TasksAnswered, Answered, Pending, NoValue
<1>2. CASE Sheds
  BY <1>1, <1>2 DEF Sheds
<1>3. ASSUME NEW s \in Server, Spawns(s)
      PROVE  TasksAnswered' /\ executed \subseteq executed'
  <2>1. PICK reply : Spawn(s, reply) /\ (reply = Pending \/ NoValue(reply))
    BY <1>3 DEF Spawns
  <2>2. \A r \in Server : \A u \in tasks'[r] : u \in tasks[r] \/ u.reply = reply
    BY <1>3, <2>1, SpawnedTask DEF Spawns
  <2> QED BY <1>1, <2>1, <2>2 DEF Spawn
<1>4. ASSUME NEW s \in Server, NEW t \in tasks[s], Computes(s, t)
      PROVE  TasksAnswered' /\ executed \subseteq executed'
  <2>1. PICK reply \in Reply : Finish(s, t, reply) /\ NoValue(reply)
    BY <1>4 DEF Computes
  <2>2. \A r \in Server : \A u \in tasks'[r] : u \in tasks[r] \/ u.reply = reply
    BY <1>4, <2>1, FinishedTask DEF Computes
  <2> QED BY <1>1, <1>4, <2>1, <2>2 DEF Computes
<1>5. ASSUME NEW s \in Server, NEW t \in tasks[s], RunHandler(s, t)
      PROVE  TasksAnswered' /\ executed \subseteq executed'
  BY <1>1, <1>5, HandlerAnswers
<1> QED BY <1>2, <1>3, <1>4, <1>5, ServerShapes

\* What a step of a server adds to a reply channel is the reply of a task that
\* owned a query of that get.
LEMMA ServerAnswers ==
  ASSUME TypeInv, ServerNext, NEW c \in Client
  PROVE  /\ open'[c].id = open[c].id
         /\ \/ open'[c].replies = open[c].replies
            \/ \E s \in Server : \E t \in tasks[s] :
                 /\ t.reply \in Reply /\ t.query.id = open[c].id
                 /\ open'[c].replies = Append(open[c].replies, t.reply)
<1> USE DEF TypeInv, TypeOK, ZenohTypeOK, ServerTypeOK
<1> DEFINE Same == open'[c].id = open[c].id /\ open'[c].replies = open[c].replies
<1>1. ASSUME NEW S, NEW qs, open' = Dropping(S, qs) PROVE Same
  BY <1>1 DEF Dropping, OpenGet
<1>2. ASSUME NEW S, open' = [d \in Client |-> [open[d] EXCEPT !.pending = @ \ S]] PROVE Same
  BY <1>2 DEF OpenGet
<1>3. ASSUME NEW s \in Server, NEW t \in tasks[s], SendReply(s, t)
      PROVE  /\ open'[c].id = open[c].id
             /\ \/ open'[c].replies = open[c].replies
                \/ /\ t.reply \in Reply /\ t.query.id = open[c].id
                   /\ open'[c].replies = Append(open[c].replies, t.reply)
  <2>1. t.reply \in Reply /\ open[c] \in OpenGet
    BY <1>3 DEF SendReply, Task
  <2>2. CASE open[c].id = t.query.id /\ s \in open[c].pending
    <3>1. open'[c] = [open[c] EXCEPT !.pending = @ \ {s}, !.replies = Append(@, t.reply)]
      BY <1>3, <2>2 DEF SendReply, Answering
    <3> QED BY <2>1, <2>2, <3>1 DEF OpenGet
  <2>3. CASE ~(open[c].id = t.query.id /\ s \in open[c].pending)
    BY <1>3, <2>3 DEF SendReply, Answering
  <2> QED BY <2>2, <2>3
<1>4. ASSUME NEW s \in Server, TaskStep(s)
      PROVE  Same \/ \E t \in tasks[s] : SendReply(s, t)
  <2>1. ASSUME NEW t \in tasks[s], HandlerPanics(s, t) PROVE Same
    BY <1>1, <2>1 DEF HandlerPanics, ProcessDies
  <2> QED BY <1>4, <2>1 DEF TaskStep, MethodMissing, MethodUnknown, RunHandler, zenohVars
<1>5. ASSUME NEW s \in Server, DeclareQueryable(s) \/ ServeProgress(s) \/ ServeCutShort(s)
      PROVE  Same
  <2>1. CASE ServeEnds(s)
    BY <1>1, <2>1 DEF ServeEnds
  <2> QED
    BY <1>5, <2>1
       DEF ServeProgress, ServeCutShort, DeclareQueryable, QueryableRefused, DeclareToken,
           TokenRefused, AbortServe, EnterLoop, ReceiveServiceCall, ReceiveMetadata, ReceiveUnknown,
           ReceiveEndsServe, Spawn, zenohVars
<1>6. ASSUME NEW s \in Server, DropServer(s) PROVE Same
  BY <1>6 DEF DropServer, zenohVars
<1>7. ASSUME NEW z \in Zid, CloseSession(z) \/ LeaseExpires(z) PROVE Same
  BY <1>2, <1>7 DEF CloseSession, LeaseExpires
<1>8. ASSUME NEW z \in Crashable, Crash(z) PROVE Same
  BY <1>8 DEF Crash, ProcessDies
<1> QED BY <1>3, <1>4, <1>5, <1>6, <1>7, <1>8 DEF ServerNext

LEMMA OkServer ==
  ASSUME TypeInv, QueryableInv, OkInv, ServerNext, UNCHANGED clientVars
  PROVE  OkInv'
<1> USE DEF OkInv
<1>1. TasksAnswered' /\ executed \subseteq executed'
  BY ServerTasksAnswered
<1>2. ASSUME NEW c \in Client, NEW i \in DOMAIN open'[c].replies
      PROVE  Answered(open[c].id, open[c].replies[i])'
  <2>1. open'[c].id = open[c].id
    BY ServerAnswers
  <2>2. CASE open'[c].replies = open[c].replies
    <3>1. Answered(open[c].id, open[c].replies[i])
      BY <1>2, <2>2 DEF RepliesAnswered
    <3> QED BY <1>1, <2>1, <2>2, <3>1 DEF Answered
  <2>3. ASSUME NEW s \in Server, NEW t \in tasks[s], t.reply \in Reply, t.query.id = open[c].id,
               open'[c].replies = Append(open[c].replies, t.reply)
        PROVE  Answered(open[c].id, open[c].replies[i])'
    <3>1. Answered(open[c].id, t.reply)
      BY <2>3 DEF TasksAnswered
    <3>2. open[c].replies \in Seq(Reply)
      BY DEF TypeInv, TypeOK, ZenohTypeOK, OpenGet
    <3>3. \/ open'[c].replies[i] = t.reply
          \/ i \in DOMAIN open[c].replies /\ open'[c].replies[i] = open[c].replies[i]
      BY <1>2, <2>3, <3>2, AppendElement
    <3>4. i \in DOMAIN open[c].replies => Answered(open[c].id, open[c].replies[i])
      BY DEF RepliesAnswered
    <3> QED BY <1>1, <2>1, <3>1, <3>3, <3>4 DEF Answered
  <2> QED BY <2>2, <2>3, ServerAnswers
<1>3. OpenIsMine'
  <2>1. \A c \in Client : open'[c].id = open[c].id
    BY ServerAnswers
  <2> QED BY <2>1 DEF clientVars, OpenIsMine, CurrentCall
<1>4. OkIsExecuted'
  BY <1>1 DEF clientVars, OkIsExecuted
<1> QED BY <1>1, <1>2, <1>3, <1>4 DEF RepliesAnswered

\* A client that opens, closes or reads a reply channel adds nothing to it.
LEMMA OkListens ==
  ASSUME TypeInv, OkInv, UNCHANGED serverVars,
         \A d \in Client :
           \/ open'[d].replies = <<>>
           \/ /\ open'[d].id = open[d].id
              /\ \/ open'[d].replies = open[d].replies
                 \/ open[d].replies # <<>> /\ open'[d].replies = Tail(open[d].replies)
                 \/ open'[d].replies = Append(open[d].replies, ReplyError)
  PROVE  TasksAnswered' /\ RepliesAnswered'
<1> USE DEF OkInv
<1>1. TasksAnswered'
  BY DEF serverVars, TasksAnswered, Answered
<1>2. ASSUME NEW d \in Client, NEW i \in DOMAIN open'[d].replies
      PROVE  Answered(open[d].id, open[d].replies[i])'
  <2>1. open[d].replies \in Seq(Reply) /\ ReplyError \in Reply
    BY DEF TypeInv, TypeOK, ZenohTypeOK, OpenGet, Reply
  <2>2. /\ open'[d].id = open[d].id
        /\ \/ open'[d].replies[i] = ReplyError
           \/ \E j \in DOMAIN open[d].replies : open'[d].replies[i] = open[d].replies[j]
    <3>1. CASE open'[d].replies = open[d].replies
      BY <1>2, <3>1
    <3>2. CASE open[d].replies # <<>> /\ open'[d].replies = Tail(open[d].replies)
      <4>1. i \in DOMAIN Tail(open[d].replies)
        BY <1>2, <3>2
      <4>2. i + 1 \in DOMAIN open[d].replies /\ open'[d].replies[i] = open[d].replies[i + 1]
        BY <2>1, <3>2, <4>1, HeadTailElement
      <4> QED BY <4>2
    <3>3. CASE open'[d].replies = Append(open[d].replies, ReplyError)
      BY <1>2, <2>1, <3>3, AppendElement
    <3>4. open'[d].replies # <<>>
      BY <1>2
    <3>5. /\ open'[d].id = open[d].id
          /\ \/ open'[d].replies = open[d].replies
             \/ open[d].replies # <<>> /\ open'[d].replies = Tail(open[d].replies)
             \/ open'[d].replies = Append(open[d].replies, ReplyError)
      BY <3>4
    <3> QED BY <3>1, <3>2, <3>3, <3>5
  <2> QED BY <2>2 DEF RepliesAnswered, Answered, ReplyError, serverVars
<1> QED BY <1>1, <1>2 DEF RepliesAnswered

\* The end of a call: only the reply taken from the client's own channel can be
\* the Ok it returns.
LEMMA OkReturn ==
  ASSUME TypeInv, OkInv, NEW c \in Client, NEW result, Return(c, result), UNCHANGED serverVars,
         result.kind = "ok" =>
           \E e \in executed : e.id.client = c /\ e.id.call = CurrentCall(c) /\ e.value = result.value
  PROVE  OkIsExecuted'
<1> SUFFICES ASSUME NEW d \in Client, NEW n \in DOMAIN results'[d], results'[d][n].kind = "ok"
             PROVE  \E e \in executed : /\ e.id.client = d /\ e.id.call = n
                                        /\ e.value = results'[d][n].value
  BY DEF OkIsExecuted, serverVars
<1> USE DEF OkInv, TypeInv, TypeOK, ClientTypeOK
<1>1. CASE n \in DOMAIN results[d] /\ results'[d][n] = results[d][n]
  BY <1>1 DEF OkIsExecuted
<1>2. CASE ~(n \in DOMAIN results[d] /\ results'[d][n] = results[d][n])
  <2>1. d = c /\ results'[c] = Append(results[c], result)
    BY <1>2 DEF Return
  <2>2. /\ results[c] \in Seq(Result) /\ DOMAIN results[c] = 1..Len(results[c])
        /\ Len(results[c]) \in Nat
    BY LenProperties
  <2>3. /\ DOMAIN results'[c] = 1..(Len(results[c]) + 1)
        /\ \A j \in 1..Len(results[c]) : results'[c][j] = results[c][j]
        /\ results'[c][Len(results[c]) + 1] = result
    BY <2>1, <2>2
  <2>4. n = CurrentCall(c) /\ results'[c][n] = result
    BY <1>2, <2>1, <2>2, <2>3 DEF CurrentCall
  <2> QED BY <2>1, <2>4
<1> QED BY <1>1, <1>2

LEMMA OkClient ==
  ASSUME TypeInv, OkInv, NEW c \in Client,
         StartCall(c) \/ ClientProgress(c) \/ Interrupted(c), UNCHANGED serverVars
  PROVE  OkInv'
<1> USE DEF TypeInv, TypeOK, ZenohTypeOK, ClientTypeOK
<1>1. CASE RawGet(c) \/ AskMetadata(c) \/ SendCall(c)
  <2>1. PICK kind, z, ke, body : Get(c, GetId(c, kind, z), ke, body)
    BY <1>1, ClientGets
  <2>2. TasksAnswered' /\ RepliesAnswered'
    BY <2>1, OkListens DEF Get
  <2>3. OpenIsMine'
    BY <1>1, <2>1 DEF Get, GetId, OkInv, OpenIsMine, CurrentCall, RawGet, AskMetadata, SendCall
  <2>4. results' = results /\ executed' = executed
    BY <1>1 DEF RawGet, AskMetadata, SendCall, serverVars
  <2>5. OkIsExecuted'
    BY <2>4 DEF OkInv, OkIsExecuted
  <2> QED BY <2>2, <2>3, <2>5 DEF OkInv
<1>2. CASE TakeMetadata(c) \/ MetadataClosed(c) \/ Discover(c, Advertising(ClientService[c]))
  <2>1. \A d \in Client :
          \/ open'[d].replies = <<>>
          \/ /\ open'[d].id = open[d].id
             /\ \/ open'[d].replies = open[d].replies
                \/ open[d].replies # <<>> /\ open'[d].replies = Tail(open[d].replies)
    <3>1. CASE TakeMetadata(c)
      BY <3>1 DEF TakeMetadata, OpenGet
    <3>2. CASE MetadataClosed(c)
      BY <3>2 DEF MetadataClosed, NoGet
    <3> QED BY <1>2, <3>1, <3>2 DEF Discover, zenohVars
  <2>2. TasksAnswered' /\ RepliesAnswered'
    BY <2>1, OkListens
  <2>3. /\ results' = results /\ executed' = executed
        /\ \A d \in Client : pc'[d] = "calling" => pc[d] = "calling" /\ open'[d] = open[d]
    BY <1>2 DEF TakeMetadata, MetadataClosed, Discover, zenohVars, serverVars
  <2>4. OpenIsMine'
    BY <2>3 DEF OkInv, OpenIsMine, CurrentCall
  <2>5. OkIsExecuted'
    BY <2>3 DEF OkInv, OkIsExecuted
  <2> QED BY <2>2, <2>4, <2>5 DEF OkInv
<1>3. ASSUME NEW result, ReturnFromGet(c, result) \/ ReturnWithoutGet(c, result),
             result.kind = "ok" =>
               \E e \in executed :
                 e.id.client = c /\ e.id.call = CurrentCall(c) /\ e.value = result.value
      PROVE  OkInv'
  <2>0. \A d \in Client : open'[d] = open[d] \/ (open'[d].replies = <<>> /\ d = c)
    BY <1>3 DEF ReturnFromGet, ReturnWithoutGet, zenohVars, NoGet
  <2>1. TasksAnswered' /\ RepliesAnswered'
    BY <2>0, OkListens
  <2>2. OpenIsMine'
    <3>1. /\ pc'[c] # "calling"
          /\ \A d \in Client : d # c => pc'[d] = pc[d] /\ results'[d] = results[d]
      BY <1>3 DEF ReturnFromGet, ReturnWithoutGet, Return
    <3> QED BY <2>0, <3>1 DEF OkInv, OpenIsMine, CurrentCall
  <2>3. OkIsExecuted'
    BY <1>3, OkReturn DEF ReturnFromGet, ReturnWithoutGet
  <2> QED BY <2>1, <2>2, <2>3 DEF OkInv
<1>4. CASE TakeReply(c)
  <2> DEFINE r == Head(open[c].replies)
  <2>1. open[c].replies \in Seq(Reply) /\ open[c].replies # <<>> /\ pc[c] = "calling"
    BY <1>4 DEF TakeReply, OpenGet
  <2>2. r \in Reply /\ Answered(open[c].id, r)
    BY <2>1, HeadTailElement, HeadTailProperties DEF OkInv, RepliesAnswered
  <2>3. open[c].id.client = c /\ open[c].id.call = CurrentCall(c)
    BY <2>1 DEF OkInv, OpenIsMine
  <2>4. ASSUME CallResult(r).kind = "ok"
        PROVE  \E e \in executed :
                 /\ e.id.client = c /\ e.id.call = CurrentCall(c)
                 /\ e.value = CallResult(r).value
    <3>1. /\ r.kind # "error" /\ r.payload.kind = "value"
          /\ CallResult(r).value = r.payload.value
      BY <2>4 DEF CallResult, Ok, Err
    <3>2. r.kind = "sample"
      BY <2>2, <3>1 DEF Reply, ReplyError
    <3> QED BY <2>2, <2>3, <3>1, <3>2 DEF Answered
  <2> HIDE DEF r
  <2>5. ReturnFromGet(c, CallResult(r))
    BY <1>4 DEF TakeReply, r
  <2> QED BY <1>3, <2>4, <2>5
<1>5. CASE Interrupted(c) \/ NoServerFound(c) \/ SerializeFails(c) \/ NoReply(c)
  BY <1>3, <1>5 DEF Interrupted, NoServerFound, SerializeFails, NoReply, LivelinessFails, ForeignToken,
                    AskMetadataFails, SendFails, Cancel, Err, Cancelled
<1> QED BY <1>1, <1>2, <1>4, <1>5 DEF StartCall, ClientProgress

LEMMA OkStep ==
  ASSUME TypeInv, QueryableInv, OkInv, [Next]_vars
  PROVE  OkInv'
<1>1. ASSUME NEW c \in Client, QueryTimeout(c), UNCHANGED <<serverVars, clientVars>>
      PROVE  OkInv'
  <2>1. \A d \in Client :
          /\ open'[d].id = open[d].id
          /\ \/ open'[d].replies = open[d].replies
             \/ open'[d].replies = Append(open[d].replies, ReplyError)
    BY <1>1 DEF QueryTimeout, TypeInv, TypeOK, ZenohTypeOK, OpenGet
  <2>2. TasksAnswered' /\ RepliesAnswered'
    BY <1>1, <2>1, OkListens
  <2> QED BY <1>1, <2>1, <2>2 DEF OkInv, OpenIsMine, CurrentCall, OkIsExecuted, serverVars,
                                  clientVars
<1>2. CASE UNCHANGED vars
  BY <1>2 DEF vars, zenohVars, serverVars, clientVars, OkInv, TasksAnswered, RepliesAnswered,
              Answered, OpenIsMine, CurrentCall, OkIsExecuted
<1> QED BY <1>1, <1>2, OkServer, OkClient DEF Next

THEOREM OkInvariance == Spec => []OkInv
<1>1. Init => OkInv
  BY DEF Init, ZenohInit, ServerInit, ClientInit, NoGet, OkInv, TasksAnswered,
         RepliesAnswered, OpenIsMine, OkIsExecuted
<1>2. TypeInv /\ QueryableInv /\ OkInv /\ [Next]_vars => OkInv'
  BY OkStep
<1> QED BY <1>1, <1>2, TypeInvariance, QueryableInvariance, PTL DEF Spec

\* An Ok result is what a handler computed for this very call of this client,
\* whatever other calls, servers and late answers there are.
THEOREM OkCorrect == Spec => []OkIsExecuted
<1>1. OkInv => OkIsExecuted
  BY DEF OkInv
<1> QED BY <1>1, OkInvariance, PTL

-----------------------------------------------------------------------------
(* serve() and the clients.                                                *)

\* If serve() ends for a query, that query is of a client that addresses its
\* gets itself.
THEOREM SurvivesCorrect ==
  ASSUME Interchangeable
  PROVE  Spec => ServeSurvivesGenerated
<1>1. ASSUME TypeInv, NoPoisonQuery, NEW s \in Server, ReceiveEndsServe(s)
      PROVE  Head(inbox[s]).id.client \in RawClient
  <2>1. inbox[s] \in Seq(Query) /\ inbox[s] # <<>>
    BY <1>1 DEF TypeInv, TypeOK, ZenohTypeOK, ReceiveEndsServe, Receivable
  <2>2. 1 \in DOMAIN inbox[s] /\ Head(inbox[s]) = inbox[s][1] /\ Head(inbox[s]) \in Query
    BY <2>1, HeadTailElement, HeadTailProperties
  <2>3. inbox[s][1].id.client \notin GeneratedClient
    BY <1>1, <2>2 DEF NoPoisonQuery, ReceiveEndsServe
  <2> QED BY <2>2, <2>3 DEF GeneratedClient, Query, QueryId
<1>2. TypeInv /\ NoPoisonQuery =>
        [\A s \in Server : ReceiveEndsServe(s) => Head(inbox[s]).id.client \in RawClient]_vars
  BY <1>1
<1> QED BY <1>2, TypeInvariance, NoPoisonCorrect, PTL DEF ServeSurvivesGenerated

-----------------------------------------------------------------------------
(* A good day: what callers hear.                                          *)

\* The method that a query names, or that a client calls, exists.
Callable(q) == Token(q.ke, 4) \in MethodsOf[Token(q.ke, 3)]
CallsKnown(c) == request[c].method \in MethodsOf[ClientService[c]]

\* The reply to get id is what a handler that ran for it answered, if its method
\* exists, and else that the method does not.
Handled(id, reply) ==
  \E e \in executed, outcome \in Outcomes : e.id = id /\ reply = HandlerReply(outcome, e.value)
RightReply(id, known, reply) ==
  IF known THEN Handled(id, reply) ELSE reply = Sample("Unavailable", NoPayload)

TasksRight ==
  \A s \in Server : \A t \in tasks[s] : t.query.id.kind = "call" /\ t.reply # Pending =>
    RightReply(t.query.id, Callable(t.query), t.reply)

\* A client that calls has its answer ahead of it or in its channel.
Listening(c) ==
  /\ request[c] \in Requests
  /\ open[c].id.kind = "call" /\ open[c].id.client = c /\ open[c].id.call = CurrentCall(c)
  /\ open[c].pending # {} \/ open[c].replies # <<>>
  /\ \A i \in DOMAIN open[c].replies : RightReply(open[c].id, CallsKnown(c), open[c].replies[i])

CallsHeard == \A c \in Client : pc[c] = "calling" => Listening(c)

\* Calls that servers hold, or have executed, are calls of the past, or the one
\* that their client is waiting for.
Past(id) == id.call < CurrentCall(id.client)
Current(id) == id.call = CurrentCall(id.client) /\ pc[id.client] = "calling"

CallsSent ==
  \A s \in Server : \A q \in HeldQueries(s) : q.id.kind = "call" =>
    Past(q.id) \/ (Current(q.id) /\ Token(q.ke, 4) = request[q.id.client].method)

ExecutionsSent == \A e \in executed : Past(e.id) \/ (Current(e.id) /\ CallsKnown(e.id.client))

\* Call n of client c has not reached a handler and never will.
Refused(c, n) ==
  /\ \A e \in executed : ~(e.id.client = c /\ e.id.call = n)
  /\ \A s \in Server : \A q \in HeldQueries(s) :
       q.id.kind = "call" /\ q.id.client = c /\ q.id.call = n => ~Callable(q)

RightResult(c, n, result) ==
  \/ \E e \in executed, outcome \in Outcomes :
       /\ e.id.client = c /\ e.id.call = n
       /\ result = CallResult(HandlerReply(outcome, e.value))
  \/ result = Err("Unavailable") /\ Refused(c, n)

ResultsRight ==
  \A c \in Client : \A n \in DOMAIN results[c] : RightResult(c, n, results[c][n])

AnswerInv == TasksRight /\ CallsHeard /\ CallsSent /\ ExecutionsSent /\ ResultsRight

\* Handlers only add to what was handled.
LEMMA HandledStays ==
  ASSUME executed \subseteq executed', NEW id, NEW known, NEW reply, RightReply(id, known, reply)
  PROVE  RightReply(id, known, reply)'
BY DEF RightReply, Handled

\* What servers hold of generated clients names their service.
LEMMA CallableKnown ==
  ASSUME FoundInv, NEW s \in Server, NEW q \in HeldQueries(s), q.id.kind = "call"
  PROVE  /\ Token(q.ke, 3) = ClientService[q.id.client]
         /\ Callable(q) <=> Token(q.ke, 4) \in MethodsOf[ClientService[q.id.client]]
<1>1. ForCall(s, q)
  BY DEF FoundInv, KindsAddressed
<1>2. Token(q.ke, 3) = ClientService[q.id.client]
  BY <1>1, KeyTokens DEF ForCall
<1> QED BY <1>2 DEF Callable

\* A server that executes nothing and answers nobody.
LEMMA AnswerQuiet ==
  ASSUME AnswerInv, UNCHANGED <<open, executed, clientVars>>,
         \A r \in Server : HeldQueries(r)' \subseteq HeldQueries(r),
         \A r \in Server : \A u \in tasks'[r] :
           u \in tasks[r] \/ (u.query.id.kind = "call" /\ u.reply # Pending =>
                                RightReply(u.query.id, Callable(u.query), u.reply))
  PROVE  AnswerInv'
<1> USE DEF AnswerInv
<1>1. TasksRight'
  BY DEF TasksRight, RightReply, Handled
<1>2. CallsHeard'
  BY DEF CallsHeard, Listening, RightReply, Handled, CallsKnown, CurrentCall, clientVars
<1>3. CallsSent' /\ ExecutionsSent'
  BY DEF CallsSent, ExecutionsSent, Past, Current, CallsKnown, CurrentCall, clientVars
<1>4. ASSUME NEW c, NEW n, NEW result, RightResult(c, n, result)
      PROVE  RightResult(c, n, result)'
  BY <1>4 DEF RightResult, Refused
<1>5. ResultsRight'
  BY <1>4 DEF ResultsRight, clientVars
<1> QED BY <1>1, <1>2, <1>3, <1>5

LEMMA AnswerRuns ==
  ASSUME TypeInv, FoundInv, AnswerInv, NEW s \in Server, NEW t \in tasks[s], RunHandler(s, t),
         t.query.id.kind = "call", UNCHANGED clientVars
  PROVE  AnswerInv'
<1> USE DEF AnswerInv
<1> DEFINE e == [id |-> t.query.id, server |-> s, value |-> counter[s] + 1]
<1>1. PICK outcome \in Outcomes : Finish(s, t, HandlerReply(outcome, counter[s] + 1))
  BY DEF RunHandler
<1>2. executed' = executed \cup {e} /\ e.id = t.query.id /\ e.value = counter[s] + 1
  BY DEF RunHandler
<1> HIDE DEF e
<1>3. /\ t.query \in HeldQueries(s) /\ Callable(t.query) /\ UNCHANGED <<inbox, open>>
  BY DEF HeldQueries, RunHandler, Dispatched, Callable, zenohVars
<1>4. \A r \in Server : HeldQueries(r)' \subseteq HeldQueries(r)
  BY <1>1, <1>3, FinishedTask
<1>0. PICK reply : reply = HandlerReply(outcome, counter[s] + 1)
  OBVIOUS
<1> DEFINE new == [t EXCEPT !.reply = reply]
<1>5. new.query = t.query /\ new.reply = reply
  BY DEF TypeInv, TypeOK, ServerTypeOK, Task
<1>6. \A r \in Server : \A u \in tasks'[r] : u \in tasks[r] \/ u = new
  BY <1>0, <1>1 DEF Finish, TypeInv, TypeOK, ServerTypeOK
<1>7. Handled(t.query.id, reply)'
  BY <1>0, <1>2 DEF Handled
<1> HIDE DEF new
<1>8. TasksRight'
  <2>1. ASSUME NEW r \in Server, NEW u \in tasks[r], u.query.id.kind = "call", u.reply # Pending
        PROVE  RightReply(u.query.id, Callable(u.query), u.reply)'
    <3>1. RightReply(u.query.id, Callable(u.query), u.reply)
      BY <2>1 DEF TasksRight
    <3> QED BY <1>2, <3>1 DEF RightReply, Handled
  <2>2. RightReply(new.query.id, Callable(new.query), new.reply)'
    BY <1>3, <1>5, <1>7 DEF RightReply
  <2> QED BY <1>6, <2>1, <2>2 DEF TasksRight
<1>9. CallsHeard'
  <2>1. ASSUME NEW c \in Client, Listening(c)
        PROVE  Listening(c)'
    BY <1>2, <1>3, <2>1 DEF Listening, RightReply, Handled, CallsKnown, CurrentCall, clientVars
  <2> QED BY <2>1 DEF CallsHeard, clientVars
<1>10. CallsSent'
  BY <1>4 DEF CallsSent, Past, Current, CurrentCall, clientVars
<1>11. Past(e.id) \/ (Current(e.id) /\ CallsKnown(e.id.client))
  BY <1>2, <1>3, CallableKnown DEF CallsSent, CallsKnown
<1>12. ExecutionsSent'
  BY <1>2, <1>11 DEF ExecutionsSent, Past, Current, CallsKnown, CurrentCall, clientVars
<1>13. ASSUME NEW c, NEW n, NEW result, RightResult(c, n, result)
       PROVE  RightResult(c, n, result)'
  <2>1. Refused(c, n) => ~(e.id.client = c /\ e.id.call = n)
    BY <1>2, <1>3 DEF Refused
  <2>2. Refused(c, n) => Refused(c, n)'
    BY <1>2, <1>4, <2>1 DEF Refused
  <2> QED BY <1>2, <1>13, <2>2 DEF RightResult
<1>14. ResultsRight'
  BY <1>13 DEF ResultsRight, clientVars
<1> QED BY <1>8, <1>9, <1>10, <1>12, <1>14

LEMMA AnswerReplies ==
  ASSUME TypeInv, FoundInv, AnswerInv, NEW s \in Server, NEW t \in tasks[s], SendReply(s, t),
         UNCHANGED clientVars
  PROVE  AnswerInv'
<1> USE DEF AnswerInv
<1>1. t.query \in HeldQueries(s) /\ t.reply \in Reply
  BY DEF HeldQueries, SendReply, TypeInv, TypeOK, ServerTypeOK, Task
<1>2. /\ UNCHANGED executed
      /\ \A r \in Server : HeldQueries(r)' \subseteq HeldQueries(r)
      /\ \A r \in Server : tasks'[r] \subseteq tasks[r]
  BY DEF SendReply, HeldQueries, TypeInv, TypeOK, ServerTypeOK
<1>3. TasksRight'
  BY <1>2 DEF TasksRight, RightReply, Handled
<1>4. CallsSent' /\ ExecutionsSent'
  BY <1>2 DEF CallsSent, ExecutionsSent, Past, Current, CallsKnown, CurrentCall, clientVars
<1>5. ASSUME NEW c, NEW n, NEW result, RightResult(c, n, result)
      PROVE  RightResult(c, n, result)'
  BY <1>2, <1>5 DEF RightResult, Refused
<1>6. ResultsRight'
  BY <1>5 DEF ResultsRight, clientVars
<1>7. ASSUME NEW c \in Client, pc[c] = "calling", Listening(c)
      PROVE  Listening(c)'
  <2>1. open[c].replies \in Seq(Reply)
    BY DEF TypeInv, TypeOK, ZenohTypeOK, OpenGet
  <2>2. CASE open'[c] = open[c]
    BY <1>2, <1>7, <2>2 DEF Listening, RightReply, Handled, CallsKnown, CurrentCall, clientVars
  <2>3. CASE /\ open'[c].id = open[c].id /\ open[c].id = t.query.id
             /\ open'[c].replies = Append(open[c].replies, t.reply)
    <3>1. /\ t.query.id.kind = "call" /\ t.query.id.client = c /\ t.query.id.call = CurrentCall(c)
      BY <1>7, <2>3 DEF Listening
    <3>2. CurrentCall(c) \in Nat
      BY LenProperties DEF CurrentCall, TypeInv, TypeOK, ClientTypeOK
    <3>3. Callable(t.query) <=> CallsKnown(c)
      BY <1>1, <3>1, <3>2, CallableKnown DEF CallsSent, Past, CallsKnown
    <3>4. RightReply(open[c].id, CallsKnown(c), t.reply)
      BY <2>3, <3>1, <3>3 DEF TasksRight, RightReply, SendReply
    <3>5. /\ \A i \in DOMAIN open'[c].replies :
               \/ open'[c].replies[i] = t.reply
               \/ i \in DOMAIN open[c].replies /\ open'[c].replies[i] = open[c].replies[i]
          /\ open'[c].replies # <<>>
      <4>1. open'[c].replies # <<>>
        BY <1>1, <2>1, <2>3, Appended
      <4> QED BY <1>1, <2>1, <2>3, <4>1, AppendElement
    <3>6. \A i \in DOMAIN open'[c].replies :
            RightReply(open[c].id, CallsKnown(c), open'[c].replies[i])
      BY <1>7, <3>4, <3>5 DEF Listening
    <3> QED BY <1>2, <1>7, <2>3, <3>5, <3>6
            DEF Listening, RightReply, Handled, CallsKnown, CurrentCall, clientVars
  <2> QED BY <2>2, <2>3, AnsweringId DEF SendReply
<1>8. CallsHeard'
  BY <1>7 DEF CallsHeard, clientVars
<1> QED BY <1>3, <1>4, <1>6, <1>8

LEMMA AnswerServer ==
  ASSUME GoodDay, TypeInv, RoutingInv, FoundInv, AnswerInv, NEW s \in Server,
         DeclareQueryable(s) \/ ServeProgress(s) \/ TaskStep(s), UNCHANGED clientVars
  PROVE  AnswerInv'
<1>1. \A r \in Server : HeldQueries(r)' \subseteq HeldQueries(r)
  BY ServerHolds DEF ServerNext, GoodDay, RoutingInv
<1>2. CASE Starts(s)
  BY <1>1, <1>2, AnswerQuiet DEF Starts
<1>3. CASE Answers(s)
  <2>1. PICK reply : Spawn(s, reply) /\ (Head(inbox[s]).id.kind = "call" => reply = Pending)
    BY <1>3 DEF Answers
  <2> DEFINE new == [query |-> Head(inbox[s]), reply |-> reply]
  <2>2. new.query = Head(inbox[s]) /\ new.reply = reply
    OBVIOUS
  <2> HIDE DEF new
  <2>3. \A r \in Server : \A u \in tasks'[r] : u \in tasks[r] \/ u = new
    BY <2>1 DEF Spawn, new, TypeInv, TypeOK, ServerTypeOK
  <2> QED BY <1>1, <2>1, <2>2, <2>3, AnswerQuiet DEF Spawn
<1>4. ASSUME NEW t \in tasks[s], MethodUnknown(s, t)
      PROVE  AnswerInv'
  <2> DEFINE reply == Sample("Unavailable", NoPayload)
             new == [t EXCEPT !.reply = reply]
  <2>1. new.query = t.query /\ new.reply = reply
    BY DEF TypeInv, TypeOK, ServerTypeOK, Task
  <2>2. ~Callable(t.query)
    BY <1>4 DEF MethodUnknown, Callable
  <2>3. \A r \in Server : \A u \in tasks'[r] : u \in tasks[r] \/ u = new
    BY <1>4 DEF MethodUnknown, Finish, TypeInv, TypeOK, ServerTypeOK
  <2> HIDE DEF new
  <2>4. RightReply(new.query.id, Callable(new.query), new.reply)
    BY <2>1, <2>2 DEF RightReply
  <2>5. UNCHANGED <<open, executed>>
    BY <1>4 DEF MethodUnknown, zenohVars
  <2> QED BY <1>1, <2>3, <2>4, <2>5, AnswerQuiet
<1> QED BY <1>2, <1>3, <1>4, AnswerRuns, AnswerReplies, CalmShapes

LEMMA HeldType ==
  ASSUME TypeInv, NEW s \in Server, NEW q \in HeldQueries(s)
  PROVE  q \in Query /\ q.id \in QueryId
<1> USE DEF TypeInv, TypeOK, ZenohTypeOK, ServerTypeOK
<1>1. ASSUME NEW i \in DOMAIN inbox[s]
      PROVE  inbox[s][i] \in Query
  <2>1. inbox[s] \in Seq(Query)
    OBVIOUS
  <2> QED BY <1>1, <2>1, LenProperties, ElementOfSeq
<1>2. q \in Query
  BY <1>1 DEF HeldQueries, Task
<1> QED BY <1>2 DEF Query

\* What was sent or executed before a step of the clients was so after it.
LEMMA SentStays ==
  ASSUME TypeInv, NEW a \in QueryId,
         \A d \in Client :
           \/ results'[d] = results[d] /\ request'[d] = request[d] /\ pc'[d] = pc[d]
           \/ results'[d] = results[d] /\ pc[d] # "calling"
           \/ Len(results'[d]) = Len(results[d]) + 1
  PROVE  /\ Past(a) => Past(a)'
         /\ Current(a) => \/ Past(a)'
                          \/ Current(a)' /\ request'[a.client] = request[a.client]
<1>1. a.client \in Client /\ a.call \in Nat /\ Len(results[a.client]) \in Nat
  BY LenProperties DEF TypeInv, TypeOK, ClientTypeOK, QueryId
<1> QED BY <1>1 DEF Past, Current, CurrentCall

\* A step of client c keeps what is known of the calls of all clients, if what
\* it adds to the channels is no call, or its own current one.
LEMMA AnswerClient ==
  ASSUME TypeInv, AnswerInv, NEW c \in Client, StartCall(c) \/ ClientProgress(c),
         UNCHANGED serverVars,
         \/ results'[c] = results[c] /\ pc[c] # "calling"
         \/ Len(results'[c]) = Len(results[c]) + 1,
         \A s \in Server : \A q \in HeldQueries(s)' :
           \/ q \in HeldQueries(s)
           \/ q.id.kind = "call" =>
                /\ q.id.client = c /\ q.id.call = CurrentCall(c) /\ CurrentCall(c)' = CurrentCall(c)
                /\ pc'[c] = "calling" /\ Token(q.ke, 4) = request'[c].method,
         pc'[c] = "calling" => Listening(c)',
         \A n \in DOMAIN results'[c] :
           \/ n \in DOMAIN results[c] /\ results'[c][n] = results[c][n]
           \/ \E result : result = results'[c][n] /\ RightResult(c, n, result)'
  PROVE  AnswerInv'
<1> USE DEF AnswerInv
<1>1. \A d \in Client : d # c =>
        /\ results'[d] = results[d] /\ request'[d] = request[d] /\ pc'[d] = pc[d]
        /\ open'[d] = open[d]
  BY ClientAlone
<1>2. \A d \in Client :
           \/ results'[d] = results[d] /\ request'[d] = request[d] /\ pc'[d] = pc[d]
           \/ results'[d] = results[d] /\ pc[d] # "calling"
           \/ Len(results'[d]) = Len(results[d]) + 1
  BY <1>1
<1>3. UNCHANGED <<tasks, executed>>
  BY DEF serverVars
<1>4. TasksRight'
  BY <1>3 DEF TasksRight, RightReply, Handled
<1>5. CallsHeard'
  <2>1. ASSUME NEW d \in Client, d # c, Listening(d)
        PROVE  Listening(d)'
    BY <1>1, <1>3, <2>1 DEF Listening, RightReply, Handled, CallsKnown, CurrentCall
  <2> QED BY <1>1, <2>1 DEF CallsHeard
<1>6. CallsSent'
  <2>1. ASSUME NEW s \in Server, NEW q \in HeldQueries(s), q.id.kind = "call"
        PROVE  Past(q.id)' \/ (Current(q.id)' /\ Token(q.ke, 4) = request'[q.id.client].method)
    <3>1. q.id \in QueryId
      BY HeldType
    <3>2. Past(q.id) \/ (Current(q.id) /\ Token(q.ke, 4) = request[q.id.client].method)
      BY <2>1 DEF CallsSent
    <3> QED BY <1>2, <3>1, <3>2, SentStays
  <2>2. ASSUME NEW s \in Server, NEW q \in HeldQueries(s)', q.id.kind = "call", q \notin HeldQueries(s)
        PROVE  Current(q.id)' /\ Token(q.ke, 4) = request'[q.id.client].method
    BY <2>2 DEF Current
  <2> QED BY <2>1, <2>2 DEF CallsSent
<1>7. ExecutionsSent'
  <2>1. ASSUME NEW e \in executed
        PROVE  Past(e.id)' \/ (Current(e.id)' /\ CallsKnown(e.id.client)')
    <3>1. e.id \in QueryId
      BY DEF TypeInv, TypeOK, ServerTypeOK, Execution
    <3> QED BY <1>2, <3>1, SentStays DEF ExecutionsSent, CallsKnown
  <2> QED BY <1>3, <2>1 DEF ExecutionsSent
<1>8. ASSUME NEW d \in Client, NEW n \in DOMAIN results[d], NEW result, RightResult(d, n, result)
      PROVE  RightResult(d, n, result)'
  <2>1. results[d] \in Seq(Result)
    BY DEF TypeInv, TypeOK, ClientTypeOK
  <2>2. n # CurrentCall(d)
    BY <2>1, LenProperties DEF CurrentCall
  <2>3. Refused(d, n) => Refused(d, n)'
    BY <1>3, <2>2 DEF Refused
  <2> QED BY <1>3, <1>8, <2>3 DEF RightResult
<1>9. ResultsRight'
  <2> SUFFICES ASSUME NEW d \in Client, NEW n \in DOMAIN results'[d],
                      NEW result, result = results'[d][n]
               PROVE  RightResult(d, n, result)'
    BY DEF ResultsRight
  <2>1. CASE n \in DOMAIN results[d] /\ result = results[d][n]
    BY <1>8, <2>1 DEF ResultsRight
  <2>2. CASE d = c /\ RightResult(c, n, result)'
    BY <2>2
  <2> QED BY <1>1, <2>1, <2>2
<1> QED BY <1>4, <1>5, <1>6, <1>7, <1>9

\* The end of a call adds its result to what is known, and nothing else.
LEMMA AnswerReturns ==
  ASSUME TypeInv, AnswerInv, NEW c \in Client, StartCall(c) \/ ClientProgress(c), NEW result,
         ReturnFromGet(c, result) \/ ReturnWithoutGet(c, result), UNCHANGED serverVars,
         RightResult(c, CurrentCall(c), result)
  PROVE  AnswerInv'
<1>1. /\ pc'[c] = "idle" /\ results'[c] = Append(results[c], result)
      /\ UNCHANGED <<inbox, tasks, executed>>
  BY DEF ReturnFromGet, ReturnWithoutGet, Return, zenohVars, serverVars, TypeInv, TypeOK,
         ClientTypeOK
<1>2. PICK old, new : old = results[c] /\ new = results'[c]
  OBVIOUS
<1>3. /\ Len(new) = Len(old) + 1
      /\ \A n \in DOMAIN new : \/ n \in DOMAIN old /\ new[n] = old[n]
                               \/ n = Len(old) + 1 /\ new[n] = result
  <2>1. old \in Seq(Result) /\ new = Append(old, result)
    BY <1>1, <1>2 DEF TypeInv, TypeOK, ClientTypeOK
  <2>2. /\ DOMAIN old = 1..Len(old) /\ Len(old) \in Nat
        /\ DOMAIN new = 1..(Len(old) + 1) /\ Len(new) = Len(old) + 1
        /\ \A n \in 1..Len(old) : new[n] = old[n]
        /\ new[Len(old) + 1] = result
    BY ONLY <2>1, LenProperties
  <2> QED BY ONLY <2>2
<1>4. PICK n : n = CurrentCall(c)
  OBVIOUS
<1>5. RightResult(c, n, result)'
  BY <1>1, <1>4 DEF RightResult, Refused, HeldQueries
<1>6. \A k \in DOMAIN results'[c] :
        \/ k \in DOMAIN results[c] /\ results'[c][k] = results[c][k]
        \/ \E x : x = results'[c][k] /\ RightResult(c, k, x)'
  BY <1>2, <1>3, <1>4, <1>5 DEF CurrentCall
<1>7. \A s \in Server : HeldQueries(s)' = HeldQueries(s)
  BY <1>1 DEF HeldQueries
<1> QED BY <1>1, <1>2, <1>3, <1>6, <1>7, AnswerClient

LEMMA AnswerAsks ==
  ASSUME TypeInv, AnswerInv, NEW c \in Client, AskMetadata(c), UNCHANGED serverVars
  PROVE  AnswerInv'
<1>1. PICK z \in todo[c] : Get(c, GetId(c, "metadata", z), MetadataKey(z), "absent")
  BY DEF AskMetadata
<1>2. z \in Zid /\ "absent" \in Body /\ GetId(c, "metadata", z) \in QueryId
  BY GetIdType DEF TypeInv, TypeOK, ClientTypeOK, Body
<1>3. MetadataKey(z) \in Seq(KeyToken)
  BY <1>2, KeyType
<1>4. \A s \in Server : \A q \in HeldQueries(s)' :
        q \in HeldQueries(s) \/ q.id = GetId(c, "metadata", z)
  BY <1>1, <1>2, <1>3, GetQueries DEF serverVars
<1>5. GetId(c, "metadata", z).kind # "call"
  BY DEF GetId
<1>6. results' = results /\ pc[c] # "calling" /\ pc'[c] # "calling"
  BY DEF AskMetadata, TypeInv, TypeOK, ClientTypeOK
<1>7. StartCall(c) \/ ClientProgress(c)
  BY DEF ClientProgress
<1> QED BY <1>4, <1>5, <1>6, <1>7, AnswerClient

LEMMA AnswerSends ==
  ASSUME GoodDay, TypeInv, RoutingInv, FoundInv, AnswerInv, NEW c \in Client, SendCall(c),
         UNCHANGED serverVars
  PROVE  AnswerInv'
<1> USE DEF TypeInv, TypeOK
<1>1. PICK i \in Eligible(c) :
        Get(c, GetId(c, "call", metas[c][i].id),
            ServiceKey(metas[c][i].id, ClientService[c], request[c].method), request[c].body)
  BY DEF SendCall
<1>2. PICK z, v, m, body : /\ z = metas[c][i].id /\ v = ClientService[c]
                           /\ m = request[c].method /\ body = request[c].body
  OBVIOUS
<1>3. PICK id, ke : id = GetId(c, "call", z) /\ ke = ServiceKey(z, v, m)
  OBVIOUS
<1>4. Get(c, id, ke, body)
  BY <1>1, <1>2, <1>3
<1>5. metas[c][i] \in ServerMetadata /\ z \in ids[c]
  BY <1>2, LenProperties, ElementOfSeq DEF Eligible, ClientTypeOK, RoutingInv, MetasTrue
<1>6. z \in Zid /\ request[c] \in Requests
  BY <1>2, <1>5 DEF ServerMetadata, SendCall, RequestKnown
<1>7. m \in Method /\ body \in Body /\ v \in Svc
  BY <1>2, <1>6, ClientAssumption DEF Body, GoodDay
<1>8. /\ ke \in Seq(KeyToken) /\ Token(ke, 1) = z /\ Token(ke, 4) = m
      /\ id \in QueryId /\ id.kind = "call" /\ id.client = c /\ id.call = CurrentCall(c)
  BY <1>3, <1>6, <1>7, KeyType, KeyTokens, GetIdType DEF ServiceKey, Token, GetId
<1>9. \A s \in Server : \A q \in HeldQueries(s)' :
        q \in HeldQueries(s) \/ q = [id |-> id, ke |-> ke, body |-> body]
  BY <1>4, <1>7, <1>8, GetQueries DEF serverVars
<1>10. Matching(ke) # {}
  BY <1>5, <1>8 DEF FoundInv, IdsReached, Matching, ZenohTypeOK
<1>11. open'[c].id = id /\ open'[c].pending # {} /\ open'[c].replies = <<>>
  BY <1>4, <1>10 DEF Get, ZenohTypeOK
<1>12. /\ results' = results /\ request' = request /\ pc[c] # "calling" /\ pc'[c] = "calling"
       /\ CurrentCall(c)' = CurrentCall(c)
  BY DEF SendCall, CurrentCall, ClientTypeOK
<1>13. Listening(c)'
  BY <1>6, <1>8, <1>11, <1>12 DEF Listening
<1>14. ASSUME NEW s \in Server, NEW q \in HeldQueries(s)', q \notin HeldQueries(s)
       PROVE  /\ q.id.client = c /\ q.id.call = CurrentCall(c)
              /\ Token(q.ke, 4) = request'[c].method
  <2>1. q.id = id /\ q.ke = ke
    BY <1>9, <1>14
  <2> QED BY <1>2, <1>8, <1>12, <2>1
<1>15. StartCall(c) \/ ClientProgress(c)
  BY DEF ClientProgress
<1> QED BY <1>12, <1>13, <1>14, <1>15, AnswerClient

\* A client that takes a reply returns what its method's handler answered.
LEMMA AnswerTaken ==
  ASSUME TypeInv, FoundInv, AnswerInv, NEW c \in Client, TakeReply(c), UNCHANGED serverVars
  PROVE  AnswerInv'
<1>1. open[c].replies \in Seq(Reply) /\ open[c].replies # <<>> /\ pc[c] = "calling"
  BY DEF TakeReply, TypeInv, TypeOK, ZenohTypeOK, OpenGet
<1>2. PICK r, n : r = Head(open[c].replies) /\ n = CurrentCall(c)
  OBVIOUS
<1>3. /\ RightReply(open[c].id, CallsKnown(c), r)
      /\ open[c].id.client = c /\ open[c].id.call = n
  BY <1>1, <1>2, HeadTailElement DEF AnswerInv, CallsHeard, Listening
<1>4. CASE CallsKnown(c)
  <2>1. RightResult(c, n, CallResult(r))
    BY <1>3, <1>4 DEF RightReply, Handled, RightResult
  <2>2. ReturnFromGet(c, CallResult(r)) /\ (StartCall(c) \/ ClientProgress(c))
    BY <1>2 DEF TakeReply, ClientProgress
  <2> QED BY <1>2, <2>1, <2>2, AnswerReturns
<1>5. CASE ~CallsKnown(c)
  <2>1. CallResult(r) = Err("Unavailable")
    BY <1>3, <1>5 DEF RightReply, CallResult, Sample, NoPayload
  <2>2. n \in Nat
    BY <1>2, LenProperties DEF CurrentCall, TypeInv, TypeOK, ClientTypeOK
  <2>3. \A e \in executed : ~(e.id.client = c /\ e.id.call = n)
    BY <1>2, <1>5, <2>2 DEF AnswerInv, ExecutionsSent, Past
  <2>4. \A s \in Server : \A q \in HeldQueries(s) :
          q.id.kind = "call" /\ q.id.client = c /\ q.id.call = n => ~Callable(q)
    BY <1>2, <1>5, <2>2, CallableKnown DEF AnswerInv, CallsSent, Past, CallsKnown
  <2>5. RightResult(c, n, CallResult(r))
    BY <2>1, <2>3, <2>4 DEF RightResult, Refused
  <2>6. ReturnFromGet(c, CallResult(r)) /\ (StartCall(c) \/ ClientProgress(c))
    BY <1>2 DEF TakeReply, ClientProgress
  <2> QED BY <1>2, <2>5, <2>6, AnswerReturns
<1> QED BY <1>4, <1>5

LEMMA AnswerProgress ==
  ASSUME GoodDay, TypeInv, RoutingInv, FoundInv, AnswerInv, NEW c \in Client,
         StartCall(c) \/ ClientProgress(c), UNCHANGED serverVars
  PROVE  AnswerInv'
<1>1. ~RawGet(c)
  BY DEF RawGet, GoodDay
<1>2. CASE Discover(c, Advertising(ClientService[c])) \/ TakeMetadata(c) \/ MetadataClosed(c)
  <2>1. /\ results' = results /\ pc[c] # "calling" /\ pc'[c] # "calling" /\ UNCHANGED inbox
    BY <1>2 DEF Discover, MayCall, TakeMetadata, MetadataClosed, zenohVars, TypeInv, TypeOK,
                ClientTypeOK
  <2>2. \A s \in Server : HeldQueries(s)' = HeldQueries(s)
    BY <2>1 DEF HeldQueries, serverVars
  <2> QED BY <2>1, <2>2, AnswerClient
<1>3. CASE NoServerFound(c)
  <2>1. PICK n : n = CurrentCall(c)
    OBVIOUS
  <2>2. pc[c] # "calling" /\ n \in Nat
    BY <1>3, <2>1, LenProperties DEF NoServerFound, CurrentCall, TypeInv, TypeOK, ClientTypeOK
  <2>3. Refused(c, n)
    BY <2>1, <2>2 DEF AnswerInv, ExecutionsSent, CallsSent, Past, Current, Refused
  <2>4. RightResult(c, n, Err("Unavailable"))
    BY <2>3 DEF RightResult
  <2> QED BY <1>3, <2>1, <2>4, AnswerReturns DEF NoServerFound
<1>4. ~SerializeFails(c)
  BY DEF SerializeFails, TypeInv, RequestKnown, GoodDay
<1>5. ~NoReply(c)
  BY DEF NoReply, AnswerInv, CallsHeard, Listening
<1> QED BY <1>1, <1>2, <1>3, <1>4, <1>5, AnswerAsks, AnswerSends, AnswerTaken
        DEF StartCall, ClientProgress

LEMMA AnswerInit == Init => AnswerInv
BY DEF Init, ZenohInit, ServerInit, ClientInit, AnswerInv, TasksRight, CallsHeard, CallsSent,
       HeldQueries, ExecutionsSent, ResultsRight

LEMMA AnswerStep ==
  ASSUME GoodDay, TypeInv, RoutingInv, FoundInv, AnswerInv, [CalmNext]_vars
  PROVE  AnswerInv'
<1>1. CASE UNCHANGED vars
  <2>1. UNCHANGED <<open, executed, clientVars, tasks, inbox>>
    BY <1>1 DEF vars, zenohVars, serverVars, clientVars
  <2> QED BY <2>1, AnswerQuiet DEF HeldQueries
<1> QED BY <1>1, AnswerServer, AnswerProgress DEF CalmNext

\* On a good day a call returns what the handler answered, and Unavailable only
\* if no handler runs for it: no answer is lost, swapped or made up.
THEOREM AnswersCorrect ==
  ASSUME GoodDay
  PROVE  CalmSpec => []AnswersArrive
<1>1. TypeInv /\ RoutingInv /\ FoundInv /\ AnswerInv /\ [CalmNext]_vars => AnswerInv'
  BY AnswerStep
<1>2. AnswerInv => AnswersArrive
  BY DEF AnswerInv, ResultsRight, RightResult, Refused, AnswersArrive, GeneratedClient
<1>3. Interchangeable
  BY DEF GoodDay
<1>4. CalmSpec => [](TypeInv /\ RoutingInv)
  BY <1>3, CalmIsSpec, TypeInvariance, RoutingInvariance, PTL
<1> QED BY <1>1, <1>2, <1>4, AnswerInit, FoundInvariance, PTL DEF CalmSpec
=============================================================================
