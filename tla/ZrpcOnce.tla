------------------------------ MODULE ZrpcOnce -------------------------------
(***************************************************************************)
(* A call is executed at most once, and the whole system implements        *)
(* AtMostOnceRpc, for every value of the constants.                        *)
(*                                                                         *)
(* AtMostOnce says nothing of the calls that are still on their way.  The  *)
(* inductive invariant follows a call through the places from which it may *)
(* yet be executed, the channel of a running serve() and the tasks that    *)
(* have no reply: it is in one such place, or was executed, or neither,    *)
(* and it is in none before its client has sent it.                        *)
(***************************************************************************)
EXTENDS ZrpcQueries, ZrpcRefinement, FiniteSetTheorems

\* Metadata queries are told from calls by their key, and a task without a
\* reply is a call.
KindsKnown ==
  \A s \in Server :
    /\ \A q \in HeldQueries(s) : IsEndpoint(q.ke, "service") => q.id.kind = "call"
    /\ \A t \in tasks[s] : t.reply = Pending => IsEndpoint(t.query.ke, "service")

\* Two gets made for the same call of the same client.
SameCall(a, b) == a.client = b.client /\ a.call = b.call

\* The calls that server s may yet execute: in the channel it reads, or tasks.
Waiting(s) == {i \in DOMAIN inbox[s] : Running(s) /\ inbox[s][i].id.kind = "call"}
Computing(s) == {t \in tasks[s] : t.reply = Pending}
LiveIds(s) == {inbox[s][i].id : i \in Waiting(s)} \cup {t.query.id : t \in Computing(s)}

Distinct ==
  \A s \in Server :
    /\ \A i, j \in Waiting(s) : SameCall(inbox[s][i].id, inbox[s][j].id) => i = j
    /\ \A i \in Waiting(s), t \in Computing(s) : ~SameCall(inbox[s][i].id, t.query.id)
    /\ \A t, u \in Computing(s) : SameCall(t.query.id, u.query.id) => t = u

OnePlace == \A r, s \in Server : \A a \in LiveIds(r), b \in LiveIds(s) : SameCall(a, b) => r = s

NotYet == \A s \in Server : \A a \in LiveIds(s), e \in executed : ~SameCall(a, e.id)

Once == \A e, f \in executed : SameCall(e.id, f.id) => e = f

\* Get id is not one that its client has yet to issue.
Spent(id) ==
  \/ id.call < CurrentCall(id.client)
  \/ id.call = CurrentCall(id.client) /\ pc[id.client] = "calling"

AllSpent ==
  /\ \A s \in Server : \A a \in LiveIds(s) : Spent(a)
  /\ \A e \in executed : Spent(e.id)

OnceInv == KindsKnown /\ Distinct /\ OnePlace /\ NotYet /\ Once /\ AllSpent

-----------------------------------------------------------------------------
(* Steps of servers.                                                       *)

LEMMA LiveType ==
  ASSUME TypeInv
  PROVE  /\ \A s \in Server : LiveIds(s) \subseteq QueryId
         /\ \A e \in executed : e.id \in QueryId
<1> USE DEF TypeInv, TypeOK, ZenohTypeOK, ServerTypeOK
<1>1. ASSUME NEW s \in Server, NEW i \in DOMAIN inbox[s]
      PROVE  inbox[s][i] \in Query
  <2>1. inbox[s] \in Seq(Query)
    OBVIOUS
  <2> QED BY <1>1, <2>1, LenProperties, ElementOfSeq
<1>2. ASSUME NEW s \in Server, NEW a \in LiveIds(s)
      PROVE  a \in QueryId
  BY <1>1, <1>2 DEF LiveIds, Waiting, Computing, Query, Task
<1>3. ASSUME NEW e \in executed
      PROVE  e.id \in QueryId
  BY DEF Execution
<1> QED BY <1>2, <1>3

\* Nothing is executed, and a server may only execute what it could before.
LEMMA OnceShrinks ==
  ASSUME OnceInv, UNCHANGED <<executed, clientVars>>,
         \A s \in Server :
           /\ Computing(s)' \subseteq Computing(s)
           /\ \A i \in Waiting(s)' : i \in Waiting(s) /\ inbox'[s][i] = inbox[s][i]
           /\ HeldQueries(s)' \subseteq HeldQueries(s)
  PROVE  OnceInv'
<1> USE DEF OnceInv
<1>1. \A s \in Server : LiveIds(s)' \subseteq LiveIds(s)
  BY DEF LiveIds
<1>2. KindsKnown'
  <2>1. \A s \in Server : \A t \in Computing(s)' : IsEndpoint(t.query.ke, "service")
    BY DEF KindsKnown, Computing
  <2> QED BY <2>1 DEF KindsKnown, Computing
<1>3. Distinct'
  BY DEF Distinct
<1>4. OnePlace' /\ NotYet' /\ Once'
  BY <1>1 DEF OnePlace, NotYet, Once
<1>5. \A id : Spent(id)' <=> Spent(id)
  BY DEF Spent, CurrentCall, clientVars
<1>6. AllSpent'
  BY <1>1, <1>5 DEF AllSpent
<1> QED BY <1>2, <1>3, <1>4, <1>6

\* A call moves from the channel to a task of its own.
LEMMA OnceSpawns ==
  ASSUME TypeInv, OnceInv, NEW s \in Server, Spawns(s), UNCHANGED clientVars
  PROVE  OnceInv'
<1> USE DEF OnceInv, TypeInv, TypeOK, ZenohTypeOK, ServerTypeOK
<1>1. PICK reply : /\ Spawn(s, reply) /\ Receivable(s)
                   /\ reply = Pending => IsEndpoint(Head(inbox[s]).ke, "service")
  BY ReplyNotPending DEF Spawns
<1> DEFINE new == [query |-> Head(inbox[s]), reply |-> reply]
<1>2. inbox[s] \in Seq(Query) /\ inbox[s] # <<>> /\ Running(s)
  BY <1>1 DEF Receivable, Running
<1>3. /\ 1 \in DOMAIN inbox[s] /\ Head(inbox[s]) = inbox[s][1]
      /\ \A i \in DOMAIN Tail(inbox[s]) :
           i + 1 \in DOMAIN inbox[s] /\ Tail(inbox[s])[i] = inbox[s][i + 1] /\ i \in Nat \ {0}
  <2>1. \A i \in DOMAIN Tail(inbox[s]) : i \in Nat \ {0}
    BY <1>2, HeadTailProperties, LenProperties
  <2> QED BY <1>2, <2>1, HeadTailElement
<1>4. /\ inbox'[s] = Tail(inbox[s]) /\ tasks'[s] = tasks[s] \cup {new}
      /\ UNCHANGED <<phase, executed>>
      /\ \A r \in Server : r # s => inbox'[r] = inbox[r] /\ tasks'[r] = tasks[r]
  BY <1>1 DEF Spawn
<1>5. \A r \in Server : HeldQueries(r)' \subseteq HeldQueries(r)
  BY <1>1, SpawnedTask
<1>6. inbox[s][1] \in HeldQueries(s)
  BY <1>3 DEF HeldQueries
<1>7. reply = Pending => 1 \in Waiting(s)
  BY <1>1, <1>2, <1>3, <1>6 DEF KindsKnown, Waiting
<1>8. \A i \in Waiting(s)' :
        i \in Nat \ {0} /\ i + 1 \in Waiting(s) /\ inbox'[s][i] = inbox[s][i + 1]
  BY <1>2, <1>3, <1>4 DEF Waiting, Running
<1>9. \A t \in Computing(s)' : \/ t \in Computing(s)
                               \/ t = new /\ t.query = inbox[s][1] /\ 1 \in Waiting(s)
  BY <1>3, <1>4, <1>7 DEF Computing
<1>10. \A r \in Server : r # s => /\ Waiting(r)' = Waiting(r) /\ Computing(r)' = Computing(r)
                                  /\ LiveIds(r)' = LiveIds(r)
  BY <1>4 DEF Waiting, Computing, LiveIds, Running
<1> HIDE DEF new
<1>11. \A r \in Server : LiveIds(r)' \subseteq LiveIds(r)
  <2>1. LiveIds(s)' \subseteq LiveIds(s)
    BY <1>8, <1>9 DEF LiveIds
  <2> QED BY <1>10, <2>1
<1>12. KindsKnown'
  <2>1. \A t \in Computing(s)' : IsEndpoint(t.query.ke, "service")
    BY <1>1, <1>3, <1>4 DEF KindsKnown, Computing, new
  <2>2. \A r \in Server : \A t \in tasks'[r] : t.reply = Pending => IsEndpoint(t.query.ke, "service")
    BY <1>4, <2>1 DEF KindsKnown, Computing
  <2> QED BY <1>5, <2>2 DEF KindsKnown
<1>13. Distinct'
  <2>1. ASSUME NEW i \in Waiting(s)', NEW j \in Waiting(s)',
               SameCall(inbox'[s][i].id, inbox'[s][j].id)
        PROVE  i = j
    <3>1. i + 1 = j + 1
      BY <1>8, <2>1 DEF Distinct
    <3> QED BY <1>8, <3>1
  <2>2. ASSUME NEW i \in Waiting(s)', NEW t \in Computing(s)'
        PROVE  ~SameCall(inbox'[s][i].id, t.query.id)
    <3>1. i + 1 # 1 /\ i + 1 \in Waiting(s) /\ inbox'[s][i] = inbox[s][i + 1]
      BY <1>8
    <3> QED BY <1>9, <3>1 DEF Distinct
  <2>3. ASSUME NEW t \in Computing(s)', NEW u \in Computing(s)', SameCall(t.query.id, u.query.id)
        PROVE  t = u
    <3>1. \A w \in Computing(s) : 1 \in Waiting(s) => ~SameCall(inbox[s][1].id, w.query.id)
      BY DEF Distinct
    <3>2. CASE t \in Computing(s) /\ u \in Computing(s)
      BY <2>3, <3>2 DEF Distinct
    <3>3. CASE t \notin Computing(s)
      BY <1>9, <2>3, <3>1, <3>3 DEF SameCall
    <3>4. CASE u \notin Computing(s)
      BY <1>9, <2>3, <3>1, <3>4 DEF SameCall
    <3> QED BY <3>2, <3>3, <3>4
  <2>4. ASSUME NEW r \in Server, r # s
        PROVE  /\ \A i, j \in Waiting(r)' : SameCall(inbox'[r][i].id, inbox'[r][j].id) => i = j
               /\ \A i \in Waiting(r)', t \in Computing(r)' :
                    ~SameCall(inbox'[r][i].id, t.query.id)
               /\ \A t, u \in Computing(r)' : SameCall(t.query.id, u.query.id) => t = u
    BY <1>4, <1>10, <2>4 DEF Distinct
  <2> HIDE DEF OnceInv, TypeInv
  <2>5. ASSUME NEW r \in Server
        PROVE  /\ \A i, j \in Waiting(r)' : SameCall(inbox'[r][i].id, inbox'[r][j].id) => i = j
               /\ \A i \in Waiting(r)', t \in Computing(r)' :
                    ~SameCall(inbox'[r][i].id, t.query.id)
               /\ \A t, u \in Computing(r)' : SameCall(t.query.id, u.query.id) => t = u
    <3>1. CASE r = s
      BY <2>1, <2>2, <2>3, <3>1
    <3> QED BY <2>4, <3>1
  <2> QED BY <2>5 DEF Distinct, SameCall
<1>14. OnePlace' /\ NotYet' /\ Once'
  BY <1>4, <1>11 DEF OnePlace, NotYet, Once
<1>15. \A id : Spent(id)' <=> Spent(id)
  BY DEF Spent, CurrentCall, clientVars
<1>16. AllSpent'
  BY <1>4, <1>11, <1>15 DEF AllSpent
<1> QED BY <1>12, <1>13, <1>14, <1>16

\* A handler runs for a call that was live at this server and nowhere else, had
\* not been executed, and is live no more.
LEMMA OnceRuns ==
  ASSUME TypeInv, OnceInv, NEW s \in Server, NEW t \in tasks[s], RunHandler(s, t),
         UNCHANGED clientVars
  PROVE  OnceInv' /\ t.query.id \in LiveIds(s) /\ \A e \in executed : ~SameCall(e.id, t.query.id)
<1> USE DEF OnceInv, TypeInv, TypeOK, ZenohTypeOK, ServerTypeOK
<1> DEFINE new == [id |-> t.query.id, server |-> s, value |-> counter[s] + 1]
<1>1. /\ executed' = executed \cup {new} /\ new.id = t.query.id
      /\ UNCHANGED <<inbox, phase>> /\ t \in Computing(s)
  BY HandlerAnswers DEF RunHandler, Dispatched, Computing
<1>2. \A r \in Server : \A u \in Computing(r)' : u \in Computing(r) /\ (r = s => u # t)
  BY HandlerAnswers DEF Computing
<1>3. \A r \in Server : Waiting(r)' = Waiting(r)
  BY <1>1 DEF Waiting, Running
<1>4. \A r \in Server : LiveIds(r)' \subseteq LiveIds(r)
  BY <1>1, <1>2, <1>3 DEF LiveIds
<1>5. t.query.id \in LiveIds(s)
  BY <1>1 DEF LiveIds
<1>6. \A e \in executed : ~SameCall(e.id, t.query.id)
  BY <1>5 DEF NotYet, SameCall
<1>7. KindsKnown'
  <2>1. PICK reply \in Reply : Finish(s, t, reply)
    <3>1. counter[s] + 1 \in Nat
      OBVIOUS
    <3> QED BY <3>1, HandlerReplyType DEF RunHandler
  <2>2. \A r \in Server : HeldQueries(r)' \subseteq HeldQueries(r)
    BY <1>1, <2>1, FinishedTask
  <2>3. \A r \in Server : \A u \in tasks'[r] : u.reply = Pending => u \in tasks[r]
    BY <1>2 DEF Computing
  <2> QED BY <2>2, <2>3 DEF KindsKnown
<1>8. Distinct'
  BY <1>1, <1>2, <1>3 DEF Distinct
<1>9. OnePlace'
  BY <1>4 DEF OnePlace
<1>10. ASSUME NEW r \in Server, NEW a \in LiveIds(r)'
       PROVE  ~SameCall(a, t.query.id)
  <2>1. CASE r # s
    BY <1>4, <1>5, <2>1 DEF OnePlace
  <2>2. CASE r = s
    <3>1. CASE \E i \in Waiting(s) : a = inbox[s][i].id
      BY <1>1, <3>1 DEF Distinct
    <3>2. CASE \E u \in Computing(s)' : a = u.query.id
      BY <1>1, <1>2, <3>2 DEF Distinct
    <3> QED BY <1>1, <1>3, <1>10, <2>2, <3>1, <3>2 DEF LiveIds
  <2> QED BY <2>1, <2>2
<1> HIDE DEF new
<1>11. NotYet'
  BY <1>1, <1>4, <1>10 DEF NotYet
<1>12. Once'
  BY <1>1, <1>6 DEF Once, SameCall
<1>13. \A id : Spent(id)' <=> Spent(id)
  BY DEF Spent, CurrentCall, clientVars
<1>14. AllSpent'
  BY <1>1, <1>4, <1>5, <1>13 DEF AllSpent
<1> QED BY <1>5, <1>6, <1>7, <1>8, <1>9, <1>11, <1>12, <1>14

LEMMA OnceServer ==
  ASSUME TypeInv, QueryableInv, OnceInv, ServerNext, UNCHANGED clientVars
  PROVE  OnceInv'
<1> USE DEF TypeInv, TypeOK, ZenohTypeOK, ServerTypeOK
<1>1. CASE Sheds
  <2>1. ASSUME NEW s \in Server
        PROVE  /\ Computing(s)' \subseteq Computing(s)
               /\ \A i \in Waiting(s)' : i \in Waiting(s) /\ inbox'[s][i] = inbox[s][i]
               /\ HeldQueries(s)' \subseteq HeldQueries(s)
    <3>1. Computing(s)' \subseteq Computing(s)
      BY <1>1 DEF Sheds, Computing
    <3>2. \A i \in Waiting(s)' : i \in Waiting(s) /\ inbox'[s][i] = inbox[s][i]
      BY <1>1 DEF Sheds, Waiting
    <3> QED BY <1>1, <3>1, <3>2, LostQueries DEF Sheds
  <2> QED BY <1>1, <2>1, OnceShrinks DEF Sheds
<1>2. ASSUME NEW s \in Server, NEW t \in tasks[s], Computes(s, t)
      PROVE  OnceInv'
  <2>1. PICK reply \in Reply : Finish(s, t, reply)
    BY <1>2 DEF Computes
  <2>2. ASSUME NEW r \in Server
        PROVE  /\ Computing(r)' \subseteq Computing(r)
               /\ \A i \in Waiting(r)' : i \in Waiting(r) /\ inbox'[r][i] = inbox[r][i]
               /\ HeldQueries(r)' \subseteq HeldQueries(r)
    <3>1. /\ \A u \in tasks'[r] : u \in tasks[r] \/ u.reply = reply
          /\ HeldQueries(r)' \subseteq HeldQueries(r)
      BY <1>2, <2>1, FinishedTask DEF Computes
    <3>2. \A i \in Waiting(r)' : i \in Waiting(r) /\ inbox'[r][i] = inbox[r][i]
      BY <1>2 DEF Computes, Waiting, Running
    <3> QED BY <3>1, <3>2, ReplyNotPending DEF Computing
  <2> QED BY <1>2, <2>2, OnceShrinks DEF Computes
<1> QED BY <1>1, <1>2, ServerShapes, OnceSpawns, OnceRuns

-----------------------------------------------------------------------------
(* Steps of clients.                                                       *)

\* A client's call number only grows, and it leaves "calling" by returning.
LEMMA SpentStays ==
  ASSUME TypeInv, NEW a \in QueryId, Spent(a),
         \A d \in Client :
           \/ /\ Len(results'[d]) = Len(results[d])
              /\ pc[d] = "calling" => pc'[d] = "calling"
           \/ Len(results'[d]) = Len(results[d]) + 1
  PROVE  Spent(a)'
<1>1. a.client \in Client /\ a.call \in Nat
  BY DEF QueryId
<1>2. Len(results[a.client]) \in Nat
  BY <1>1, LenProperties DEF TypeInv, TypeOK, ClientTypeOK
<1>3. CASE Len(results'[a.client]) = Len(results[a.client]) + 1
  BY <1>1, <1>2, <1>3 DEF Spent, CurrentCall
<1>4. CASE /\ Len(results'[a.client]) = Len(results[a.client])
           /\ pc[a.client] = "calling" => pc'[a.client] = "calling"
  BY <1>1, <1>2, <1>4 DEF Spent, CurrentCall
<1> QED BY <1>1, <1>3, <1>4

\* What a get does to the channels that are read.
LEMMA GetWaiting ==
  ASSUME TypeInv, NEW c \in Client, NEW id \in QueryId, NEW ke \in Seq(KeyToken),
         NEW body \in Body, Get(c, id, ke, body), UNCHANGED serverVars, NEW s \in Server
  PROVE  /\ Computing(s)' = Computing(s)
         /\ \A i \in Waiting(s)' :
              \/ i \in Waiting(s) /\ inbox'[s][i] = inbox[s][i]
              \/ /\ id.kind = "call" /\ i = Len(inbox[s]) + 1 /\ inbox'[s][i].id = id
                 /\ Running(s) /\ ZidOf[s] = Token(ke, 1)
<1> USE DEF TypeInv, TypeOK, ZenohTypeOK
<1> DEFINE query == [id |-> id, ke |-> ke, body |-> body]
<1>1. inbox[s] \in Seq(Query) /\ query \in Query /\ query.id = id
  BY DEF Query
<1> HIDE DEF query
<1>2. Computing(s)' = Computing(s)
  BY DEF Computing, serverVars
<1>3. ASSUME NEW i \in Waiting(s)'
      PROVE  \/ i \in Waiting(s) /\ inbox'[s][i] = inbox[s][i]
             \/ /\ id.kind = "call" /\ i = Len(inbox[s]) + 1 /\ inbox'[s][i].id = id
                /\ Running(s) /\ ZidOf[s] = Token(ke, 1)
  <2>1. Running(s) /\ i \in DOMAIN inbox'[s] /\ inbox'[s][i].id.kind = "call"
    BY <1>3 DEF Waiting, Running, serverVars
  <2>2. CASE s \in Matching(ke)
    <3>1. inbox'[s] = Append(inbox[s], query) /\ ZidOf[s] = Token(ke, 1)
      BY <2>2 DEF Get, Matching, query
    <3>2. CASE i \in 1..Len(inbox[s])
      <4>1. i \in DOMAIN inbox[s] /\ inbox'[s][i] = inbox[s][i]
        BY <1>1, <3>1, <3>2, AppendProperties, LenProperties
      <4> QED BY <2>1, <4>1 DEF Waiting
    <3>3. CASE i \notin 1..Len(inbox[s])
      <4>1. i = Len(inbox[s]) + 1 /\ inbox'[s][i] = query
        <5>1. /\ inbox'[s] \in Seq(Query) /\ Len(inbox'[s]) = Len(inbox[s]) + 1
              /\ inbox'[s][Len(inbox[s]) + 1] = query
          BY <1>1, <3>1, AppendProperties
        <5>2. i \in 1..(Len(inbox[s]) + 1) /\ Len(inbox[s]) \in Nat
          BY <1>1, <2>1, <5>1, LenProperties
        <5> QED BY <3>3, <5>1, <5>2
      <4> QED BY <1>1, <2>1, <3>1, <4>1
    <3> QED BY <3>2, <3>3
  <2>3. CASE s \notin Matching(ke)
    BY <2>1, <2>3 DEF Get, Waiting
  <2> QED BY <2>2, <2>3
<1> QED BY <1>2, <1>3

\* A call is put in at most one channel that is read, and for the first time.
LEMMA OnceGets ==
  ASSUME TypeInv, OnceInv, OneServing, NEW c \in Client,
         RawGet(c) \/ AskMetadata(c) \/ SendCall(c), UNCHANGED serverVars
  PROVE  OnceInv'
<1> USE DEF OnceInv
<1>1. PICK kind \in {"metadata", "call"}, z \in Zid, ke \in Seq(KeyToken), body \in Body :
        /\ GetId(c, kind, z) \in QueryId
        /\ Token(ke, 1) = z
        /\ Get(c, GetId(c, kind, z), ke, body)
        /\ kind = "metadata" => AskMetadata(c) /\ ke = MetadataKey(z)
        /\ kind = "call" => RawGet(c) \/ SendCall(c)
  BY ClientGets
<1>2. PICK id \in QueryId : /\ id = GetId(c, kind, z)
                           /\ id.kind = kind /\ id.client = c /\ id.call = CurrentCall(c)
  BY <1>1 DEF GetId
<1>3. /\ results' = results /\ pc[c] # "calling"
      /\ kind = "call" => pc'[c] = "calling"
      /\ \A d \in Client : d # c => pc'[d] = pc[d]
  BY <1>1 DEF RawGet, AskMetadata, SendCall, MayCall, TypeInv, TypeOK, ClientTypeOK
<1>4. Get(c, id, ke, body)
  BY <1>1, <1>2
<1>5. \A a \in QueryId : Spent(a) => Spent(a)' /\ ~SameCall(a, id)
  <2>1. \A a \in QueryId : Spent(a) => Spent(a)'
    BY <1>3, SpentStays
  <2>2. ASSUME NEW a \in QueryId, SameCall(a, id)
        PROVE  ~Spent(a)
    <3>1. a.client = c /\ a.call = CurrentCall(c) /\ CurrentCall(c) \in Nat
      BY <1>2, <2>2, LenProperties DEF SameCall, CurrentCall, TypeInv, TypeOK, ClientTypeOK
    <3> QED BY <1>3, <3>1 DEF Spent
  <2> QED BY <2>1, <2>2
<1>6. kind = "call" => Spent(id)'
  BY <1>2, <1>3 DEF Spent, CurrentCall
<1>7. \A s \in Server :
        /\ Computing(s)' = Computing(s)
        /\ \A i \in Waiting(s)' :
             \/ i \in Waiting(s) /\ inbox'[s][i] = inbox[s][i]
             \/ /\ kind = "call" /\ i = Len(inbox[s]) + 1 /\ inbox'[s][i].id = id
                /\ Running(s) /\ ZidOf[s] = z
  BY <1>1, <1>2, <1>4, GetWaiting
<1>8. \A s \in Server : \A a \in LiveIds(s)' :
        a \in LiveIds(s) \/ (a = id /\ kind = "call" /\ Running(s) /\ ZidOf[s] = z)
  BY <1>7 DEF LiveIds
<1>9. \A s \in Server : \A a \in LiveIds(s) : a \in QueryId /\ ~SameCall(a, id) /\ ~SameCall(id, a)
  BY <1>5, LiveType DEF AllSpent, SameCall
<1>10. \A e \in executed : ~SameCall(id, e.id)
  BY <1>5, LiveType DEF AllSpent, SameCall
<1>11. KindsKnown'
  <2>1. \A s \in Server : \A q \in HeldQueries(s)' :
          \/ q \in HeldQueries(s)
          \/ q = [id |-> id, ke |-> ke, body |-> body]
    BY <1>2, <1>4, GetQueries DEF serverVars
  <2>2. kind = "metadata" => ~IsEndpoint(ke, "service")
    BY <1>1 DEF IsEndpoint, Token, HasToken, MetadataKey
  <2>3. \A s \in Server : \A q \in HeldQueries(s)' : IsEndpoint(q.ke, "service") => q.id.kind = "call"
    BY <1>2, <2>1, <2>2 DEF KindsKnown
  <2> QED BY <2>3 DEF KindsKnown, serverVars
<1>12. Distinct'
  <2> SUFFICES ASSUME NEW s \in Server
               PROVE  /\ \A i, j \in Waiting(s)' :
                           SameCall(inbox'[s][i].id, inbox'[s][j].id) => i = j
                      /\ \A i \in Waiting(s)', t \in Computing(s)' :
                           ~SameCall(inbox'[s][i].id, t.query.id)
                      /\ \A t, u \in Computing(s)' : SameCall(t.query.id, u.query.id) => t = u
    BY DEF Distinct, SameCall
  <2>1. /\ \A i \in Waiting(s) : inbox[s][i].id \in LiveIds(s)
        /\ \A t \in Computing(s) : t.query.id \in LiveIds(s)
    BY DEF LiveIds
  <2>2. ASSUME NEW i \in Waiting(s)', NEW j \in Waiting(s)',
               SameCall(inbox'[s][i].id, inbox'[s][j].id)
        PROVE  i = j
    <3>1. CASE i \in Waiting(s) /\ inbox'[s][i] = inbox[s][i]
      BY <1>7, <1>9, <2>1, <2>2, <3>1 DEF Distinct
    <3>2. CASE i = Len(inbox[s]) + 1 /\ inbox'[s][i].id = id
      BY <1>7, <1>9, <2>1, <2>2, <3>2
    <3> QED BY <1>7, <3>1, <3>2
  <2>3. ASSUME NEW i \in Waiting(s)', NEW t \in Computing(s)'
        PROVE  ~SameCall(inbox'[s][i].id, t.query.id)
    BY <1>7, <1>9, <2>1 DEF Distinct
  <2> QED BY <1>7, <2>2, <2>3 DEF Distinct
<1>13. OnePlace'
  <2>1. ASSUME NEW r \in Server, NEW s \in Server,
               NEW a \in LiveIds(r)', NEW b \in LiveIds(s)', SameCall(a, b)
        PROVE  r = s
    <3>1. CASE a \in LiveIds(r) /\ b \in LiveIds(s)
      BY <2>1, <3>1 DEF OnePlace
    <3>2. CASE a = id /\ b = id /\ Running(r) /\ Running(s) /\ ZidOf[r] = z /\ ZidOf[s] = z
      BY <3>2 DEF OneServing
    <3> QED BY <1>8, <1>9, <2>1, <3>1, <3>2
  <2> QED BY <2>1 DEF OnePlace, SameCall
<1>14. NotYet'
  <2>1. \A s \in Server : \A a \in LiveIds(s)', e \in executed : ~SameCall(a, e.id)
    BY <1>8, <1>10 DEF NotYet
  <2> QED BY <2>1 DEF NotYet, SameCall, serverVars
<1>15. Once'
  BY DEF Once, SameCall, serverVars
<1>16. AllSpent'
  <2>1. \A s \in Server : \A a \in LiveIds(s)' : Spent(a)'
    BY <1>5, <1>6, <1>8, <1>9 DEF AllSpent
  <2>2. \A e \in executed : Spent(e.id)'
    BY <1>5, LiveType DEF AllSpent
  <2> QED BY <2>1, <2>2 DEF AllSpent, serverVars
<1> QED BY <1>11, <1>12, <1>13, <1>14, <1>15, <1>16

\* Nothing else that a client does can make a server execute anything.
LEMMA OnceQuiet ==
  ASSUME TypeInv, OnceInv, UNCHANGED <<inbox, serverVars>>,
         \A d \in Client :
           \/ /\ Len(results'[d]) = Len(results[d])
              /\ pc[d] = "calling" => pc'[d] = "calling"
           \/ Len(results'[d]) = Len(results[d]) + 1
  PROVE  OnceInv'
<1> USE DEF OnceInv
<1>1. \A s \in Server : /\ Waiting(s)' = Waiting(s) /\ Computing(s)' = Computing(s)
                        /\ LiveIds(s)' = LiveIds(s)
  BY DEF Waiting, Computing, LiveIds, Running, serverVars
<1>2. KindsKnown'
  BY DEF KindsKnown, HeldQueries, serverVars
<1>3. Distinct'
  BY <1>1 DEF Distinct, SameCall
<1>4. OnePlace' /\ NotYet' /\ Once'
  BY <1>1 DEF OnePlace, NotYet, Once, serverVars
<1>5. AllSpent'
  BY <1>1, LiveType, SpentStays DEF AllSpent, serverVars
<1> QED BY <1>2, <1>3, <1>4, <1>5

LEMMA OnceClient ==
  ASSUME TypeInv, OnceInv, OneServing, NEW c \in Client,
         StartCall(c) \/ ClientProgress(c) \/ Interrupted(c), UNCHANGED serverVars
  PROVE  OnceInv'
<1> USE DEF TypeInv, TypeOK, ClientTypeOK
<1>1. CASE Discover(c, Advertising(ClientService[c])) \/ TakeMetadata(c) \/ MetadataClosed(c)
  BY <1>1, OnceQuiet DEF Discover, MayCall, TakeMetadata, MetadataClosed, zenohVars
<1>2. ASSUME NEW result, ReturnFromGet(c, result) \/ ReturnWithoutGet(c, result)
      PROVE  OnceInv'
  <2>1. UNCHANGED inbox /\ Return(c, result)
    BY <1>2 DEF ReturnFromGet, ReturnWithoutGet, zenohVars
  <2>2. Len(results'[c]) = Len(results[c]) + 1
    <3>1. results'[c] = Append(results[c], result) /\ results[c] \in Seq(Result)
      BY <2>1 DEF Return
    <3> QED BY <3>1
  <2>3. \A d \in Client : d # c => results'[d] = results[d] /\ pc'[d] = pc[d]
    BY <2>1 DEF Return
  <2> QED BY <2>1, <2>2, <2>3, OnceQuiet
<1> QED BY <1>1, <1>2, OnceGets, ClientListens

LEMMA OnceStep ==
  ASSUME TypeInv, QueryableInv, OneServing, OnceInv, [Next]_vars
  PROVE  OnceInv'
<1>1. CASE \E c \in Client : QueryTimeout(c) /\ UNCHANGED <<serverVars, clientVars>>
  BY <1>1, OnceQuiet DEF QueryTimeout, clientVars
<1>2. CASE UNCHANGED vars
  BY <1>2, OnceQuiet DEF vars, zenohVars, clientVars
<1> QED BY <1>1, <1>2, OnceServer, OnceClient DEF Next

\* While a session id is served by one server at a time, each call is live in
\* one place, or executed, or neither.
THEOREM OnceInvariance == Spec /\ []OneServing => []OnceInv
<1>1. Init => OnceInv
  BY DEF Init, ZenohInit, ServerInit, OnceInv, KindsKnown, HeldQueries, Distinct, OnePlace,
         NotYet, Once, AllSpent, Waiting, Computing, LiveIds, Running
<1>2. TypeInv /\ QueryableInv /\ OneServing /\ OnceInv /\ [Next]_vars => OnceInv'
  BY OnceStep
<1> QED BY <1>1, <1>2, TypeInvariance, QueryableInvariance, PTL DEF Spec

\* A call runs its handler at most once, whatever is lost, late or repeated, if
\* no two servers run under one session id at the same time.
THEOREM OnceCorrect == Spec /\ []OneServing => []AtMostOnce
<1>1. OnceInv => AtMostOnce
  BY DEF OnceInv, Once, SameCall, AtMostOnce
<1> QED BY <1>1, OnceInvariance, PTL

\* Servers that are only started under an id that no running server has never
\* overlap,
LEMMA TimedNoOverlap == TimedSpec => Spec /\ []OneServing
<1>1. Init => OneServing
  BY DEF Init, ServerInit, OneServing, Running
<1>2. OneServing /\ [Next /\ OneServing']_vars => [Next]_vars /\ OneServing'
  BY DEF OneServing, Running, vars, serverVars
<1> QED BY <1>1, <1>2, PTL DEF TimedSpec, Spec

\* so that a call runs its handler at most once,
COROLLARY OnceTimed == TimedSpec => []AtMostOnce
BY TimedNoOverlap, OnceCorrect, PTL

OwnSession == \A s, t \in Server : ZidOf[s] = ZidOf[t] => s = t

\* and so it does when every server has a session of its own.
COROLLARY OnceOwnSession ==
  ASSUME OwnSession
  PROVE  Spec => []AtMostOnce
<1>1. OneServing
  BY DEF OwnSession, OneServing
<1> QED BY <1>1, OnceCorrect, PTL

-----------------------------------------------------------------------------
(* The executions of a server are numbered.                                *)

ExecutionsOn(s) == {x \in Executions : x.server = s}

CounterInv ==
  \A s \in Server : IsFiniteSet(ExecutionsOn(s)) /\ Cardinality(ExecutionsOn(s)) = counter[s]

\* What a run of a handler adds to the executions.
LEMMA RunExecutes ==
  ASSUME TypeInv, OnceInv, NEW s \in Server, NEW t \in tasks[s], RunHandler(s, t),
         UNCHANGED clientVars,
         NEW x, x = [client |-> t.query.id.client, call |-> t.query.id.call,
                     server |-> s, value |-> counter[s] + 1]
  PROVE  /\ Executions' = Executions \cup {x}
         /\ \A y \in Executions : ~(y.client = x.client /\ y.call = x.call)
<1>1. executed' = executed \cup
                    {[id |-> t.query.id, server |-> s, value |-> counter[s] + 1]}
  BY HandlerAnswers
<1>2. \A e \in executed : ~SameCall(e.id, t.query.id)
  BY OnceRuns
<1> DEFINE new == [id |-> t.query.id, server |-> s, value |-> counter[s] + 1]
           told(e) == [client |-> e.id.client, call |-> e.id.call,
                       server |-> e.server, value |-> e.value]
<1>3. Executions' = Executions \cup {x}
  <2>1. Executions' = {told(e) : e \in executed'} /\ Executions = {told(e) : e \in executed}
    BY DEF Executions
  <2>2. told(new) = x
    OBVIOUS
  <2> HIDE DEF told, new
  <2>3. executed' = executed \cup {new}
    BY <1>1 DEF new
  <2> QED BY <2>1, <2>2, <2>3
<1>4. \A y \in Executions : ~(y.client = x.client /\ y.call = x.call)
  BY <1>2 DEF Executions, SameCall
<1> QED BY <1>3, <1>4

\* Whatever else happens leaves counters and executions alone.
LEMMA ExecutesNothing ==
  ASSUME TypeInv, QueryableInv, [Next]_vars
  PROVE  \/ UNCHANGED <<counter, executed>>
         \/ \E s \in Server : \E t \in tasks[s] : RunHandler(s, t) /\ UNCHANGED clientVars
<1>1. ASSUME NEW s \in Server, TaskStep(s)
      PROVE  UNCHANGED <<counter, executed>> \/ \E t \in tasks[s] : RunHandler(s, t)
  BY <1>1 DEF TaskStep, MethodMissing, MethodUnknown, HandlerPanics, ProcessDies, SendReply
<1>2. ASSUME NEW s \in Server, DeclareQueryable(s) \/ ServeProgress(s) \/ ServeCutShort(s)
      PROVE  UNCHANGED <<counter, executed>>
  BY <1>2
     DEF ServeProgress, ServeCutShort, DeclareQueryable, QueryableRefused, DeclareToken,
         TokenRefused, AbortServe, EnterLoop, ReceiveServiceCall, ReceiveMetadata, ReceiveUnknown,
         ReceiveEndsServe, ServeEnds, Spawn
<1>3. CASE ServerNext /\ UNCHANGED clientVars
  <2>1. ASSUME NEW s \in Server, DropServer(s) PROVE UNCHANGED <<counter, executed>>
    BY <2>1 DEF DropServer, Gone
  <2>2. ASSUME NEW z \in Zid, CloseSession(z) \/ LeaseExpires(z)
        PROVE  UNCHANGED <<counter, executed>>
    BY <2>2 DEF CloseSession, LeaseExpires, Gone
  <2>3. ASSUME NEW z \in Crashable, Crash(z) PROVE UNCHANGED <<counter, executed>>
    BY <2>3 DEF Crash, ProcessDies
  <2> QED BY <1>1, <1>2, <1>3, <2>1, <2>2, <2>3 DEF ServerNext
<1> QED BY <1>3 DEF Next, vars, serverVars

LEMMA CounterStep ==
  ASSUME TypeInv, QueryableInv, OnceInv, CounterInv, [Next]_vars
  PROVE  CounterInv'
<1>1. CASE UNCHANGED <<counter, executed>>
  BY <1>1 DEF CounterInv, ExecutionsOn, Executions
<1>2. ASSUME NEW s \in Server, NEW t \in tasks[s], RunHandler(s, t), UNCHANGED clientVars
      PROVE  CounterInv'
  <2>1. PICK x : x = [client |-> t.query.id.client, call |-> t.query.id.call,
                      server |-> s, value |-> counter[s] + 1]
    OBVIOUS
  <2>2. /\ Executions' = Executions \cup {x}
        /\ \A y \in Executions : ~(y.client = x.client /\ y.call = x.call)
    BY <1>2, <2>1, RunExecutes
  <2>3. x.server = s
    BY <2>1
  <2>4. /\ ExecutionsOn(s)' = ExecutionsOn(s) \cup {x} /\ x \notin ExecutionsOn(s)
        /\ \A r \in Server : r # s => ExecutionsOn(r)' = ExecutionsOn(r)
    BY <2>2, <2>3 DEF ExecutionsOn
  <2>5. /\ IsFiniteSet(ExecutionsOn(s)')
        /\ Cardinality(ExecutionsOn(s)') = Cardinality(ExecutionsOn(s)) + 1
    BY <2>4, FS_AddElement DEF CounterInv
  <2>6. counter'[s] = counter[s] + 1 /\ \A r \in Server : r # s => counter'[r] = counter[r]
    BY <1>2 DEF RunHandler, TypeInv, TypeOK, ServerTypeOK
  <2> QED BY <2>4, <2>5, <2>6 DEF CounterInv
<1> QED BY <1>1, <1>2, ExecutesNothing

\* The counter behind the handlers of a server is the number of its executions.
THEOREM CounterInvariance == Spec /\ []OneServing => []CounterInv
<1>1. Init => CounterInv
  BY FS_EmptySet DEF Init, ServerInit, CounterInv, ExecutionsOn, Executions
<1>2. TypeInv /\ QueryableInv /\ OnceInv /\ CounterInv /\ [Next]_vars => CounterInv'
  BY CounterStep
<1> QED BY <1>1, <1>2, TypeInvariance, QueryableInvariance, OnceInvariance, PTL DEF Spec

-----------------------------------------------------------------------------
(* Every step is a step of AtMostOnceRpc or leaves its variables alone.    *)

RpcStutters == UNCHANGED <<Calling, Executions, results>>

\* A handler that runs is an execution of a call that has begun, was not
\* executed before and is one that this server may execute.
LEMMA RunIsExecute ==
  ASSUME RawClient = {}, TypeInv, OnceInv, CounterInv, LabelsRespected',
         NEW s \in Server, NEW t \in tasks[s], RunHandler(s, t), UNCHANGED clientVars
  PROVE  Rpc!Next
<1> DEFINE c == t.query.id.client
           n == t.query.id.call
<1>0. PICK x : x = [client |-> c, call |-> n, server |-> s, value |-> counter[s] + 1]
  OBVIOUS
<1>1. t.query.id \in LiveIds(s)
  BY OnceRuns
<1>2. t.query.id \in QueryId /\ Spent(t.query.id)
  BY <1>1, LiveType DEF OnceInv, AllSpent
<1>3. c \in Client /\ n \in Nat \ {0}
  BY <1>2 DEF QueryId
<1>4. /\ Executions' = Executions \cup {x}
      /\ \A y \in Executions : ~(y.client = x.client /\ y.call = x.call)
  BY <1>0, RunExecutes
<1>5. n \in 1..Rpc!Begun(c)
  <2>1. Len(results[c]) \in Nat
    BY <1>3, LenProperties DEF TypeInv, TypeOK, ClientTypeOK
  <2>2. n < Len(results[c]) + 1 \/ (n = Len(results[c]) + 1 /\ c \in Calling)
    BY <1>2, <1>3 DEF Spent, CurrentCall, Calling
  <2> HIDE DEF c, n
  <2>3. Rpc!Begun(c) = Len(results[c]) + IF c \in Calling THEN 1 ELSE 0
    BY DEF Rpc!Begun
  <2>4. CASE c \in Calling
    BY <1>3, <2>1, <2>2, <2>3, <2>4
  <2>5. CASE c \notin Calling
    BY <1>3, <2>1, <2>2, <2>3, <2>5
  <2> QED BY <2>4, <2>5
<1>6. Suitable(c, s)
  <2>1. PICK e \in executed' : e.id.client = c /\ e.server = s
    <3>1. PICK e : e = [id |-> t.query.id, server |-> s, value |-> counter[s] + 1]
      OBVIOUS
    <3>2. e \in executed'
      BY <3>1, HandlerAnswers
    <3> QED BY <3>1, <3>2
  <2>2. c \in GeneratedClient
    BY <1>3 DEF GeneratedClient
  <2> QED BY <2>1, <2>2 DEF LabelsRespected, Suitable
<1>7. Cardinality({e \in Executions : e.server = s}) = counter[s]
  BY DEF CounterInv, ExecutionsOn
<1>8. Calling' = Calling /\ results' = results
  BY DEF clientVars, Calling
<1>9. Rpc!ExecutionsOf(c, n) = {}
  BY <1>0, <1>4 DEF Rpc!ExecutionsOf
<1>10. Rpc!Execute(c, n, s)
  <2> HIDE DEF c, n
  <2>1. s \in [d \in Client |-> {r \in Server : Suitable(d, r)}][c]
    BY <1>3, <1>6
  <2>2. Executions' = Executions \cup
          {[client |-> c, call |-> n, server |-> s,
            value |-> Cardinality({e \in Executions : e.server = s}) + 1]}
    BY <1>0, <1>4, <1>7
  <2>3. \A S : Rpc!Cardinality(S) = Cardinality(S)
    BY DEF Rpc!Cardinality, Cardinality, Rpc!IsFiniteSet, IsFiniteSet
  <2> QED BY <1>8, <1>9, <2>1, <2>2, <2>3 DEF Rpc!Execute
<1> HIDE DEF c, n
<1> QED BY <1>3, <1>5, <1>10 DEF Rpc!Next

\* The end of a call, as the abstract specification has it.
LEMMA ReturnIsFinish ==
  ASSUME TypeInv, NEW c \in Client, NEW result, Return(c, result), UNCHANGED serverVars
  PROVE  Rpc!Finish(c, result)
<1>1. Calling' = Calling \ {c}
  BY DEF Return, Calling, TypeInv, TypeOK, ClientTypeOK
<1>2. Executions' = Executions
  BY DEF serverVars, Executions
<1>3. results' = [results EXCEPT ![c] = Append(@, result)]
  BY DEF Return
<1> QED BY <1>1, <1>2, <1>3 DEF Rpc!Finish

\* A reply that was taken succeeds the call if a handler computed it, and fails
\* it otherwise.
LEMMA TakeReplyEnds ==
  ASSUME TypeInv, OkInv, NEW c \in Client, TakeReply(c), UNCHANGED serverVars
  PROVE  Rpc!Succeed(c) \/ Rpc!Fail(c)
<1> DEFINE r == Head(open[c].replies)
<1>1. open[c].replies \in Seq(Reply) /\ open[c].replies # <<>> /\ pc[c] = "calling"
  BY DEF TakeReply, TypeInv, TypeOK, ZenohTypeOK, OpenGet
<1>2. r \in Reply /\ Answered(open[c].id, r)
  BY <1>1, HeadTailElement, HeadTailProperties DEF OkInv, RepliesAnswered
<1>3. Return(c, CallResult(r))
  BY DEF TakeReply, ReturnFromGet
<1> HIDE DEF r
<1>4. Rpc!Finish(c, CallResult(r))
  BY <1>3, ReturnIsFinish
<1>5. CASE r.kind # "error" /\ r.payload.kind = "value"
  <2>1. CallResult(r) = [kind |-> "ok", value |-> r.payload.value]
    BY <1>5 DEF CallResult, Ok
  <2>2. r.kind = "sample"
    BY <1>2, <1>5 DEF Reply, ReplyError
  <2>3. PICK e \in executed : e.id = open[c].id /\ e.value = r.payload.value
    BY <1>2, <1>5, <2>2 DEF Answered
  <2>4. e.id.client = c /\ e.id.call = Len(results[c]) + 1
    BY <1>1, <2>3 DEF OkInv, OpenIsMine, CurrentCall
  <2>5. c \in Calling /\ Rpc!Begun(c) = Len(results[c]) + 1
    BY <1>1 DEF Calling, Rpc!Begun
  <2>6. PICK x \in Executions : x.client = c /\ x.call = Len(results[c]) + 1 /\ x.value = e.value
    <3>1. PICK x : x = [client |-> e.id.client, call |-> e.id.call,
                        server |-> e.server, value |-> e.value]
      OBVIOUS
    <3>2. x \in Executions
      BY <3>1 DEF Executions
    <3> QED BY <2>4, <3>1, <3>2
  <2>7. x \in Rpc!ExecutionsOf(c, Rpc!Begun(c))
    BY <2>5, <2>6 DEF Rpc!ExecutionsOf
  <2>8. Rpc!Finish(c, [kind |-> "ok", value |-> x.value])
    BY <1>4, <2>1, <2>3, <2>6
  <2> QED BY <2>5, <2>7, <2>8 DEF Rpc!Succeed
<1>6. CASE r.kind = "error" \/ r.payload.kind # "value"
  <2>1. PICK code \in Code : CallResult(r) = [kind |-> "err", code |-> code]
    BY <1>2, <1>6 DEF CallResult, Err, Reply, ReplyError, Code, ErrorCode
  <2> QED BY <1>4, <2>1 DEF Rpc!Fail
<1> QED BY <1>5, <1>6

LEMMA ClientIsRpc ==
  ASSUME RawClient = {}, TypeInv, OkInv, NEW c \in Client,
         StartCall(c) \/ ClientProgress(c) \/ Interrupted(c), UNCHANGED serverVars
  PROVE  Rpc!Next \/ RpcStutters
<1> USE DEF TypeInv, TypeOK, ClientTypeOK
<1>1. Executions' = Executions
  BY DEF serverVars, Executions
<1>2. CASE Discover(c, Advertising(ClientService[c]))
  <2>1. c \notin Calling /\ Calling' = Calling \cup {c} /\ results' = results
    BY <1>2 DEF Discover, MayCall, Calling
  <2> QED BY <1>1, <2>1 DEF Rpc!Begin, Rpc!Next
<1>3. CASE AskMetadata(c) \/ TakeMetadata(c) \/ MetadataClosed(c) \/ SendCall(c)
  <2>1. Calling' = Calling /\ results' = results
    BY <1>3 DEF AskMetadata, TakeMetadata, MetadataClosed, SendCall, Calling
  <2> QED BY <1>1, <2>1 DEF RpcStutters
<1>4. ASSUME NEW code \in Code, Return(c, Err(code))
      PROVE  Rpc!Next
  <2>1. Rpc!Finish(c, [kind |-> "err", code |-> code])
    BY <1>4, ReturnIsFinish DEF Err
  <2> QED BY <2>1 DEF Rpc!Fail, Rpc!Next
<1>5. "Unavailable" \in Code /\ "InternalError" \in Code
  BY DEF Code, ErrorCode
<1>6. CASE NoServerFound(c) \/ SerializeFails(c) \/ NoReply(c) \/ LivelinessFails(c) \/ ForeignToken(c)
           \/ AskMetadataFails(c) \/ SendFails(c)
  BY <1>4, <1>5, <1>6 DEF NoServerFound, SerializeFails, NoReply, LivelinessFails, ForeignToken,
       AskMetadataFails, SendFails, ReturnFromGet, ReturnWithoutGet
<1>7. CASE Cancel(c)
  <2>1. c \in Calling /\ Return(c, Cancelled)
    BY <1>7 DEF Cancel, ReturnFromGet, Calling
  <2>2. Rpc!Finish(c, [kind |-> "cancelled"])
    BY <2>1, ReturnIsFinish DEF Cancelled
  <2> QED BY <2>1, <2>2 DEF Rpc!Abandon, Rpc!Next
<1>8. CASE TakeReply(c)
  BY <1>8, TakeReplyEnds DEF Rpc!Next
<1>9. ~RawGet(c)
  BY DEF RawGet
<1> QED BY <1>2, <1>3, <1>6, <1>7, <1>8, <1>9 DEF StartCall, ClientProgress, Interrupted

LEMMA StepIsRpc ==
  ASSUME RawClient = {}, TypeInv, QueryableInv, OkInv, OnceInv, CounterInv,
         LabelsRespected', [Next]_vars
  PROVE  [Rpc!Next]_(Rpc!rpcVars)
<1> SUFFICES Rpc!Next \/ RpcStutters
  BY DEF RpcStutters, Rpc!rpcVars
<1>1. ASSUME UNCHANGED <<executed, clientVars>>
      PROVE  RpcStutters
  BY <1>1 DEF clientVars, RpcStutters, Calling, Executions
<1>2. CASE ServerNext /\ UNCHANGED clientVars
  BY <1>1, <1>2, ExecutesNothing, RunIsExecute
<1>3. CASE \E c \in Client : (StartCall(c) \/ ClientProgress(c) \/ Interrupted(c))
                             /\ UNCHANGED serverVars
  BY <1>3, ClientIsRpc
<1>4. CASE \E c \in Client : QueryTimeout(c) /\ UNCHANGED <<serverVars, clientVars>>
  BY <1>1, <1>4 DEF serverVars
<1>5. CASE UNCHANGED vars
  BY <1>1, <1>5 DEF vars, serverVars
<1> QED BY <1>2, <1>3, <1>4, <1>5 DEF Next

\* Sessions, queries, timers, crashes and lost answers add up to an at-most-once
\* call: Zenoh, the servers and the generated clients implement AtMostOnceRpc,
\* if servers that share a session id are interchangeable and do not overlap.
THEOREM RpcCorrect ==
  ASSUME Interchangeable, RawClient = {}
  PROVE  Spec /\ []OneServing => ImplementsRpc
<1>1. Init => Rpc!Init
  BY DEF Init, ServerInit, ClientInit, Calling, Executions, Rpc!Init
<1>2. TypeInv /\ QueryableInv /\ OkInv /\ OnceInv /\ CounterInv /\ LabelsRespected'
        /\ [Next]_vars => [Rpc!Next]_(Rpc!rpcVars)
  BY StepIsRpc
<1> QED
  BY <1>1, <1>2, TypeInvariance, QueryableInvariance, OkInvariance, OnceInvariance,
     CounterInvariance, LabelsCorrect, PTL DEF Spec, ImplementsRpc, Rpc!Spec

\* In particular they do so when servers succeed each other under their ids,
COROLLARY RpcTimed ==
  ASSUME Interchangeable, RawClient = {}
  PROVE  TimedSpec => ImplementsRpc
BY TimedNoOverlap, RpcCorrect, PTL

\* or when each has a session of its own.
COROLLARY RpcOwnSession ==
  ASSUME OwnSession, RawClient = {}
  PROVE  Spec => ImplementsRpc
<1>1. Interchangeable
  BY DEF OwnSession, Interchangeable
<1>2. OneServing
  BY DEF OwnSession, OneServing
<1> QED BY <1>1, <1>2, RpcCorrect, PTL
=============================================================================
