----------------------------- MODULE PoolProofs -----------------------------
(***************************************************************************)
(* Theorems about WorkerPool, for any number of calls, in tasks or not, of *)
(* workers and of places in the channel.                                   *)
(***************************************************************************)
EXTENDS WorkerPool, FiniteSetTheorems, SequenceTheorems, TLAPS

USE DEF CallPc

\* There are workers, and there is room for something.
LEMMA SizeType ==
  PoolTypeOK => Workers \in Nat \ {0} /\ Capacity \in Nat \ {0} /\ Spawned \subseteq Caller
  BY PoolAssumption DEF PoolTypeOK, Workers, Capacity, Spawned

LEMMA SizeFixed ==
  ASSUME UNCHANGED size
  PROVE  Workers' = Workers /\ Capacity' = Capacity /\ Spawned' = Spawned
  BY DEF Workers, Capacity, Spawned

\* No step changes the runtime.
LEMMA FixedSize == ASSUME [PoolNext]_poolVars PROVE Workers' = Workers /\ Spawned' = Spawned
  BY SizeFixed DEF PoolNext, CallerStep, StartListing, Listed, AskMetadata, SendCall, Resume,
     ResumeExpired, Goes, Expire, RuntimeStep, ServeTurn, TaskReplies, RemoteQuery, poolVars

\* Putting one more query in a channel with room.
LEMMA PushType ==
  ASSUME PoolTypeOK, Room, NEW c \in Caller \cup Remote, NEW kind \in {"metadata", "call"},
         Push(c, kind)
  PROVE  inbox' \in Seq(PoolQuery) /\ Len(inbox') <= Capacity
  BY SizeType DEF PoolTypeOK, Room, Push, PoolQuery

LEMMA PoolTypeStep == PoolTypeOK /\ [PoolNext]_poolVars => PoolTypeOK'
  <1> SUFFICES ASSUME PoolTypeOK, [PoolNext]_poolVars PROVE PoolTypeOK'
    OBVIOUS
  <1>1. ASSUME NEW c \in Caller, CallerStep(c) PROVE PoolTypeOK'
    <2>1. CASE StartListing(c)
      BY <2>1, SizeFixed DEF StartListing, Goes, PoolTypeOK
    <2>2. CASE Listed(c)
      BY <2>2, SizeFixed DEF Listed, Goes, PoolTypeOK
    <2>3. CASE AskMetadata(c)
      BY <2>3, PushType, SizeFixed DEF AskMetadata, WakesInSlot, Goes, PoolTypeOK
    <2>4. CASE SendCall(c)
      BY <2>4, PushType, SizeFixed DEF SendCall, Goes, PoolTypeOK
    <2>5. CASE Resume(c)
      BY <2>5, SizeFixed DEF Resume, Goes, PoolTypeOK
    <2>6. CASE ResumeExpired(c)
      BY <2>6, SizeFixed DEF ResumeExpired, Goes, PoolTypeOK
    <2> QED
      BY <1>1, <2>1, <2>2, <2>3, <2>4, <2>5, <2>6 DEF CallerStep
  <1>2. ASSUME NEW c \in Caller, Expire(c) PROVE PoolTypeOK'
    BY <1>2, SizeFixed DEF Expire, PoolTypeOK
  <1>3. CASE ServeTurn
    <2>1. /\ Head(inbox) \in PoolQuery
          /\ Tail(inbox) \in Seq(PoolQuery)
          /\ Len(Tail(inbox)) = Len(inbox) - 1
      BY <1>3, HeadTailProperties DEF ServeTurn, PoolTypeOK
    <2> QED
      BY <1>3, <2>1, SizeType, SizeFixed DEF ServeTurn, PoolTypeOK
  <1>4. ASSUME NEW q \in tasks, TaskReplies(q) PROVE PoolTypeOK'
    BY <1>4, SizeFixed DEF TaskReplies, Answered, PoolTypeOK
  <1>5. ASSUME NEW r \in Remote, RemoteQuery(r) PROVE PoolTypeOK'
    BY <1>5, PushType, SizeFixed DEF RemoteQuery, PoolTypeOK
  <1>6. CASE UNCHANGED poolVars
    BY <1>6, SizeFixed DEF poolVars, PoolTypeOK
  <1> QED
    BY <1>1, <1>2, <1>3, <1>4, <1>5, <1>6 DEF PoolNext, RuntimeStep

\* Calls, the channel and the tasks are what they are said to be; the channel
\* never holds more than its capacity.
THEOREM PoolTypeCorrect == PoolSpec => []PoolTypeOK
  <1>1. PoolInit => PoolTypeOK
    <2>1. PoolInit => Capacity \in Nat \ {0}
      BY PoolAssumption DEF PoolInit, Capacity
    <2> QED
      BY <2>1 DEF PoolInit, PoolTypeOK
  <1> QED
    BY <1>1, PoolTypeStep, PTL DEF PoolSpec

MetadataOf(c) == [from |-> c, kind |-> "metadata"]

\* Nobody has asked for metadata before it is his turn to; and whoever has the
\* loop in the slot of his worker waits for metadata that nobody is about to send.
SlotInv ==
  /\ \A c \in Caller : pc[c] \in {"fresh", "listing", "pushing"} =>
       MetadataOf(c) \notin tasks /\ \A i \in DOMAIN inbox : inbox[i] # MetadataOf(c)
  /\ \A c \in slot : pc[c] = "asking" /\ MetadataOf(c) \notin tasks

LEMMA PushSlot ==
  ASSUME PoolTypeOK, NEW from \in Caller \cup Remote, NEW kind \in {"metadata", "call"}, Push(from, kind)
  PROVE  \A c \in Caller :
           /\ MetadataOf(c) # [from |-> from, kind |-> kind]
           /\ \A i \in DOMAIN inbox : inbox[i] # MetadataOf(c)
           => \A i \in DOMAIN inbox' : inbox'[i] # MetadataOf(c)
  <1>1. PICK q : q = [from |-> from, kind |-> kind]
    OBVIOUS
  <1>2. [from |-> from, kind |-> kind] \in PoolQuery
    BY DEF PoolQuery
  <1>3. inbox \in Seq(PoolQuery) /\ q \in PoolQuery /\ inbox' = Append(inbox, q)
    BY <1>1, <1>2 DEF Push, PoolTypeOK
  <1>4. /\ Len(inbox) \in Nat /\ DOMAIN inbox = 1 .. Len(inbox)
        /\ DOMAIN inbox' = 1 .. Len(inbox) + 1
        /\ inbox'[Len(inbox) + 1] = q
        /\ \A i \in 1 .. Len(inbox) : inbox'[i] = inbox[i]
    BY <1>3
  <1>5. \A i \in DOMAIN inbox' : inbox'[i] = q \/ (i \in DOMAIN inbox /\ inbox'[i] = inbox[i])
    BY <1>4
  <1>6. ASSUME NEW c \in Caller, MetadataOf(c) # q,
               \A i \in DOMAIN inbox : inbox[i] # MetadataOf(c), NEW i \in DOMAIN inbox'
        PROVE  inbox'[i] # MetadataOf(c)
    BY <1>5, <1>6
  <1> QED
    BY <1>1, <1>6

LEMMA SlotStep == PoolTypeOK /\ SlotInv /\ [PoolNext]_poolVars => SlotInv'
  <1> SUFFICES ASSUME PoolTypeOK, SlotInv, [PoolNext]_poolVars PROVE SlotInv'
    OBVIOUS
  <1> USE DEF SlotInv
  <1>1. ASSUME NEW c \in Caller, CallerStep(c) PROVE SlotInv'
    <2>1. CASE StartListing(c) \/ Listed(c) \/ Resume(c) \/ ResumeExpired(c)
      BY <2>1, SizeType DEF StartListing, Listed, Resume, ResumeExpired, Goes, PoolTypeOK
    <2>2. CASE AskMetadata(c)
      <3>1. \A d \in Caller : d # c => MetadataOf(d) # [from |-> c, kind |-> "metadata"]
        BY DEF MetadataOf
      <3>2. pc' = [pc EXCEPT ![c] = "asking"] /\ pc[c] = "pushing" /\ slot' \subseteq slot \cup {c}
            /\ UNCHANGED tasks
        BY <2>2 DEF AskMetadata, Goes
      <3>3. \A d \in Caller : pc'[d] = IF d = c THEN "asking" ELSE pc[d]
        BY <3>2 DEF PoolTypeOK
      <3>4. slot \subseteq Caller
        BY SizeType DEF PoolTypeOK
      <3> QED
        BY <2>2, <3>1, <3>2, <3>3, <3>4, PushSlot DEF AskMetadata
    <2>3. CASE SendCall(c)
      <3>1. \A d \in Caller : MetadataOf(d) # [from |-> c, kind |-> "call"]
        BY DEF MetadataOf
      <3> QED
        BY <2>3, <3>1, SizeType, PushSlot DEF SendCall, Goes, PoolTypeOK
    <2> QED
      BY <1>1, <2>1, <2>2, <2>3 DEF CallerStep
  <1>2. ASSUME NEW c \in Caller, Expire(c) PROVE SlotInv'
    BY <1>2, SizeType DEF Expire, PoolTypeOK
  <1>3. CASE ServeTurn
    <2>1. /\ Head(inbox) = inbox[1] /\ 1 \in DOMAIN inbox
          /\ \A i \in DOMAIN Tail(inbox) : i + 1 \in DOMAIN inbox /\ Tail(inbox)[i] = inbox[i + 1]
      BY <1>3 DEF ServeTurn, PoolTypeOK
    <2> QED
      BY <1>3, <2>1 DEF ServeTurn
  <1>4. ASSUME NEW q \in tasks, TaskReplies(q) PROVE SlotInv'
    <2>1. UNCHANGED <<inbox, slot>> /\ tasks' \subseteq tasks /\ slot \subseteq Caller
      BY <1>4, SizeType DEF TaskReplies, PoolTypeOK
    <2>2. \A c \in Caller : pc'[c] \in {"fresh", "listing", "pushing"} => pc'[c] = pc[c]
      BY <1>4 DEF TaskReplies, Answered
    <2>3. ASSUME NEW c \in slot PROVE pc'[c] = "asking"
      <3>1. pc[c] = "asking" /\ q # MetadataOf(c) /\ q \in PoolQuery
        BY <2>3 DEF PoolTypeOK
      <3>2. ~(q.from = c /\ q.kind = "metadata")
        BY <3>1 DEF PoolQuery, MetadataOf
      <3> QED
        BY <1>4, <2>1, <3>1, <3>2 DEF TaskReplies, Answered
    <2> QED
      BY <2>1, <2>2, <2>3
  <1>5. ASSUME NEW r \in Remote, RemoteQuery(r) PROVE SlotInv'
    <2>1. \A d \in Caller : MetadataOf(d) # [from |-> r, kind |-> "call"]
      BY DEF MetadataOf
    <2> QED
      BY <1>5, <2>1, PushSlot DEF RemoteQuery
  <1>6. CASE UNCHANGED poolVars
    BY <1>6 DEF poolVars
  <1> QED
    BY <1>1, <1>2, <1>3, <1>4, <1>5, <1>6 DEF PoolNext, RuntimeStep

LEMMA SlotInvariance == PoolSpec => [](PoolTypeOK /\ SlotInv)
  <1>1. PoolInit => SlotInv
    BY DEF PoolInit, SlotInv
  <1> QED
    BY <1>1, SlotStep, PoolTypeCorrect, PTL DEF PoolSpec

\* A call that has the loop in the slot of its worker waits for its metadata until
\* its timeout, whatever other workers there are: nobody serves it.
THEOREM StarvesCorrect == PoolSpec => OwnSlotStarves
  <1>1. PoolTypeOK /\ SlotInv /\ [PoolNext]_poolVars
        => [\A c \in slot : pc'[c] \in {"asking", "failed"}]_poolVars
    <2> SUFFICES ASSUME PoolTypeOK, SlotInv, PoolNext, NEW c \in slot
                 PROVE  pc'[c] \in {"asking", "failed"}
      BY DEF poolVars
    <2>1. c \in Caller /\ pc[c] = "asking" /\ MetadataOf(c) \notin tasks
      BY SizeType DEF SlotInv, PoolTypeOK
    <2>2. ASSUME NEW d \in Caller, CallerStep(d) PROVE pc'[c] = "asking"
      BY <2>1, <2>2 DEF CallerStep, StartListing, Listed, AskMetadata, SendCall, Resume, ResumeExpired, Goes, PoolTypeOK
    <2>3. ASSUME NEW d \in Caller, Expire(d) PROVE pc'[c] \in {"asking", "failed"}
      BY <2>1, <2>3 DEF Expire, PoolTypeOK
    <2>4. ASSUME NEW q \in tasks, TaskReplies(q) PROVE pc'[c] = "asking"
      <3>1. ~(q.from = c /\ q.kind = "metadata")
        BY <2>1 DEF PoolTypeOK, PoolQuery, MetadataOf
      <3> QED
        BY <2>1, <2>4, <3>1 DEF TaskReplies, Answered
    <2> QED
      BY <2>1, <2>2, <2>3, <2>4 DEF PoolNext, RuntimeStep, ServeTurn, RemoteQuery
  <1> QED
    BY <1>1, SlotInvariance, PTL DEF PoolSpec, OwnSlotStarves

LEMMA HeldFinite ==
  PoolTypeOK => /\ IsFiniteSet(Held) /\ Cardinality(Held) \in Nat
                /\ Cardinality(Held) <= Cardinality(Spawned) /\ Cardinality(Spawned) \in Nat
  BY SizeType, PoolAssumption, FS_Subset, FS_CardinalityType DEF Held

\* If nothing can run, every worker is held by a call waiting for room.
LEMMA StuckIsFull ==
  ASSUME PoolTypeOK, SlotInv, Stuck
  PROVE  ~FreeWorker /\ Len(inbox) = Capacity /\ Held = WaitingForRoom
  <1>1. Len(inbox) \in Nat /\ Len(inbox) <= Capacity
    BY DEF PoolTypeOK
  <1>2. \A c \in Caller : pc[c] \in {"pushing", "choosing"} => Len(inbox) = Capacity
    BY <1>1, SizeType DEF Stuck, Room
  <1>3. slot = {}
    BY SizeType DEF Stuck, SlotInv, Armed, PoolTypeOK
  <1>4. ~FreeWorker
    <2> SUFFICES ASSUME FreeWorker PROVE FALSE
      OBVIOUS
    <2>1. PICK c \in Caller : ~Returned(c)
      BY DEF Stuck
    <2>2. pc[c] \in {"pushing", "choosing"}
      BY <2>1 DEF Stuck, Returned, Armed, MayRun, PoolTypeOK
    <2>3. Len(inbox) = 0
      BY <1>3 DEF Stuck
    <2> QED
      BY <1>2, <2>2, <2>3, SizeType
  <1>5. Held = WaitingForRoom
    BY SizeType DEF Stuck, Held, WaitingForRoom, Blocking, Armed
  <1>6. Held # {}
    BY <1>4, HeldFinite, FS_EmptySet, SizeType DEF FreeWorker
  <1> QED
    BY <1>2, <1>4, <1>5, <1>6, SizeType DEF WaitingForRoom

\* The process gets stuck for good only when the channel is full and every
\* worker is held by a call that waits for room in it.
THEOREM StuckCorrect == PoolSpec => []StuckShape
  <1>1. PoolTypeOK /\ SlotInv => StuckShape
    BY StuckIsFull, HeldFinite, SizeType DEF StuckShape, FreeWorker
  <1> QED
    BY <1>1, SlotInvariance, PTL

\* With more workers than calls made in tasks the process never gets stuck,
\* however small the channel and whatever arrives from elsewhere.
THEOREM SpareCorrect == PoolSpec => []SpareNeverStuck
  <1>1. PoolTypeOK /\ SlotInv => SpareNeverStuck
    BY StuckIsFull, HeldFinite, SizeType DEF SpareNeverStuck, Spare, FreeWorker
  <1> QED
    BY <1>1, SlotInvariance, PTL

\* On a runtime of one worker no call that a task makes to a server of the same
\* runtime ever succeeds, or even reaches it: find_server holds the worker that
\* would answer.
THEOREM LoneCorrect == PoolSpec => []LoneWorkerUnserved
  <1>1. PoolInit => LoneWorkerUnserved
    BY PoolAssumption DEF PoolInit, LoneWorkerUnserved, Spawned
  <1>2. PoolTypeOK /\ LoneWorkerUnserved /\ [PoolNext]_poolVars => LoneWorkerUnserved'
    <2> SUFFICES ASSUME PoolTypeOK, Workers = 1, [PoolNext]_poolVars,
                        \A c \in Spawned : pc[c] \notin {"choosing", "awaiting", "woken", "ok"},
                        NEW c \in Spawned
                 PROVE  pc'[c] \notin {"choosing", "awaiting", "woken", "ok"}
      BY FixedSize DEF LoneWorkerUnserved
    <2> c \in Caller
      BY SizeType
    <2>1. ASSUME NEW d \in Caller, CallerStep(d) PROVE pc'[c] \notin {"choosing", "awaiting", "woken", "ok"}
      BY <2>1 DEF CallerStep, StartListing, Listed, AskMetadata, SendCall, Resume, ResumeExpired, Goes, PoolTypeOK
    <2>2. ASSUME NEW d \in Caller, Expire(d) PROVE pc'[c] \notin {"choosing", "awaiting", "woken", "ok"}
      BY <2>2 DEF Expire, PoolTypeOK
    <2>3. ASSUME NEW q \in tasks, TaskReplies(q) PROVE pc'[c] \notin {"choosing", "awaiting", "woken", "ok"}
      <3>1. Held = {}
        BY <2>3, HeldFinite, FS_EmptySet DEF TaskReplies, FreeWorker
      <3>2. pc[c] # "asking"
        BY <3>1 DEF Held, Blocking
      <3> QED
        BY <2>3, <3>2 DEF TaskReplies, Answered
    <2> QED
      BY <2>1, <2>2, <2>3 DEF PoolNext, RuntimeStep, ServeTurn, RemoteQuery, poolVars
  <1> QED
    BY <1>1, <1>2, PoolTypeCorrect, PTL DEF PoolSpec
=============================================================================
