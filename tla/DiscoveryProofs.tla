--------------------------- MODULE DiscoveryProofs ---------------------------
(***************************************************************************)
(* Theorems about ServerDiscovery, for any number of sessions, any timeout *)
(* and any formats: how long a discovery and its call may take, whom it    *)
(* finds, how old its knowledge is, and that its call can be read.         *)
(***************************************************************************)
EXTENDS ServerDiscovery, FiniteSetTheorems, TLAPS

\* The liveliness query has added its timeout at most, each get that is closed
\* its own, the open one what it has waited.
DelayInv ==
  /\ tokens \subseteq Foreign
  /\ Len(ids) \in Nat
  /\ asked \in Nat /\ asked <= Len(ids)
  /\ clock \in Nat
  /\ waited \in Nat
  /\ stage \in Stage
  /\ stage \in {"idle", "listing"} => asked = 0
  /\ stage = "idle" => clock = 0
  /\ stage = "listing" => waited <= ListTout /\ clock <= waited
  /\ stage \in {"asking", "calling"} => waited <= Tout
  /\ stage \in {"collecting", "filtered", "failed"} => clock <= ListTout + Tout * asked
  /\ stage = "asking" => asked >= 1 /\ clock <= ListTout + Tout * (asked - 1) + waited
  /\ stage = "calling" => clock <= ListTout + Tout * asked + waited
  /\ stage = "done" => clock <= ListTout + Tout * asked + Tout

LEMMA Timeouts ==
  ASSUME NEW m \in Nat, NEW n \in Nat, m <= n
  PROVE  /\ Tout * m \in Nat /\ Tout * m <= Tout * n
         /\ Tout * (n + 1) = Tout * n + Tout
  BY DiscoveryAssumption

LEMMA BeforeLast == ASSUME NEW n \in Nat, n >= 1 PROVE Tout * (n - 1) \in Nat
  <1>1. n - 1 \in Nat /\ n - 1 <= n - 1
    OBVIOUS
  <1> QED
    BY <1>1, Timeouts

LEMMA DelayInit == DiscoveryInit => DelayInv
  BY DiscoveryAssumption DEF DiscoveryInit, DelayInv, Stage

LEMMA DelayStep == DelayInv /\ [DiscoveryNext]_discoveryVars => DelayInv'
  <1> SUFFICES ASSUME DelayInv, [DiscoveryNext]_discoveryVars PROVE DelayInv'
    OBVIOUS
  <1> USE DEF Stage, timeVars
  <1>1. CASE List
    BY <1>1, DiscoveryAssumption DEF List, DelayInv
  <1>2. CASE ListFails \/ AskFails \/ Filter \/ ForeignReply \/ Listed
    <2>1. /\ UNCHANGED <<tokens, ids, asked, clock, waited>>
          /\ \/ stage \in {"idle", "listing"} /\ stage' \in {"failed", "collecting"}
             \/ stage = "collecting" /\ stage' \in {"failed", "filtered"}
      BY <1>2 DEF ListFails, AskFails, Filter, ForeignReply, Listed
    <2>2. Tout * asked \in Nat
      BY Timeouts DEF DelayInv
    <2> QED
      BY <2>1, <2>2, DiscoveryAssumption DEF DelayInv
  <1>3. ASSUME NEW s \in Session, LivelinessReply(s) PROVE DelayInv'
    <2>1. /\ stage = "listing" /\ ids' = Append(ids, s)
          /\ UNCHANGED <<tokens, stage, asked, clock, waited>>
      BY <1>3 DEF LivelinessReply
    <2>2. Len(ids') = Len(ids) + 1
      BY <2>1 DEF DelayInv
    <2> QED
      BY <2>1, <2>2 DEF DelayInv
  <1>4. CASE Ask
    <2>1. Tout * asked \in Nat
      BY Timeouts DEF DelayInv
    <2> QED
      BY <1>4, <2>1, DiscoveryAssumption DEF Ask, DelayInv
  <1>5. ASSUME stage = "asking", stage' = "collecting",
               UNCHANGED <<tokens, ids, asked, clock, waited>>
        PROVE  DelayInv'
    <2>1. PICK m \in Nat : asked = m + 1
      BY <1>5 DEF DelayInv
    <2>2. Tout * asked = Tout * (asked - 1) + Tout
      BY <2>1, Timeouts
    <2>3. clock <= ListTout + Tout * asked
      BY <1>5, <2>1, <2>2, DiscoveryAssumption, Timeouts DEF DelayInv
    <2> QED
      BY <1>5, <2>3 DEF DelayInv
  <1>6. CASE MetadataReply
    BY <1>5, <1>6 DEF MetadataReply
  <1>7. CASE MetadataNone
    BY <1>5, <1>7 DEF MetadataNone
  <1>8. CASE Call
    BY <1>8, Timeouts, DiscoveryAssumption DEF Call, DelayInv
  <1>9. CASE CallEnds
    <2>1. Tout * asked \in Nat
      BY Timeouts DEF DelayInv
    <2> QED
      BY <1>9, <2>1, DiscoveryAssumption DEF CallEnds, DelayInv
  <1>10. CASE Tick
    <2>1. /\ UNCHANGED <<tokens, ids, asked, stage>>
          /\ clock' = clock + 1 /\ waited' = waited + 1
          /\ stage \in {"listing", "asking", "calling"}
      BY <1>10 DEF Tick, callerVars
    <2>2. CASE stage = "listing"
      <3>1. waited < ListTout
        BY <1>10, <2>2 DEF Tick
      <3> QED
        BY <2>1, <2>2, <3>1, DiscoveryAssumption DEF DelayInv
    <2>3. CASE stage # "listing"
      <3>1. waited < Tout
        BY <1>10, <2>3 DEF Tick
      <3>2. Tout * asked \in Nat /\ (asked >= 1 => Tout * (asked - 1) \in Nat)
        BY Timeouts, BeforeLast DEF DelayInv
      <3> QED
        BY <2>1, <2>3, <3>1, <3>2, DiscoveryAssumption DEF DelayInv
    <2> QED
      BY <2>2, <2>3
  <1>11. CASE \E s \in Session : Worsens(s)
    BY <1>11 DEF Worsens, callerVars, DelayInv
  <1>12. CASE UNCHANGED discoveryVars
    BY <1>12 DEF discoveryVars, DelayInv
  <1> QED
    BY <1>1, <1>2, <1>3, <1>4, <1>5, <1>6, <1>7, <1>8, <1>9, <1>10, <1>11, <1>12
    DEF DiscoveryNext, CallerNext

LEMMA DelayInvariance == DiscoverySpec => []DelayInv
  BY DelayInit, DelayStep, PTL DEF DiscoverySpec

\* A discovery and the call that follows it take at most the timeout of the
\* liveliness query, one for each session found and one for the call, however
\* many of them hang.
THEOREM DelayCorrect == DiscoverySpec => []DelayBounded
  <1>1. DelayInv => DelayBounded
    <2> SUFFICES ASSUME DelayInv PROVE DelayBounded
      OBVIOUS
    <2>1. /\ Tout * asked \in Nat /\ Tout * asked <= Tout * Len(ids)
          /\ Tout * (Len(ids) + 1) = Tout * Len(ids) + Tout
      BY Timeouts DEF DelayInv
    <2>2. asked >= 1 => Tout * (asked - 1) + Tout <= Tout * Len(ids) + Tout
      <3> SUFFICES ASSUME asked >= 1 PROVE Tout * (asked - 1) <= Tout * Len(ids)
        BY <2>1, DiscoveryAssumption DEF DelayInv
      <3> QED
        BY Timeouts DEF DelayInv
    <2>3. asked >= 1 => Tout * (asked - 1) \in Nat
      BY BeforeLast DEF DelayInv
    <2> QED
      BY <2>1, <2>2, <2>3, DiscoveryAssumption DEF DelayInv, DelayBounded, Stage
  <1> QED
    BY <1>1, DelayInvariance, PTL

-----------------------------------------------------------------------------
(* What has been collected.                                                *)

\* The positions of ids whose get is over.
Closed == {k \in 1 .. asked : stage = "asking" => k < asked}

\* Whoever is still up has been collected once it has been asked, if it can be
\* read.
SteadyCollected ==
  \A k \in Closed : ids[k] \in steady /\ Readable(ids[k]) =>
    \E n \in DOMAIN metas : metas[n] = ids[k]

\* The metadata of the k-th is at most as old as the gets opened after its own.
Fresh(k) ==
  /\ stage \in {"collecting", "filtered"} =>
       clock - answered[ids[k]] <= Tout * (asked - k)
  /\ stage = "asking" => clock - answered[ids[k]] <= Tout * (asked - 1 - k) + waited
  /\ stage = "calling" => clock - answered[ids[k]] <= Tout * (asked - k) + waited

\* Whatever was collected can be read, and is fresh.
MetasFresh ==
  \A n \in DOMAIN metas :
    Readable(metas[n]) /\ \E k \in Closed : ids[k] = metas[n] /\ Fresh(k)

SearchInv ==
  /\ ids \in Seq(Session) /\ metas \in Seq(Session)
  /\ health \in [Session -> {"up", "hung", "gone"}]
  /\ answered \in [Session -> Nat]
  /\ steady \subseteq {s \in Session : health[s] = "up"}
  /\ SteadyCollected
  /\ MetasFresh
  /\ stage \in {"filtered", "calling", "done"} => asked = Len(ids)
  /\ stage \in {"calling", "done"} => popped \in Found

LEMMA SearchInit == DiscoveryInit => SearchInv
<1> SUFFICES ASSUME DiscoveryInit PROVE SearchInv
  OBVIOUS
<1>1. Closed = {}
  BY DEF DiscoveryInit, Closed
<1> QED
  BY <1>1 DEF DiscoveryInit, SearchInv, SteadyCollected, MetasFresh

\* While the list grows nothing has been collected.
LEMMA ListSearch ==
  DelayInv /\ SearchInv /\ (List \/ ForeignReply \/ Listed \/ \E s \in Session : LivelinessReply(s))
  => SearchInv'
<1> SUFFICES ASSUME DelayInv, SearchInv,
                    List \/ ForeignReply \/ Listed \/ \E s \in Session : LivelinessReply(s)
             PROVE  SearchInv'
  OBVIOUS
<1>1. /\ stage \in {"idle", "listing"} /\ stage' \in {"listing", "failed", "collecting"}
      /\ UNCHANGED <<health, asked, metas, answered, steady>>
  BY DEF List, ForeignReply, Listed, LivelinessReply
<1>2. asked = 0 /\ asked' = 0
  BY <1>1 DEF DelayInv
<1>3. Closed = {} /\ Closed' = {}
  BY <1>2 DEF Closed
<1>4. DOMAIN metas = {}
  BY <1>3 DEF SearchInv, MetasFresh
<1>5. ids' \in Seq(Session)
  <2>1. ids \in Seq(Session)
    BY DEF SearchInv
  <2>2. CASE List \/ ForeignReply \/ Listed
    BY <2>1, <2>2 DEF List, ForeignReply, Listed
  <2>3. ASSUME NEW s \in Session, LivelinessReply(s) PROVE ids' \in Seq(Session)
    BY <2>1, <2>3 DEF LivelinessReply
  <2> QED
    BY <2>2, <2>3
<1>6. SteadyCollected' /\ MetasFresh'
  BY <1>1, <1>3, <1>4 DEF SteadyCollected, MetasFresh
<1> QED
  BY <1>1, <1>5, <1>6 DEF SearchInv

\* Steps that leave the metadata alone.
LEMMA SameMetas ==
  ASSUME SearchInv, UNCHANGED <<ids, metas, answered>>,
         Closed \subseteq Closed', steady' \subseteq steady,
         \A k \in Closed' \ Closed : ids[k] \notin steady',
         \A k \in Closed : Fresh(k) => Fresh(k)'
  PROVE  SteadyCollected' /\ MetasFresh'
<1>1. SteadyCollected'
  BY DEF SearchInv, SteadyCollected, Readable
<1>2. ASSUME NEW n \in DOMAIN metas
      PROVE  Readable(metas[n]) /\ \E k \in Closed' : ids[k] = metas[n] /\ Fresh(k)'
  BY <1>2 DEF SearchInv, MetasFresh
<1>3. MetasFresh'
  BY <1>2 DEF MetasFresh, Readable
<1> QED
  BY <1>1, <1>3

\* Timeouts that are compared are numbers.
LEMMA ClosedBefore ==
  ASSUME DelayInv, NEW k \in Closed
  PROVE  /\ k \in 1 .. asked /\ asked - k \in Nat /\ Tout * (asked - k) \in Nat
         /\ stage = "asking" => /\ asked - 1 - k \in Nat /\ Tout * (asked - 1 - k) \in Nat
                                /\ Tout * (asked - k) = Tout * (asked - 1 - k) + Tout
<1>1. k \in 1 .. asked /\ asked - k \in Nat
  BY DEF DelayInv, Closed
<1>2. Tout * (asked - k) \in Nat
  BY <1>1, Timeouts
<1>3. ASSUME stage = "asking"
      PROVE  /\ asked - 1 - k \in Nat /\ Tout * (asked - 1 - k) \in Nat
             /\ Tout * (asked - k) = Tout * (asked - 1 - k) + Tout
  <2>1. PICK m \in Nat : m = asked - 1 - k
    BY <1>3 DEF DelayInv, Closed
  <2>2. m + 1 = asked - k
    BY <2>1, <1>1 DEF DelayInv
  <2> QED
    BY <2>1, <2>2, Timeouts
<1> QED
  BY <1>1, <1>2, <1>3

LEMMA AskSearch == DelayInv /\ SearchInv /\ Ask => SearchInv'
<1> SUFFICES ASSUME DelayInv, SearchInv, Ask PROVE SearchInv'
  OBVIOUS
<1>1. /\ stage = "collecting" /\ stage' = "asking" /\ asked' = asked + 1 /\ waited' = 0
      /\ UNCHANGED <<health, ids, metas, answered, steady, clock>>
  BY DEF Ask
<1>2. Closed' = Closed
  BY <1>1 DEF Closed, DelayInv
<1>3. ASSUME NEW k \in Closed, Fresh(k)
      PROVE  Fresh(k)'
  <2>1. k \in 1 .. asked /\ asked' - 1 - k = asked - k /\ Tout * (asked - k) \in Nat
    BY <1>1, ClosedBefore DEF DelayInv
  <2>2. clock - answered[ids[k]] <= Tout * (asked - k)
    BY <1>1, <1>3 DEF Fresh
  <2>3. clock' - answered'[ids'[k]] <= Tout * (asked' - 1 - k) + waited'
    BY <1>1, <2>1, <2>2
  <2> QED
    BY <1>1, <2>3 DEF Fresh
<1>4. SteadyCollected' /\ MetasFresh'
  BY <1>1, <1>2, <1>3, SameMetas
<1> QED
  BY <1>1, <1>4 DEF SearchInv

\* When a get is over, what was known has aged by its timeout at most.
LEMMA ClosedFresh ==
  ASSUME DelayInv, SearchInv, stage = "asking", stage' = "collecting",
         UNCHANGED <<ids, asked, clock>>, NEW k \in Closed, Fresh(k),
         answered' \in [Session -> Nat], answered'[ids[k]] >= answered[ids[k]]
  PROVE  Fresh(k)'
<1>1. clock - answered[ids[k]] <= Tout * (asked - 1 - k) + waited
  BY DEF Fresh
<1>2. ids[k] \in Session
  <2>1. k \in 1 .. asked /\ asked <= Len(ids)
    BY ClosedBefore DEF DelayInv
  <2> QED
    BY <2>1 DEF DelayInv, SearchInv
<1>3. clock' - answered'[ids'[k]] <= Tout * (asked' - k)
  <2>1. /\ clock \in Nat /\ answered[ids[k]] \in Nat /\ answered'[ids[k]] \in Nat
        /\ waited \in Nat /\ Tout \in Nat /\ waited <= Tout
    BY <1>2, DiscoveryAssumption DEF DelayInv, SearchInv
  <2>2. Tout * (asked - k) = Tout * (asked - 1 - k) + Tout /\ Tout * (asked - 1 - k) \in Nat
    BY ClosedBefore
  <2>3. PICK x \in Nat : x = Tout * (asked - 1 - k)
    BY <2>2
  <2>4. clock - answered'[ids[k]] <= x + Tout
    BY <1>1, <2>1, <2>3
  <2> QED
    BY <2>2, <2>3, <2>4
<1> QED
  BY <1>3 DEF Fresh

LEMMA NoneSearch == DelayInv /\ SearchInv /\ MetadataNone => SearchInv'
<1> SUFFICES ASSUME DelayInv, SearchInv, MetadataNone PROVE SearchInv'
  OBVIOUS
<1>1. /\ stage = "asking" /\ stage' = "collecting"
      /\ UNCHANGED <<health, ids, asked, metas, answered, steady, clock>>
  BY DEF MetadataNone, timeVars
<1>2. Closed \subseteq Closed' /\ Closed' \ Closed = {asked}
  BY <1>1 DEF Closed, DelayInv
<1>3. ids[asked] \notin steady
  BY DEF MetadataNone, Silent, Current, SearchInv
<1>4. ids[asked] \in Session
  BY <1>1 DEF SearchInv, DelayInv
<1>5. \A k \in Closed : Fresh(k) => Fresh(k)'
  <2> SUFFICES ASSUME NEW k \in Closed, Fresh(k) PROVE Fresh(k)'
    OBVIOUS
  <2>1. ids[k] \in Session
    BY ClosedBefore DEF DelayInv, SearchInv
  <2>2. answered' \in [Session -> Nat] /\ answered'[ids[k]] >= answered[ids[k]]
    BY <1>1, <2>1 DEF SearchInv
  <2> QED
    BY <1>1, <2>2, ClosedFresh
<1>6. SteadyCollected' /\ MetasFresh'
  BY <1>1, <1>2, <1>3, <1>5, SameMetas
<1> QED
  BY <1>1, <1>6 DEF SearchInv

LEMMA ReplySearch == DelayInv /\ SearchInv /\ MetadataReply => SearchInv'
<1> SUFFICES ASSUME DelayInv, SearchInv, MetadataReply PROVE SearchInv'
  OBVIOUS
<1>1. /\ stage = "asking" /\ stage' = "collecting"
      /\ UNCHANGED <<health, ids, asked, steady, clock>>
      /\ metas' = IF Readable(Current) THEN Append(metas, Current) ELSE metas
      /\ answered' = [answered EXCEPT ![Current] = clock]
  BY DEF MetadataReply, timeVars
<1>2. asked \in 1 .. Len(ids) /\ Current = ids[asked] /\ Current \in Session
  BY <1>1 DEF Current, SearchInv, DelayInv
<1>3. Closed' = Closed \cup {asked}
  BY <1>1 DEF Closed, DelayInv
<1>4. answered' \in [Session -> Nat] /\ metas' \in Seq(Session)
  BY <1>1, <1>2 DEF SearchInv, DelayInv
<1>5. /\ DOMAIN metas \subseteq DOMAIN metas'
      /\ \A n \in DOMAIN metas : metas'[n] = metas[n]
      /\ \A n \in DOMAIN metas' \ DOMAIN metas : metas'[n] = Current /\ Readable(Current)
      /\ Readable(Current) => \E n \in DOMAIN metas' : metas'[n] = Current
  <2>1. CASE Readable(Current)
    <3>1. metas' = Append(metas, Current) /\ metas \in Seq(Session) /\ Current \in Session
      BY <1>1, <1>2, <2>1 DEF SearchInv
    <3>2. /\ DOMAIN metas = 1 .. Len(metas) /\ Len(metas) \in Nat
          /\ DOMAIN metas' = 1 .. Len(metas) + 1
          /\ metas'[Len(metas) + 1] = Current
          /\ \A n \in 1 .. Len(metas) : metas'[n] = metas[n]
      BY <3>1
    <3> QED
      BY <2>1, <3>2
  <2>2. CASE ~Readable(Current)
    BY <1>1, <2>2
  <2> QED
    BY <2>1, <2>2
<1>6. ASSUME NEW k \in Closed, Fresh(k)
      PROVE  Fresh(k)'
  <2>1. ids[k] \in Session
    BY ClosedBefore DEF DelayInv, SearchInv
  <2>2. CASE ids[k] = Current
    <3>1. clock' - answered'[ids'[k]] = 0 /\ Tout * (asked' - k) \in Nat
      BY <1>1, <1>2, <2>2, ClosedBefore DEF SearchInv, DelayInv
    <3> QED
      BY <1>1, <3>1 DEF Fresh
  <2>3. CASE ids[k] # Current
    <3>1. answered'[ids[k]] = answered[ids[k]]
      BY <1>1, <1>2, <2>1, <2>3 DEF SearchInv
    <3>2. answered'[ids[k]] >= answered[ids[k]]
      BY <2>1, <3>1 DEF SearchInv
    <3> QED
      BY <1>1, <1>4, <1>6, <3>2, ClosedFresh
  <2> QED
    BY <2>2, <2>3
<1>7. PICK last : last = asked
  OBVIOUS
<1>8. Fresh(last)'
  <2>1. asked' - last = 0 /\ 0 \in Nat
    BY <1>1, <1>7 DEF DelayInv
  <2>2. Tout * 0 = 0
    BY DiscoveryAssumption
  <2>3. clock' - answered'[ids'[last]] = 0
    BY <1>1, <1>2, <1>7 DEF SearchInv, DelayInv
  <2>4. clock' - answered'[ids'[last]] <= Tout * (asked' - last)
    BY <2>1, <2>2, <2>3
  <2> QED
    BY <1>1, <2>4 DEF Fresh
<1>9. SteadyCollected'
  <2> SUFFICES ASSUME NEW k \in Closed', ids[k] \in steady, Readable(ids[k])
               PROVE  \E n \in DOMAIN metas' : metas'[n] = ids[k]
    BY <1>1 DEF SteadyCollected, Readable
  <2>1. CASE k = asked
    BY <1>2, <1>5, <2>1
  <2>2. CASE k \in Closed
    BY <1>5, <2>2 DEF SearchInv, SteadyCollected
  <2> QED
    BY <1>3, <2>1, <2>2
<1>10. MetasFresh'
  <2> SUFFICES ASSUME NEW n \in DOMAIN metas'
               PROVE  /\ Readable(metas'[n])
                      /\ \E k \in Closed' : ids[k] = metas'[n] /\ Fresh(k)'
    BY <1>1 DEF MetasFresh, Readable
  <2>1. CASE n \in DOMAIN metas
    BY <1>3, <1>5, <1>6, <2>1 DEF SearchInv, MetasFresh
  <2>2. CASE n \notin DOMAIN metas
    <3>1. metas'[n] = Current /\ Readable(Current)
      BY <1>5, <2>2
    <3>2. last \in Closed' /\ ids[last] = metas'[n] /\ Fresh(last)'
      BY <1>2, <1>3, <1>7, <1>8, <3>1
    <3>3. Readable(metas'[n])
      BY <3>1 DEF Readable
    <3> QED
      BY <3>2, <3>3
  <2> QED
    BY <2>1, <2>2
<1> QED
  BY <1>1, <1>4, <1>9, <1>10 DEF SearchInv

\* The rest of the caller leaves what it has collected alone.
LEMMA CallerSearch ==
  DelayInv /\ SearchInv /\ (ListFails \/ AskFails \/ Filter \/ Call \/ CallEnds) => SearchInv'
<1> SUFFICES ASSUME DelayInv, SearchInv, ListFails \/ AskFails \/ Filter \/ Call \/ CallEnds
             PROVE  SearchInv'
  OBVIOUS
<1>1. UNCHANGED <<health, labels, ids, asked, metas, answered, steady, clock>>
  BY DEF ListFails, AskFails, Filter, Call, CallEnds, timeVars
<1>2. stage # "asking" /\ stage' # "asking"
  BY DEF ListFails, AskFails, Filter, Call, CallEnds
<1>3. Closed' = Closed
  BY <1>1, <1>2 DEF Closed
<1>4. \A k \in Closed : Fresh(k) => Fresh(k)'
  <2> SUFFICES ASSUME NEW k \in Closed, Fresh(k) PROVE Fresh(k)'
    OBVIOUS
  <2>1. CASE stage' = "calling"
    <3>1. stage = "filtered" /\ waited' = 0
      BY <2>1 DEF ListFails, AskFails, Filter, Call, CallEnds
    <3>2. k \in 1 .. asked /\ asked <= Len(ids)
      BY ClosedBefore DEF DelayInv
    <3>3. answered[ids[k]] \in Nat
      BY <3>2 DEF DelayInv, SearchInv
    <3>4. clock - answered[ids[k]] <= Tout * (asked - k) + waited'
      BY <3>1, <3>3, ClosedBefore DEF Fresh, DelayInv
    <3> QED
      BY <1>1, <2>1, <3>4 DEF Fresh
  <2>2. CASE stage' = "filtered"
    BY <1>1, <2>2 DEF ListFails, AskFails, Filter, Call, CallEnds, Fresh
  <2>3. CASE stage' \in {"failed", "done"}
    BY <2>3 DEF Fresh
  <2> QED
    BY <2>1, <2>2, <2>3 DEF ListFails, AskFails, Filter, Call, CallEnds
<1>5. SteadyCollected' /\ MetasFresh'
  BY <1>1, <1>3, <1>4, SameMetas
<1>6. stage' \in {"filtered", "calling", "done"} => asked' = Len(ids')
  BY <1>1 DEF ListFails, AskFails, Filter, Call, CallEnds, SearchInv
<1>7. stage' \in {"calling", "done"} => popped' \in Found'
  <2>1. Found' = Found
    BY <1>1 DEF Found, HasLabels
  <2>2. CASE Call
    BY <2>1, <2>2 DEF Call
  <2>3. CASE CallEnds
    BY <2>1, <2>3 DEF CallEnds, SearchInv
  <2> QED
    BY <2>2, <2>3 DEF ListFails, AskFails, Filter
<1> QED
  BY <1>1, <1>5, <1>6, <1>7 DEF SearchInv

LEMMA TickSearch == DelayInv /\ SearchInv /\ Tick => SearchInv'
<1> SUFFICES ASSUME DelayInv, SearchInv, Tick PROVE SearchInv'
  OBVIOUS
<1>1. /\ clock' = clock + 1 /\ waited' = waited + 1
      /\ stage \in {"listing", "asking", "calling"}
      /\ UNCHANGED <<health, labels, ids, asked, metas, popped, answered, steady, stage>>
  BY DEF Tick, callerVars
<1>2. Closed' = Closed
  BY <1>1 DEF Closed
<1>3. \A k \in Closed : Fresh(k) => Fresh(k)'
  <2> SUFFICES ASSUME NEW k \in Closed, Fresh(k) PROVE Fresh(k)'
    OBVIOUS
  <2>1. k \in 1 .. asked /\ asked <= Len(ids)
    BY ClosedBefore DEF DelayInv
  <2>2. answered[ids[k]] \in Nat /\ clock \in Nat /\ waited \in Nat
    BY <2>1 DEF DelayInv, SearchInv
  <2>3. clock' - answered[ids[k]] = (clock - answered[ids[k]]) + 1
    BY <1>1, <2>2
  <2>4. CASE stage \in {"listing", "asking"}
    BY <1>1, <2>2, <2>3, <2>4, ClosedBefore DEF Fresh
  <2>5. CASE stage = "calling"
    BY <1>1, <2>2, <2>3, <2>5, ClosedBefore DEF Fresh
  <2> QED
    BY <1>1, <2>4, <2>5
<1>4. SteadyCollected' /\ MetasFresh'
  BY <1>1, <1>2, <1>3, SameMetas
<1>5. Found' = Found
  BY <1>1 DEF Found, HasLabels
<1> QED
  BY <1>1, <1>4, <1>5 DEF SearchInv

LEMMA WorsensSearch ==
  ASSUME DelayInv, SearchInv, NEW s \in Session, Worsens(s)
  PROVE  SearchInv'
<1>1. /\ UNCHANGED <<labels, stage, ids, asked, metas, popped, answered, clock, waited>>
      /\ steady' = steady \ {s}
  BY DEF Worsens, callerVars, timeVars
<1>2. /\ health' \in [Session -> {"up", "hung", "gone"}]
      /\ \A r \in Session \ {s} : health'[r] = health[r]
  BY DEF Worsens, SearchInv
<1>3. Closed' = Closed
  BY <1>1 DEF Closed
<1>4. SteadyCollected' /\ MetasFresh'
  <2>1. \A k \in Closed : Fresh(k) => Fresh(k)'
    BY <1>1 DEF Fresh
  <2> QED
    BY <1>1, <1>3, <2>1, SameMetas
<1>5. steady' \subseteq {r \in Session : health'[r] = "up"}
  BY <1>1, <1>2 DEF SearchInv
<1>6. Found' = Found
  BY <1>1 DEF Found, HasLabels
<1> QED
  BY <1>1, <1>2, <1>4, <1>5, <1>6 DEF SearchInv

LEMMA SearchStep == DelayInv /\ SearchInv /\ [DiscoveryNext]_discoveryVars => SearchInv'
<1> SUFFICES ASSUME DelayInv, SearchInv, [DiscoveryNext]_discoveryVars PROVE SearchInv'
  OBVIOUS
<1>1. CASE CallerNext
  BY <1>1, ListSearch, AskSearch, ReplySearch, NoneSearch, CallerSearch DEF CallerNext
<1>2. CASE Tick
  BY <1>2, TickSearch
<1>3. CASE \E s \in Session : Worsens(s)
  BY <1>3, WorsensSearch
<1>4. CASE UNCHANGED discoveryVars
  <2> USE <1>4 DEF discoveryVars
  <2>1. Closed' = Closed /\ Found' = Found
    BY DEF Closed, Found, HasLabels
  <2>2. \A k \in Closed : Fresh(k) => Fresh(k)'
    BY DEF Fresh
  <2>3. SteadyCollected' /\ MetasFresh'
    BY <2>1, <2>2, SameMetas
  <2> QED
    BY <2>1, <2>3 DEF SearchInv
<1> QED
  BY <1>1, <1>2, <1>3, <1>4 DEF DiscoveryNext

LEMMA SearchInvariance == DiscoverySpec => []SearchInv
<1> QED
  BY SearchInit, SearchStep, DelayInvariance, PTL DEF DiscoverySpec

\* A server that is heard of, up all the time, has the labels and speaks the format
\* of the caller is among those found, however many others are slow, hang or go.
THEOREM UpCorrect == DiscoverySpec => []UpIsFound
<1>1. DelayInv /\ SearchInv => UpIsFound
  <2> SUFFICES ASSUME DelayInv, SearchInv, stage \in {"filtered", "calling", "done"},
                      NEW k \in DOMAIN ids, ids[k] \in steady,
                      Wanted \subseteq labels[ids[k]], Readable(ids[k])
               PROVE  \E n \in Found : metas[n] = ids[k]
    BY DEF UpIsFound
  <2>1. k \in Closed
    BY DEF SearchInv, DelayInv, Closed
  <2>2. PICK n \in DOMAIN metas : metas[n] = ids[k]
    BY <2>1 DEF SearchInv, SteadyCollected
  <2> QED
    BY <2>2 DEF Found, HasLabels
<1> QED
  BY <1>1, DelayInvariance, SearchInvariance, PTL

\* A call is only sent to a server that reads the format of the caller.
THEOREM ReadCorrect == DiscoverySpec => []NeverMisread
<1>1. SearchInv => NeverMisread
  BY DEF SearchInv, MetasFresh, Found, Callee, Readable, NeverMisread
<1> QED
  BY <1>1, SearchInvariance, PTL

\* A call is sent to a server that had the labels when it answered, at most one
\* timeout ago for each session that was asked after it.
THEOREM StalenessCorrect == DiscoverySpec => []StalenessBounded
<1>1. DelayInv /\ SearchInv => StalenessBounded
  <2> SUFFICES ASSUME DelayInv, SearchInv, stage = "calling", waited = 0
               PROVE  \E n \in DOMAIN ids :
                        /\ ids[n] = Callee
                        /\ Wanted \subseteq labels[Callee]
                        /\ clock - answered[Callee] <= Tout * (Len(ids) - n)
    BY DEF StalenessBounded
  <2>1. popped \in DOMAIN metas /\ Wanted \subseteq labels[Callee]
    BY DEF SearchInv, Found, HasLabels, Callee
  <2>2. PICK k \in Closed : ids[k] = Callee /\ Fresh(k)
    BY <2>1 DEF SearchInv, MetasFresh, Callee
  <2>3. asked = Len(ids) /\ k \in DOMAIN ids
    BY <2>2, ClosedBefore DEF DelayInv, SearchInv
  <2>4. clock - answered[Callee] <= Tout * (Len(ids) - k) + 0
    BY <2>2, <2>3 DEF Fresh
  <2>5. Tout * (Len(ids) - k) + 0 = Tout * (Len(ids) - k)
    BY <2>2, <2>3, ClosedBefore
  <2> QED
    BY <2>1, <2>2, <2>3, <2>4, <2>5
<1> QED
  BY <1>1, DelayInvariance, SearchInvariance, PTL
=============================================================================
