---------------------------- MODULE BuilderProofs ----------------------------
(***************************************************************************)
(* Theorems about ZrpcBuilder: whatever methods a user calls, in whatever  *)
(* order and however often, for any services, labels, sessions and         *)
(* timeouts.                                                               *)
(***************************************************************************)
EXTENDS ZrpcBuilder, TLAPS

Op == {"session", "timeout", "add_service", "services", "labels"}

Arg == BuilderSession \cup Timeouts \cup {DefaultTimeout} \cup ServiceObject \cup ServiceMaps
         \cup SUBSET BuilderLabel

LoggedCall == [op : Op, arg : Arg]

\* The log holds calls with arguments of their types.
LogTyped ==
  /\ log \in Seq(LoggedCall)
  /\ \A n \in CallsOf("add_service") : log[n].arg \in ServiceObject
  /\ \A n \in CallsOf("services") : log[n].arg \in ServiceMaps
  /\ CallsOf("session") # {} /\ CallsOf("timeout") # {}

\* There is a last one of all calls of a kind.
LatestKnown ==
  /\ \A op \in Op : CallsOf(op) # {} => Latest(CallsOf(op)) \in CallsOf(op)
  /\ \A name \in Name : Additions(name) # {} => Added(name) \in Additions(name)

\* What is built holds at every moment before.
ScalarsAsked ==
  /\ session = LastSet("session") /\ tout = LastSet("timeout")
  /\ labels = UNION LabelSets

ServicesAsked ==
  /\ DOMAIN services = {name \in Name : Registered(name)}
  /\ \A name \in DOMAIN services :
       services[name] = IF Added(name) > Replaced THEN log[Added(name)].arg
                        ELSE log[Replaced].arg[name]

AskedInv == LogTyped /\ LatestKnown /\ ScalarsAsked /\ ServicesAsked

-----------------------------------------------------------------------------
(* Positions in a log that grows.                                          *)

LEMMA Ops ==
  /\ "session" \in Op /\ "timeout" \in Op /\ "labels" \in Op
  /\ "add_service" \in Op /\ "services" \in Op
BY DEF Op

LEMMA LatestNew ==
  ASSUME NEW n \in Nat, NEW calls \in SUBSET (1 .. n)
  PROVE  Latest(calls \cup {n + 1}) = n + 1
<1> DEFINE More == calls \cup {n + 1}
           Top == CHOOSE x \in More : \A m \in More : m <= x
<1>1. \A m \in More : m \in Nat /\ m <= n + 1
  OBVIOUS
<1>2. n + 1 \in More /\ \A m \in More : m <= n + 1
  BY <1>1
<1>3. Top \in More /\ \A m \in More : m <= Top
  BY <1>2
<1>4. n + 1 <= Top /\ Top <= n + 1 /\ Top \in Nat
  BY <1>1, <1>2, <1>3
<1>5. Top = n + 1
  BY <1>4
<1> QED
  BY <1>2, <1>5 DEF Latest

LEMMA LatestOne == ASSUME NEW n \in Nat PROVE Latest({n}) = n
BY DEF Latest

\* The new call is the last of its kind, and leaves the other kinds alone.
LEMMA LogGrows ==
  ASSUME LogTyped, NEW op \in Op, NEW arg \in Arg, Calls(op, arg),
         op = "add_service" => arg \in ServiceObject,
         op = "services" => arg \in ServiceMaps
  PROVE  /\ Len(log) \in Nat /\ DOMAIN log = 1 .. Len(log)
         /\ \A n \in DOMAIN log : log'[n] = log[n]
         /\ log'[Len(log) + 1] = [op |-> op, arg |-> arg]
         /\ \A p \in Op : CallsOf(p)' = IF p = op THEN CallsOf(p) \cup {Len(log) + 1}
                                        ELSE CallsOf(p)
         /\ \A name \in Name :
              Additions(name)' = IF op = "add_service" /\ NameOf[arg] = name
                                 THEN Additions(name) \cup {Len(log) + 1}
                                 ELSE Additions(name)
         /\ LogTyped'
<1>1. log \in Seq(LoggedCall) /\ log' = Append(log, [op |-> op, arg |-> arg])
      /\ [op |-> op, arg |-> arg] \in LoggedCall
  BY DEF LogTyped, Calls, LoggedCall
<1>2. /\ Len(log) \in Nat /\ DOMAIN log = 1 .. Len(log)
      /\ DOMAIN log' = 1 .. Len(log) + 1
      /\ log' \in Seq(LoggedCall)
      /\ \A n \in DOMAIN log : log'[n] = log[n]
      /\ log'[Len(log) + 1] = [op |-> op, arg |-> arg]
  BY <1>1
<1>3. DOMAIN log' = DOMAIN log \cup {Len(log) + 1} /\ Len(log) + 1 \notin DOMAIN log
  BY <1>2
<1>4. log'[Len(log) + 1].op = op /\ log'[Len(log) + 1].arg = arg
  BY <1>2
<1>5. ASSUME NEW p \in Op
      PROVE  CallsOf(p)' = IF p = op THEN CallsOf(p) \cup {Len(log) + 1} ELSE CallsOf(p)
  BY <1>2, <1>3, <1>4 DEF CallsOf
<1>6. ASSUME NEW name \in Name
      PROVE  Additions(name)' = IF op = "add_service" /\ NameOf[arg] = name
                                THEN Additions(name) \cup {Len(log) + 1}
                                ELSE Additions(name)
  BY <1>2, <1>3, <1>4 DEF Additions, CallsOf
<1>7. LogTyped'
  <2>1. \A n \in CallsOf("add_service")' : log'[n].arg \in ServiceObject
    BY <1>2, <1>4, <1>5 DEF LogTyped, CallsOf, Op
  <2>2. \A n \in CallsOf("services")' : log'[n].arg \in ServiceMaps
    BY <1>2, <1>4, <1>5 DEF LogTyped, CallsOf, Op
  <2>3. CallsOf("session")' # {} /\ CallsOf("timeout")' # {}
    BY <1>5 DEF LogTyped, Op
  <2> QED
    BY <1>2, <2>1, <2>2, <2>3 DEF LogTyped
<1> QED
  BY <1>2, <1>5, <1>6, <1>7

\* How the last calls move.
LEMMA LatestMoves ==
  ASSUME LogTyped, LatestKnown, NEW op \in Op, NEW arg \in Arg, Calls(op, arg),
         op = "add_service" => arg \in ServiceObject,
         op = "services" => arg \in ServiceMaps
  PROVE  /\ \A p \in Op : /\ CallsOf(p) # {} => Latest(CallsOf(p)) \in DOMAIN log
                          /\ Latest(CallsOf(p))' = IF p = op THEN Len(log) + 1
                                                   ELSE Latest(CallsOf(p))
         /\ \A name \in Name :
              Added(name)' = IF op = "add_service" /\ NameOf[arg] = name THEN Len(log) + 1
                             ELSE Added(name)
         /\ Replaced' = IF op = "services" THEN Len(log) + 1 ELSE Replaced
         /\ LatestKnown'
<1>1. /\ \A p \in Op : CallsOf(p)' = IF p = op THEN CallsOf(p) \cup {Len(log) + 1}
                                     ELSE CallsOf(p)
      /\ \A name \in Name :
           Additions(name)' = IF op = "add_service" /\ NameOf[arg] = name
                              THEN Additions(name) \cup {Len(log) + 1}
                              ELSE Additions(name)
  BY LogGrows
<1>2. /\ Len(log) \in Nat /\ DOMAIN log = 1 .. Len(log)
      /\ \A p \in Op : CallsOf(p) \in SUBSET (1 .. Len(log))
      /\ \A name \in Name : Additions(name) \in SUBSET (1 .. Len(log))
  BY LogGrows DEF CallsOf, Additions, Op
<1>3. ASSUME NEW p \in Op
      PROVE  Latest(CallsOf(p))' = IF p = op THEN Len(log) + 1 ELSE Latest(CallsOf(p))
  <2>1. Latest(CallsOf(p))' = Latest(CallsOf(p)')
    BY DEF Latest
  <2> QED
    BY <1>1, <1>2, <2>1, LatestNew
<1>4. ASSUME NEW name \in Name
      PROVE  Added(name)' = IF op = "add_service" /\ NameOf[arg] = name THEN Len(log) + 1
                            ELSE Added(name)
  <2>1. Added(name)' = Latest(Additions(name)')
    BY DEF Added, Latest
  <2>2. Added(name) = Latest(Additions(name))
    BY DEF Added
  <2> QED
    BY <1>1, <1>2, <2>1, <2>2, LatestNew
<1>5. Replaced' = IF op = "services" THEN Len(log) + 1 ELSE Replaced
  BY <1>3 DEF Replaced, Op
<1>6. ASSUME NEW p \in Op, CallsOf(p)' # {}
      PROVE  Latest(CallsOf(p))' \in CallsOf(p)'
  BY <1>1, <1>3, <1>6 DEF LatestKnown
<1>7. ASSUME NEW name \in Name, Additions(name)' # {}
      PROVE  Added(name)' \in Additions(name)'
  BY <1>1, <1>4, <1>7 DEF LatestKnown
<1>8. LatestKnown'
  BY <1>6, <1>7 DEF LatestKnown
<1> QED
  BY <1>2, <1>3, <1>4, <1>5, <1>8 DEF LatestKnown

LEMMA Positions ==
  ASSUME LogTyped, LatestKnown
  PROVE  /\ Len(log) \in Nat /\ DOMAIN log = 1 .. Len(log)
         /\ Replaced \in 0 .. Len(log)
         /\ Replaced # 0 => Replaced \in CallsOf("services")
         /\ \A name \in Name : /\ Added(name) \in 0 .. Len(log)
                               /\ Added(name) # 0 => Added(name) \in Additions(name)
<1>1. Len(log) \in Nat /\ DOMAIN log = 1 .. Len(log)
  BY DEF LogTyped
<1>2. /\ CallsOf("services") \in SUBSET (1 .. Len(log))
      /\ \A name \in Name : Additions(name) \in SUBSET (1 .. Len(log))
  BY <1>1 DEF CallsOf, Additions
<1>3. /\ Replaced \in 0 .. Len(log)
      /\ Replaced # 0 => Replaced \in CallsOf("services")
  <2>1. CallsOf("services") = {} => Replaced = 0
    BY DEF Replaced, Latest
  <2>2. CallsOf("services") # {} => Replaced \in CallsOf("services")
    BY DEF LatestKnown, Replaced, Op
  <2> QED
    BY <1>1, <1>2, <2>1, <2>2
<1>4. ASSUME NEW name \in Name
      PROVE  /\ Added(name) \in 0 .. Len(log)
             /\ Added(name) # 0 => Added(name) \in Additions(name)
  <2>1. Additions(name) = {} => Added(name) = 0
    BY DEF Added, Latest
  <2>2. Additions(name) # {} => Added(name) \in Additions(name)
    BY DEF LatestKnown
  <2> QED
    BY <1>1, <1>2, <2>1, <2>2
<1> QED
  BY <1>1, <1>3, <1>4

-----------------------------------------------------------------------------
(* Steps.                                                                  *)

LEMMA UnionOne == ASSUME NEW A, NEW b PROVE UNION (A \cup {b}) = (UNION A) \cup b
OBVIOUS

\* What the log says of fields that are set, and of labels.
LEMMA ScalarMoves ==
  ASSUME LogTyped, LatestKnown, NEW op \in Op, NEW arg \in Arg, Calls(op, arg),
         op = "add_service" => arg \in ServiceObject,
         op = "services" => arg \in ServiceMaps
  PROVE  /\ \A p \in {"session", "timeout"} :
              LastSet(p)' = IF p = op THEN arg ELSE LastSet(p)
         /\ LabelSets' = LabelSets \cup (IF op = "labels" THEN {arg} ELSE {})
<1> DEFINE N == Len(log) + 1
<1>1. /\ \A n \in DOMAIN log : log'[n] = log[n]
      /\ log'[N] = [op |-> op, arg |-> arg]
      /\ CallsOf("labels")' = IF op = "labels" THEN CallsOf("labels") \cup {N} ELSE CallsOf("labels")
  BY LogGrows, Ops
<1>2. ASSUME NEW p \in {"session", "timeout"}
      PROVE  LastSet(p)' = IF p = op THEN arg ELSE LastSet(p)
  <2>1. p \in Op /\ CallsOf(p) # {}
    BY Ops DEF LogTyped
  <2>2. /\ Latest(CallsOf(p)) \in DOMAIN log
        /\ Latest(CallsOf(p))' = IF p = op THEN N ELSE Latest(CallsOf(p))
    BY <2>1, LatestMoves
  <2> QED
    BY <1>1, <2>2 DEF LastSet
<1>3. CallsOf("labels") \subseteq DOMAIN log
  BY DEF CallsOf
<1>4. LabelSets' = LabelSets \cup (IF op = "labels" THEN {arg} ELSE {})
  <2>1. CASE op = "labels"
    BY <1>1, <1>3, <2>1 DEF LabelSets
  <2>2. CASE op # "labels"
    BY <1>1, <1>3, <2>2 DEF LabelSets
  <2> QED
    BY <2>1, <2>2
<1> QED
  BY <1>2, <1>4

\* Calls that are not about services.
LEMMA OtherCall ==
  ASSUME AskedInv, NEW op \in {"session", "timeout", "labels"}, NEW arg \in Arg, Calls(op, arg),
         UNCHANGED services
  PROVE  LogTyped' /\ LatestKnown' /\ ServicesAsked'
<1> USE DEF AskedInv
<1>1. /\ LogTyped' /\ LatestKnown'
      /\ \A n \in DOMAIN log : log'[n] = log[n]
      /\ Replaced' = Replaced /\ \A name \in Name : Added(name)' = Added(name)
  <2>1. op \in Op
    BY Ops
  <2>2. op # "add_service" /\ op # "services"
    OBVIOUS
  <2>3. LogTyped' /\ \A n \in DOMAIN log : log'[n] = log[n]
    BY <2>1, <2>2, LogGrows
  <2>4. /\ LatestKnown' /\ Replaced' = Replaced
        /\ \A name \in Name : Added(name)' = Added(name)
    BY <2>1, <2>2, LatestMoves
  <2> QED
    BY <2>3, <2>4
<1>2. \A name \in Name : Registered(name)' <=> Registered(name)
  BY <1>1, Positions DEF Registered
<1>3. DOMAIN services' = {name \in Name : Registered(name)'}
  BY <1>2 DEF ServicesAsked
<1>4. ASSUME NEW name \in DOMAIN services'
      PROVE  services'[name] = IF Added(name)' > Replaced' THEN log'[Added(name)'].arg
                               ELSE log'[Replaced'].arg[name]
  <2>1. name \in Name /\ Registered(name)
    BY <1>4 DEF ServicesAsked
  <2>2. services[name] = IF Added(name) > Replaced THEN log[Added(name)].arg
                         ELSE log[Replaced].arg[name]
    BY <1>4 DEF ServicesAsked
  <2>3. IF Added(name) > Replaced THEN Added(name) \in DOMAIN log ELSE Replaced \in DOMAIN log
    BY <2>1, Positions DEF Registered
  <2> QED
    BY <1>1, <2>1, <2>2, <2>3
<1> QED
  BY <1>1, <1>3, <1>4 DEF ServicesAsked

LEMMA AddStep == ASSUME AskedInv, NEW o \in ServiceObject, AddService(o) PROVE AskedInv'
<1> USE DEF AskedInv
<1> DEFINE N == Len(log) + 1
<1>1. Calls("add_service", o) /\ services' = With(services, NameOf[o], o)
      /\ UNCHANGED <<session, labels, tout>> /\ "add_service" \in Op /\ o \in Arg
  BY Ops DEF AddService, Insert, Arg
<1>2. NameOf[o] \in Name
  BY DEF Name
<1>3. /\ LogTyped' /\ LatestKnown'
      /\ \A n \in DOMAIN log : log'[n] = log[n]
      /\ log'[N].arg = o
      /\ Replaced' = Replaced
      /\ \A name \in Name : Added(name)' = IF NameOf[o] = name THEN N ELSE Added(name)
  <2>1. /\ LogTyped' /\ \A n \in DOMAIN log : log'[n] = log[n]
        /\ log'[N] = [op |-> "add_service", arg |-> o]
    BY <1>1, LogGrows
  <2>2. /\ LatestKnown' /\ Replaced' = Replaced
        /\ \A name \in Name : Added(name)' = IF NameOf[o] = name THEN N ELSE Added(name)
    BY <1>1, LatestMoves
  <2> QED
    BY <2>1, <2>2
<1>4. ScalarsAsked'
  BY <1>1, ScalarMoves DEF ScalarsAsked
<1>5. DOMAIN services' = DOMAIN services \cup {NameOf[o]}
      /\ \A name \in DOMAIN services' : services'[name] = IF name = NameOf[o] THEN o ELSE services[name]
  BY <1>1 DEF With
<1>6. N > Replaced /\ N \in Nat /\ Replaced \in Nat
  BY Positions
<1>7. ASSUME NEW name \in Name
      PROVE  Registered(name)' <=> Registered(name) \/ name = NameOf[o]
  <2>1. CASE name = NameOf[o]
    BY <1>3, <1>6, <2>1 DEF Registered
  <2>2. CASE name # NameOf[o]
    BY <1>3, <2>2, Positions DEF Registered
  <2> QED
    BY <2>1, <2>2
<1>8. DOMAIN services' = {name \in Name : Registered(name)'}
  BY <1>2, <1>5, <1>7 DEF ServicesAsked
<1>9. ASSUME NEW name \in DOMAIN services'
      PROVE  services'[name] = IF Added(name)' > Replaced' THEN log'[Added(name)'].arg
                               ELSE log'[Replaced'].arg[name]
  <2>1. CASE name = NameOf[o]
    BY <1>2, <1>3, <1>5, <1>6, <2>1
  <2>2. CASE name # NameOf[o]
    <3>1. name \in DOMAIN services /\ name \in Name /\ Registered(name)
      BY <1>5, <1>9, <2>2 DEF ServicesAsked
    <3>2. services[name] = IF Added(name) > Replaced THEN log[Added(name)].arg
                           ELSE log[Replaced].arg[name]
      BY <3>1 DEF ServicesAsked
    <3>3. IF Added(name) > Replaced THEN Added(name) \in DOMAIN log ELSE Replaced \in DOMAIN log
      BY <3>1, Positions DEF Registered
    <3> QED
      BY <1>3, <1>5, <2>2, <3>1, <3>2, <3>3
  <2> QED
    BY <2>1, <2>2
<1> QED
  BY <1>3, <1>4, <1>8, <1>9 DEF ServicesAsked

LEMMA ReplaceStep == ASSUME AskedInv, NEW map \in ServiceMaps, SetServices(map) PROVE AskedInv'
<1> USE DEF AskedInv
<1> DEFINE N == Len(log) + 1
<1>1. Calls("services", map) /\ services' = map
      /\ UNCHANGED <<session, labels, tout>> /\ "services" \in Op /\ map \in Arg
  BY Ops DEF SetServices, Arg
<1>2. /\ LogTyped' /\ LatestKnown'
      /\ log'[N].arg = map
      /\ Replaced' = N
      /\ \A name \in Name : Added(name)' = Added(name)
  <2>1. LogTyped' /\ log'[N] = [op |-> "services", arg |-> map]
    BY <1>1, LogGrows
  <2>2. /\ LatestKnown' /\ Replaced' = N
        /\ \A name \in Name : Added(name)' = Added(name)
    BY <1>1, LatestMoves
  <2> QED
    BY <2>1, <2>2
<1>3. ScalarsAsked'
  BY <1>1, ScalarMoves DEF ScalarsAsked
<1>4. N \in Nat /\ N > 0 /\ \A name \in Name : ~(Added(name) > N)
  BY Positions
<1>5. DOMAIN map \subseteq Name
  BY BuilderAssumption
<1>6. DOMAIN services' = {name \in Name : Registered(name)'}
  BY <1>1, <1>2, <1>4, <1>5 DEF Registered
<1>7. \A name \in DOMAIN services' :
        services'[name] = IF Added(name)' > Replaced' THEN log'[Added(name)'].arg
                          ELSE log'[Replaced'].arg[name]
  BY <1>1, <1>2, <1>4, <1>5
<1> QED
  BY <1>2, <1>3, <1>6, <1>7 DEF ServicesAsked

LEMMA AskedStep == AskedInv /\ [BuilderNext]_builderVars => AskedInv'
<1> SUFFICES ASSUME AskedInv, [BuilderNext]_builderVars PROVE AskedInv'
  OBVIOUS
<1> USE DEF AskedInv
<1>1. ASSUME NEW z \in BuilderSession, SetSession(z)
      PROVE  AskedInv'
  <2>1. Calls("session", z) /\ session' = z /\ z \in Arg /\ UNCHANGED <<services, labels, tout>>
    BY <1>1 DEF SetSession, Arg
  <2>2. ScalarsAsked'
    BY <2>1, Ops, ScalarMoves DEF ScalarsAsked
  <2> QED
    BY <2>1, <2>2, OtherCall
<1>2. ASSUME NEW time \in Timeouts, SetTimeout(time)
      PROVE  AskedInv'
  <2>1. Calls("timeout", time) /\ tout' = time /\ time \in Arg /\ UNCHANGED <<session, services, labels>>
    BY <1>2 DEF SetTimeout, Arg
  <2>2. ScalarsAsked'
    BY <2>1, Ops, ScalarMoves DEF ScalarsAsked
  <2> QED
    BY <2>1, <2>2, OtherCall
<1>3. ASSUME NEW new \in SUBSET BuilderLabel, ExtendLabels(new)
      PROVE  AskedInv'
  <2>1. Calls("labels", new) /\ labels' = labels \cup new /\ new \in Arg
        /\ UNCHANGED <<session, services, tout>>
    BY <1>3 DEF ExtendLabels, Arg
  <2>2. /\ LastSet("session")' = LastSet("session") /\ LastSet("timeout")' = LastSet("timeout")
        /\ LabelSets' = LabelSets \cup {new}
    BY <2>1, Ops, ScalarMoves
  <2>3. UNION (LabelSets \cup {new}) = (UNION LabelSets) \cup new
    BY UnionOne
  <2>4. ScalarsAsked'
    BY <2>1, <2>2, <2>3 DEF ScalarsAsked
  <2> QED
    BY <2>1, <2>4, OtherCall
<1>4. CASE Build \/ UNCHANGED builderVars
  <2>1. UNCHANGED <<session, services, labels, tout, log>>
    BY <1>4 DEF Build, builderVars
  <2>2. \A op : CallsOf(op)' = CallsOf(op)
    BY <2>1 DEF CallsOf
  <2>3. \A name : Additions(name)' = Additions(name)
    BY <2>1, <2>2 DEF Additions
  <2>4. ASSUME NEW op
        PROVE  Latest(CallsOf(op))' = Latest(CallsOf(op)) /\ LastSet(op)' = LastSet(op)
    <3>1. Latest(CallsOf(op))' = Latest(CallsOf(op)')
      BY DEF Latest
    <3> QED
      BY <2>1, <2>2, <3>1 DEF LastSet
  <2>5. ASSUME NEW name
        PROVE  Added(name)' = Added(name)
    <3>1. Added(name)' = Latest(Additions(name)')
      BY DEF Added, Latest
    <3> QED
      BY <2>3, <3>1 DEF Added
  <2>6. Replaced' = Replaced
    BY <2>4 DEF Replaced
  <2>7. LogTyped' /\ LatestKnown'
    BY <2>1, <2>2, <2>3, <2>4, <2>5 DEF LogTyped, LatestKnown
  <2>8. ScalarsAsked' /\ ServicesAsked'
    BY <2>1, <2>2, <2>4, <2>5, <2>6 DEF ScalarsAsked, ServicesAsked, Registered, LabelSets
  <2> QED
    BY <2>7, <2>8
<1> QED
  BY <1>1, <1>2, <1>3, <1>4, AddStep, ReplaceStep DEF BuilderNext

LEMMA AskedInit == BuilderInit => AskedInv
<1> SUFFICES ASSUME BuilderInit PROVE AskedInv
  OBVIOUS
<1>1. /\ log = <<[op |-> "session", arg |-> session], [op |-> "timeout", arg |-> tout]>>
      /\ session \in BuilderSession /\ tout = DefaultTimeout /\ labels = {} /\ DOMAIN services = {}
  BY DEF BuilderInit
<1>2. CallsOf("session") = {1} /\ CallsOf("timeout") = {2}
      /\ \A op \in Op \ {"session", "timeout"} : CallsOf(op) = {}
  BY <1>1 DEF CallsOf, Op
<1>3. \A name \in Name : Additions(name) = {}
  BY <1>2 DEF Additions, Op
<1>4. Latest({1}) = 1 /\ Latest({2}) = 2 /\ Latest({}) = 0
  BY LatestOne DEF Latest
<1>5. LogTyped
  <2>1. /\ [op |-> "session", arg |-> session] \in LoggedCall
        /\ [op |-> "timeout", arg |-> tout] \in LoggedCall
    BY <1>1 DEF LoggedCall, Op, Arg
  <2>2. log \in Seq(LoggedCall)
    BY <1>1, <2>1
  <2> QED
    BY <1>2, <2>2 DEF LogTyped, Op
<1>6. LatestKnown
  BY <1>2, <1>3, <1>4 DEF LatestKnown, Added
<1>7. ScalarsAsked
  <2>1. CallsOf("labels") = {}
    BY <1>2, Ops
  <2>2. UNION LabelSets = {}
    BY <2>1 DEF LabelSets
  <2>3. log[1].arg = session /\ log[2].arg = tout
    BY <1>1
  <2> QED
    BY <1>1, <1>2, <1>4, <2>2, <2>3 DEF ScalarsAsked, LastSet
<1>8. ServicesAsked
  <2>1. Replaced = 0 /\ \A name \in Name : Added(name) = 0
    BY <1>2, <1>3, <1>4 DEF Replaced, Added, Op
  <2> QED
    BY <1>1, <2>1 DEF ServicesAsked, Registered
<1> QED
  BY <1>5, <1>6, <1>7, <1>8 DEF AskedInv

LEMMA AskedInvariance == BuilderSpec => []AskedInv
<1> QED
  BY AskedInit, AskedStep, PTL DEF BuilderSpec

\* A Server or client has what its user asked for: the last session, timeout and
\* service of each name, all labels, and after services() only what came with it
\* or later.
THEOREM BuiltCorrect == BuilderSpec => []BuiltAsAsked
<1>1. AskedInv => BuiltAsAsked
  BY DEF AskedInv, ScalarsAsked, ServicesAsked, BuiltAsAsked
<1> QED
  BY <1>1, AskedInvariance, PTL
=============================================================================
