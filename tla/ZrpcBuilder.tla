----------------------------- MODULE ZrpcBuilder -----------------------------
(***************************************************************************)
(* ServerBuilder of zrpc/src/server.rs and the builder of a generated      *)
(* client: a user calls their methods in any order, then build().          *)
(*                                                                         *)
(* Services are kept under a name.  add_service asks the service for it;   *)
(* services() takes a map from the user as it is.  Clients address         *)
(* services by the name of their trait.                                    *)
(***************************************************************************)
EXTENDS Integers, Sequences, FiniteSets

CONSTANTS
  BuilderSession,  \* sessions to build on
  ServiceObject,   \* values that implement Service
  NameOf,          \* what their name() returns
  ServiceMaps,     \* maps a user may hand to services()
  BuilderLabel,    \* labels
  Timeouts,        \* timeouts a user may give to a client
  DefaultTimeout,  \* timeout_s of the service attribute
  MaxOps           \* bound: calls before build()

Name == {NameOf[o] : o \in ServiceObject}

ASSUME BuilderAssumption ==
  /\ NameOf \in [ServiceObject -> Name]
  /\ \A map \in ServiceMaps : DOMAIN map \subseteq Name
                              /\ \A name \in DOMAIN map : map[name] \in ServiceObject
  /\ MaxOps \in Nat

VARIABLES
  kind,      \* "server" or "client"
  session,   \* the fields of the builder
  services,
  labels,
  tout,
  built,     \* build() was called
  log        \* history: the calls made

builderVars == <<kind, session, services, labels, tout, built, log>>

BuilderInit ==
  /\ kind \in {"server", "client"}
  /\ session \in BuilderSession
  /\ services = [name \in {} |-> 0]
  /\ labels = {}
  /\ tout = DefaultTimeout
  /\ built = FALSE
  /\ log = <<[op |-> "session", arg |-> session], [op |-> "timeout", arg |-> tout]>>

Calls(op, arg) ==
  /\ ~built
  /\ Len(log) < MaxOps + 2
  /\ log' = Append(log, [op |-> op, arg |-> arg])
  /\ UNCHANGED <<kind, built>>

SetSession(z) ==
  /\ kind = "server"
  /\ Calls("session", z)
  /\ session' = z
  /\ UNCHANGED <<services, labels, tout>>

With(map, name, o) == [n \in DOMAIN map \cup {name} |-> IF n = name THEN o ELSE map[n]]

\* A map that keeps the first service of a name.
Insert_First(o) == IF NameOf[o] \in DOMAIN services THEN services ELSE With(services, NameOf[o], o)

Insert(o) == With(services, NameOf[o], o)

AddService(o) ==
  /\ kind = "server"
  /\ Calls("add_service", o)
  /\ services' = Insert(o)
  /\ UNCHANGED <<session, labels, tout>>

\* services() replaces what was added before; its keys are not checked.
SetServices(map) ==
  /\ kind = "server"
  /\ Calls("services", map)
  /\ services' = map
  /\ UNCHANGED <<session, labels, tout>>

\* labels(), unlike services(), extends; add_label adds one.
ExtendLabels(new) ==
  /\ Calls("labels", new)
  /\ labels' = labels \cup new
  /\ UNCHANGED <<session, services, tout>>

SetTimeout(time) ==
  /\ kind = "client"
  /\ Calls("timeout", time)
  /\ tout' = time
  /\ UNCHANGED <<session, services, labels>>

Build ==
  /\ ~built
  /\ built' = TRUE
  /\ UNCHANGED <<kind, session, services, labels, tout, log>>

BuilderNext ==
  \/ \E z \in BuilderSession : SetSession(z)
  \/ \E o \in ServiceObject : AddService(o)
  \/ \E map \in ServiceMaps : SetServices(map)
  \/ \E new \in SUBSET BuilderLabel : ExtendLabels(new)
  \/ \E time \in Timeouts : SetTimeout(time)
  \/ Build

BuilderSpec == BuilderInit /\ [][BuilderNext]_builderVars

-----------------------------------------------------------------------------
\* The last of some calls in the log, 0 if there are none.
Latest(calls) == IF calls = {} THEN 0 ELSE CHOOSE n \in calls : \A m \in calls : m <= n

CallsOf(op) == {n \in DOMAIN log : log[n].op = op}

LastSet(op) == log[Latest(CallsOf(op))].arg

LabelSets == {log[n].arg : n \in CallsOf("labels")}

\* The last add_service of a name, and the last services().
Additions(name) == {n \in CallsOf("add_service") : NameOf[log[n].arg] = name}
Added(name) == Latest(Additions(name))
Replaced == Latest(CallsOf("services"))

\* A name was registered, and not thrown away by a later services().
Registered(name) ==
  \/ Added(name) > Replaced
  \/ Replaced > 0 /\ name \in DOMAIN log[Replaced].arg

\* The Server or client has what its user asked for: of all services of one
\* name the last, unless a later services() replaced them all; all labels ever
\* given; the last session and timeout.
BuiltAsAsked ==
  built =>
    /\ session = LastSet("session") /\ tout = LastSet("timeout")
    /\ labels = UNION LabelSets
    /\ DOMAIN services = {name \in Name : Registered(name)}
    /\ \A name \in DOMAIN services :
         services[name] = IF Added(name) > Replaced THEN log[Added(name)].arg
                          ELSE log[Replaced].arg[name]
=============================================================================
