------------------------------- MODULE Zenoh --------------------------------
(***************************************************************************)
(* The part of Zenoh that zenoh-rpc relies on, as src/ uses it (external   *)
(* code): queryables, gets with QueryTarget::All and no consolidation, the *)
(* reply channel of a get, and its timeout.                                *)
(*                                                                         *)
(* A get reaches every queryable declared under the session id its key     *)
(* names.  Each of those holds a Query object; answering it or dropping it *)
(* ends that queryable's part of the get, and the reply channel closes     *)
(* when no part is left.  When nothing matches, the channel closes at      *)
(* once.  When the timeout fires first, the channel delivers a ReplyError, *)
(* closes, and later answers are discarded.                                *)
(***************************************************************************)
EXTENDS ZrpcWire, FiniteSets

CONSTANTS Server,   \* server instances: values of struct Server
          Client,   \* client tasks
          ZidOf     \* the session each server was built on

ASSUME ZenohAssumption == ZidOf \in [Server -> Zid]

VARIABLES queryables,  \* servers whose queryable @rpc/<zid>/** is declared
          inbox,       \* per server, the channel of its queryable
          open         \* per client, the get it is waiting on

zenohVars == <<queryables, inbox, open>>

\* A get is named by the client, its call, what it is for, and the session it
\* addresses: a call asks each session for its metadata at most once.
QueryId == [client : Client, call : Nat \ {0}, kind : {"metadata", "call"}, zid : Zid]
NoQuery == [call |-> 0]
OpenGet == [id : QueryId \cup {NoQuery}, pending : SUBSET Server, replies : Seq(Reply)]
NoGet == [id |-> NoQuery, pending |-> {}, replies |-> <<>>]

\* A query carries its key and a payload that is absent, or decodes as the
\* request type of the method it names, or does not.
Body == {"absent", "wellformed", "malformed"}
Query == [id : QueryId, ke : Seq(KeyToken), body : Body]

IdsOf(queries) == {queries[i].id : i \in DOMAIN queries}

-----------------------------------------------------------------------------
ZenohInit ==
  /\ queryables = {}
  /\ inbox = [s \in Server |-> <<>>]
  /\ open = [c \in Client |-> NoGet]

\* A get whose key leaves the session id open: every queryable matches.
Matching_AnySession(ke) == queryables

\* The queryables @rpc/<zid>/** that a get on ke reaches.
Matching(ke) == {s \in queryables : ZidOf[s] = Token(ke, 1)}

Get(c, id, ke, body) ==
  LET query == [id |-> id, ke |-> ke, body |-> body]
  IN  /\ inbox' = [s \in Server |-> IF s \in Matching(ke) THEN Append(inbox[s], query)
                                                         ELSE inbox[s]]
      /\ open' = [open EXCEPT ![c] = [id |-> id, pending |-> Matching(ke), replies |-> <<>>]]
      /\ UNCHANGED queryables

\* The open gets once servers S have dropped their Query objects of the gets in qs.
Dropping(S, qs) ==
  [c \in Client |-> IF open[c].id \in qs
                    THEN [open[c] EXCEPT !.pending = @ \ S] ELSE open[c]]

\* Answers that go to whatever get their client has open by then.
Answering_AnyGet(s, id, reply) ==
  [c \in Client |-> IF c = id.client /\ open[c].pending # {}
                    THEN [open[c] EXCEPT !.pending = @ \ {s}, !.replies = Append(@, reply)]
                    ELSE open[c]]

\* The open gets once server s has answered get id and dropped its Query object.
Answering(s, id, reply) ==
  [c \in Client |-> IF open[c].id = id /\ s \in open[c].pending
                    THEN [open[c] EXCEPT !.pending = @ \ {s}, !.replies = Append(@, reply)]
                    ELSE open[c]]

\* Only the gets of calls are given a timeout.
QueryTimeout_CallsOnly(c) ==
  /\ open[c].pending # {}
  /\ open[c].id.kind = "call"
  /\ open' = [open EXCEPT ![c].pending = {}, ![c].replies = Append(@, ReplyError)]
  /\ UNCHANGED <<queryables, inbox>>

\* The timeout of the get that client c is waiting on fires.
QueryTimeout(c) ==
  /\ open[c].pending # {}
  /\ open' = [open EXCEPT ![c].pending = {}, ![c].replies = Append(@, ReplyError)]
  /\ UNCHANGED <<queryables, inbox>>

-----------------------------------------------------------------------------
ZenohTypeOK ==
  /\ queryables \subseteq Server
  /\ inbox \in [Server -> Seq(Query)]
  /\ open \in [Client -> OpenGet]
=============================================================================
