--------------------------- MODULE ServerDiscovery ---------------------------
(***************************************************************************)
(* One discovery, with time: ServerChecker::find_servers of                *)
(* zrpc/examples/check-servers.rs, and find_server of a generated client   *)
(* with the call that follows it.  Both list the liveliness tokens of a    *)
(* service, then ask each session for its metadata in a get of its own,    *)
(* with a timeout of its own, one after the other, and filter by label.    *)
(* The list may be partial: its replies end when Zenoh says so, and those  *)
(* that are errors are dropped.                                            *)
(*                                                                         *)
(* Meanwhile servers go: "up" ones answer within the timeout, "hung" ones  *)
(* hold a query and never answer, "gone" ones are known to be gone, and a  *)
(* get to them closes at once.                                             *)
(*                                                                         *)
(* And programs built with different features of zrpc write and read       *)
(* different formats (zrpc/src/serialize.rs), which nothing on the wire    *)
(* names.                                                                  *)
(***************************************************************************)
EXTENDS Integers, Sequences, FiniteSets

CONSTANTS
  Session,   \* the sessions of servers of the service
  Foreign,   \* tokens that match but whose id is no ZenohId
  LabelSets, \* the labels that a server may have
  Wanted,    \* the labels required; ServerChecker requires none
  Tout,      \* the timeout of a get, in ticks
  ListTout,  \* that of the liveliness query: Zenoh's own, as none is asked for
  FormatOf,  \* the format that the program of each session was built with
  OwnFormat  \* and that of the caller

Format == {"bincode", "cbor", "json"}

ASSUME DiscoveryAssumption ==
  /\ IsFiniteSet(Session \cup Foreign)
  /\ Session \cap Foreign = {}
  /\ Tout \in Nat \ {0}
  /\ ListTout \in Nat \ {0}
  /\ FormatOf \in [Session -> Format]
  /\ OwnFormat \in Format

VARIABLES
  health,   \* of each session: "up", "hung" or "gone"
  labels,   \* of its server
  tokens,   \* foreign tokens that are declared
  stage,    \* what the caller is at
  ids,      \* the sessions found, in the order of the replies
  asked,    \* how many of them have been asked
  metas,    \* the sessions whose metadata came back, in order
  popped,   \* the position among them of the one that is called, 0 before
  clock,    \* ticks since the discovery began
  waited,   \* ticks that the current get has been open
  gets,     \* gets opened so far, after the liveliness query
  steady,   \* history: sessions that have been up all the time
  answered  \* history: when each session's metadata came back

discoveryVars == <<health, labels, tokens, stage, ids, asked, metas, popped, clock, waited, gets, steady, answered>>
callerVars == <<stage, ids, asked, metas, popped, gets, answered>>
timeVars == <<clock, waited>>

Stage == {"idle", "listing", "collecting", "asking", "filtered", "calling", "done", "failed"}

DiscoveryInit ==
  /\ health \in [Session -> {"up", "hung", "gone"}]
  /\ labels \in [Session -> LabelSets]
  /\ tokens \in SUBSET Foreign
  /\ stage = "idle"
  /\ ids = <<>> /\ asked = 0 /\ metas = <<>> /\ popped = 0
  /\ clock = 0 /\ waited = 0 /\ gets = 0
  /\ steady = {s \in Session : health[s] = "up"}
  /\ answered = [s \in Session |-> 0]

\* The liveliness query is sent, and its replies are iterated over.
List ==
  /\ stage = "idle"
  /\ stage' = "listing"
  /\ waited' = 0
  /\ UNCHANGED <<health, labels, tokens, ids, asked, metas, popped, gets, answered, steady, clock>>

\* A reply arrives: its token was declared, whether its server hangs or not.
LivelinessReply(s) ==
  /\ stage = "listing"
  /\ health[s] # "gone"
  /\ \A n \in DOMAIN ids : ids[n] # s
  /\ ids' = Append(ids, s)
  /\ UNCHANGED <<health, labels, tokens, stage, asked, metas, popped, gets, answered, steady, timeVars>>

\* extract_id_from_ke on a reply: the first that fails fails them all, and none
\* is asked.
ForeignReply ==
  /\ stage = "listing"
  /\ tokens # {}
  /\ stage' = "failed"
  /\ UNCHANGED <<health, labels, tokens, ids, asked, metas, popped, gets, answered, steady, timeVars>>

\* The replies end, with whoever was heard of.
Listed ==
  /\ stage = "listing"
  /\ stage' = "collecting"
  /\ UNCHANGED <<health, labels, tokens, ids, asked, metas, popped, gets, answered, steady, timeVars>>

\* The liveliness query itself fails.
ListFails ==
  /\ stage = "idle"
  /\ stage' = "failed"
  /\ UNCHANGED <<health, labels, tokens, ids, asked, metas, popped, gets, answered, steady, timeVars>>

\* The next turn of the loop in get_servers_metadata.
Ask ==
  /\ stage = "collecting"
  /\ asked < Len(ids)
  /\ stage' = "asking"
  /\ asked' = asked + 1
  /\ gets' = gets + 1
  /\ waited' = 0
  /\ UNCHANGED <<health, labels, tokens, ids, metas, popped, answered, steady, clock>>

\* "?" on a get that fails.
AskFails ==
  /\ stage = "collecting"
  /\ asked < Len(ids)
  /\ stage' = "failed"
  /\ UNCHANGED <<health, labels, tokens, ids, asked, metas, popped, gets, answered, steady, timeVars>>

Current == ids[asked]

\* deserialize succeeds on what serialize wrote in the same format.  None of
\* the messages of this protocol reads as another in any other of the three.
Readable(s) == FormatOf[s] = OwnFormat

\* A session whose metadata cannot be read is kept all the same.
MetadataReply_Default ==
  /\ stage = "asking"
  /\ health[Current] = "up"
  /\ stage' = "collecting"
  /\ metas' = Append(metas, Current)
  /\ answered' = [answered EXCEPT ![Current] = clock]
  /\ UNCHANGED <<health, labels, tokens, ids, asked, popped, gets, steady, timeVars>>

\* Its server answers, and the reply channel closes.  Replies that cannot be
\* read are filtered out.
MetadataReply ==
  /\ stage = "asking"
  /\ health[Current] = "up"
  /\ stage' = "collecting"
  /\ metas' = IF Readable(Current) THEN Append(metas, Current) ELSE metas
  /\ answered' = [answered EXCEPT ![Current] = clock]
  /\ UNCHANGED <<health, labels, tokens, ids, asked, popped, gets, steady, timeVars>>

\* Nobody is there, or the timeout of the get is over.
Silent == health[Current] = "gone" \/ (health[Current] = "hung" /\ waited = Tout)

\* A timeout after which the session is asked again.
MetadataNone_Retry ==
  /\ stage = "asking"
  /\ Silent
  /\ stage' = "collecting"
  /\ asked' = IF health[Current] = "gone" THEN asked ELSE asked - 1
  /\ UNCHANGED <<health, labels, tokens, ids, metas, popped, gets, answered, steady, timeVars>>

\* A timeout that ends the loop.
MetadataNone_Break ==
  /\ stage = "asking"
  /\ Silent
  /\ stage' = "collecting"
  /\ asked' = Len(ids)
  /\ UNCHANGED <<health, labels, tokens, ids, metas, popped, gets, answered, steady, timeVars>>

\* The reply channel closes without metadata: nobody is there, or timeout.
MetadataNone ==
  /\ stage = "asking"
  /\ Silent
  /\ stage' = "collecting"
  /\ UNCHANGED <<health, labels, tokens, ids, asked, metas, popped, gets, answered, steady, timeVars>>

\* m.labels.is_superset(&self.labels)
HasLabels(s) == Wanted \subseteq labels[s]

\* What find_servers returns, and find_server pops from, by position in metas.
Found == {n \in DOMAIN metas : HasLabels(metas[n])}

Filter ==
  /\ stage = "collecting"
  /\ asked = Len(ids)
  /\ stage' = "filtered"
  /\ UNCHANGED <<health, labels, tokens, ids, asked, metas, popped, gets, answered, steady, timeVars>>

\* find_server pops the last one and call_fun sends the call; ServerChecker
\* stops here, and so does find_server when there is none.
Call ==
  /\ stage = "filtered"
  /\ \E n \in Found :
       /\ \A m \in Found : m <= n
       /\ popped' = n
  /\ stage' = "calling"
  /\ gets' = gets + 1
  /\ waited' = 0
  /\ UNCHANGED <<health, labels, tokens, ids, asked, metas, answered, steady, clock>>

Callee == metas[popped]

CallEnds ==
  /\ stage = "calling"
  /\ health[Callee] # "hung" \/ waited = Tout
  /\ stage' = "done"
  /\ UNCHANGED <<health, labels, tokens, ids, asked, metas, popped, gets, answered, steady, timeVars>>

-----------------------------------------------------------------------------
\* A get stays open for its timeout at most.
Tick ==
  /\ stage \in {"listing", "asking", "calling"}
  /\ waited < IF stage = "listing" THEN ListTout ELSE Tout
  /\ clock' = clock + 1
  /\ waited' = waited + 1
  /\ UNCHANGED <<health, labels, tokens, steady, callerVars>>

Worsens(s) ==
  /\ \/ health[s] = "up" /\ \E h \in {"hung", "gone"} : health' = [health EXCEPT ![s] = h]
     \/ health[s] = "hung" /\ health' = [health EXCEPT ![s] = "gone"]
  /\ steady' = steady \ {s}
  /\ UNCHANGED <<labels, tokens, callerVars, timeVars>>

CallerNext ==
  \/ List \/ ListFails
  \/ \E s \in Session : LivelinessReply(s)
  \/ ForeignReply \/ Listed
  \/ Ask \/ AskFails
  \/ MetadataReply \/ MetadataNone
  \/ Filter
  \/ Call \/ CallEnds

DiscoveryNext == CallerNext \/ Tick \/ \E s \in Session : Worsens(s)

DiscoverySpec == DiscoveryInit /\ [][DiscoveryNext]_discoveryVars

-----------------------------------------------------------------------------
\* However many servers hang, a discovery and its call take no longer than the
\* timeout of the liveliness query, one timeout for each session found and one
\* for the call: no timer is started twice, and none covers more than one get.
DelayBounded == clock <= ListTout + Tout * (Len(ids) + 1)

\* Neither hung servers nor those of other formats hide others: a server that
\* was heard of, was there all the time and speaks the caller's format is found,
\* whoever else is slow, hangs or goes, unless the discovery fails.
UpIsFound ==
  stage \in {"filtered", "calling", "done"} =>
    \A k \in DOMAIN ids :
      ids[k] \in steady /\ Wanted \subseteq labels[ids[k]] /\ Readable(ids[k]) =>
        \E n \in Found : metas[n] = ids[k]

\* Where formats differ, a request is sent only to a server that can read it.
\* One that could not would panic in unwrap() (zrpc-derive/src/lib.rs:315).
NeverMisread == stage = "calling" => FormatOf[Callee] = OwnFormat

\* What the call knows of its server is at most as old as the timeouts of the
\* sessions asked after it.
StalenessBounded ==
  stage = "calling" /\ waited = 0 =>
    \E n \in DOMAIN ids :
      /\ ids[n] = Callee
      /\ Wanted \subseteq labels[Callee]
      /\ clock - answered[Callee] <= Tout * (Len(ids) - n)
=============================================================================
