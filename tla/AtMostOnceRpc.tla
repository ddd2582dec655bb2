--------------------------- MODULE AtMostOnceRpc ----------------------------
(***************************************************************************)
(* What generated clients and servers promise together, said without       *)
(* sessions, queries or replies.  A call is executed at most once, by a    *)
(* server that suits its client, possibly after the client was told that   *)
(* the call failed.  The executions of a server are numbered without gaps  *)
(* or repetitions, and an Ok result is the number of the call's execution. *)
(***************************************************************************)
EXTENDS Naturals, Sequences, FiniteSets

CONSTANTS Client, Server,
          Suits,    \* the servers that may execute calls of each client
          Failure   \* the codes a call may fail with

VARIABLES calling,    \* the clients with a call in progress
          executions, \* what ran: [client, call, server, value]
          outcome     \* per client, the results of its calls

rpcVars == <<calling, executions, outcome>>

Init ==
  /\ calling = {}
  /\ executions = {}
  /\ outcome = [c \in Client |-> <<>>]

Begun(c) == Len(outcome[c]) + (IF c \in calling THEN 1 ELSE 0)

Begin(c) ==
  /\ c \notin calling
  /\ calling' = calling \cup {c}
  /\ UNCHANGED <<executions, outcome>>

ExecutionsOf(c, n) == {e \in executions : e.client = c /\ e.call = n}

\* Call n of client c runs on server s, now or long after it has returned.
Execute(c, n, s) ==
  /\ s \in Suits[c]
  /\ ExecutionsOf(c, n) = {}
  /\ LET serial == Cardinality({e \in executions : e.server = s}) + 1
     IN  executions' = executions \cup
           {[client |-> c, call |-> n, server |-> s, value |-> serial]}
  /\ UNCHANGED <<calling, outcome>>

Finish(c, result) ==
  /\ outcome' = [outcome EXCEPT ![c] = Append(@, result)]
  /\ calling' = calling \ {c}
  /\ UNCHANGED executions

Succeed(c) ==
  /\ c \in calling
  /\ \E e \in ExecutionsOf(c, Begun(c)) : Finish(c, [kind |-> "ok", value |-> e.value])

\* A call may fail at any time, whether or not anything was done for it.
Fail(c) == \E code \in Failure : Finish(c, [kind |-> "err", code |-> code])

\* The user may stop waiting at any time, too.
Abandon(c) == c \in calling /\ Finish(c, [kind |-> "cancelled"])

Next ==
  \E c \in Client :
    \/ Begin(c)
    \/ \E n \in 1..Begun(c), s \in Server : Execute(c, n, s)
    \/ Succeed(c)
    \/ Fail(c)
    \/ Abandon(c)

Spec == Init /\ [][Next]_rpcVars
=============================================================================
