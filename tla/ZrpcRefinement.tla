--------------------------- MODULE ZrpcRefinement ---------------------------
(***************************************************************************)
(* ZrpcSystem implements AtMostOnceRpc when every client is a generated    *)
(* one and no two servers run under one session id at the same time.       *)
(***************************************************************************)
EXTENDS ZrpcSystem

\* The clients in a call, from its first await to the return.
Calling == {c \in Client : pc[c] # "idle"}

\* The executions, told by the call they are of instead of by the get.
Executions == {[client |-> e.id.client, call |-> e.id.call,
                server |-> e.server, value |-> e.value] : e \in executed}

Rpc == INSTANCE AtMostOnceRpc WITH
  Suits <- [c \in Client |-> {s \in Server : Suitable(c, s)}],
  Failure <- Code,
  calling <- Calling,
  executions <- Executions,
  outcome <- results

\* Whatever the gets, replies and timers of a call did, it is an at-most-once
\* call: nothing runs twice or on an unsuitable server, an Ok is the answer to
\* that very call, and late executions go unreported.
ImplementsRpc == Rpc!Spec
=============================================================================
