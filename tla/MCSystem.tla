------------------------------ MODULE MCSystem ------------------------------
(* Instances of ZrpcSystem for TLC: the values its constants take. *)
EXTENDS ZrpcRefinement, TLC

CONSTANTS s1, s2, s3, c1, c2, z1, z2, va, vb, m1, m9, l1, l2

\* Sessions: one each, s3 after s1 on z1, or both servers on one.
MCTwoSessions == [s \in Server |-> IF s = s1 THEN z1 ELSE z2]
MCSuccessor == [s \in Server |-> IF s = s2 THEN z2 ELSE z1]
MCOneSession == [s \in Server |-> z1]

\* s1, and s3, offer va and vb and have both labels, s2 offers va and has l1.
MCServices == [s \in Server |-> IF s = s2 THEN {va} ELSE {va, vb}]
MCSameServices == [s \in Server |-> {va}]
MCLabels == [s \in Server |-> IF s = s2 THEN {l1} ELSE {l1, l2}]
MCMethodsOf == [v \in Svc |-> {m1}]

\* c1 wants va, either from s1 only or from both; c2 wants vb, or va.
MCClientService == [c \in Client |-> IF c = c1 THEN va ELSE vb]
MCOneService == [c \in Client |-> va]
MCPickyLabels == [c \in Client |-> IF c = c1 THEN {l2} ELSE {}]
MCLabelsOfBoth == [c \in Client |-> {l1}]

MCWellformed == [method : {m1}, body : {"wellformed"}]
MCSerializable == [method : {m1}, body : {"wellformed", "malformed"}]
MCUnserializable == [method : {m1}, body : {"wellformed", "unserializable"}]

\* Every key that the code of serve() and of its tasks tells apart.
MCRawKeys == {<<"@rpc", z1>>,
              <<"@rpc", z1, "metadata">>,
              <<"@rpc", z1, "service">>,
              <<"@rpc", z1, "service", va>>,
              <<"@rpc", z1, "service", vb, m1>>,
              <<"@rpc", z1, "service", va, m9>>,
              <<"@rpc", z1, "service", va, m1>>}
MCUnknownKeys == {<<"@rpc", z1>>, <<"@rpc", z1, m9>>}
=============================================================================
