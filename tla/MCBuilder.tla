----------------------------- MODULE MCBuilder -----------------------------
(* An instance of ZrpcBuilder for TLC. *)
EXTENDS ZrpcBuilder, TLC

CONSTANTS z1, z2, na, nb, oa1, oa2, ob, l1, l2

MCNameOf == [o \in ServiceObject |-> IF o = ob THEN nb ELSE na]

\* Maps with the right keys, and one that has them wrong.
MCServiceMaps == {(na :> oa1) @@ (nb :> ob), (nb :> oa2)}
=============================================================================
