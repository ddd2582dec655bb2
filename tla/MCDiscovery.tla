----------------------------- MODULE MCDiscovery -----------------------------
(* An instance of ServerDiscovery for TLC. *)
EXTENDS ServerDiscovery, TLC

CONSTANTS s1, s2, s3, f1, l1, l2

MCLabelSets == {{}, {l1, l2}}

MCFormatOf == s1 :> "json" @@ s2 :> "json" @@ s3 :> "cbor"
=============================================================================
