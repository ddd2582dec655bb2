------------------------------ MODULE ZrpcWire ------------------------------
(***************************************************************************)
(* The data that crosses a Zenoh session in zenoh-rpc: key expressions,    *)
(* status codes, the WireMessage a server puts in a reply, and how the     *)
(* client turns a reply into the Result of the call.                       *)
(*                                                                         *)
(* Bodies are abstracted to what the code distinguishes: a request body    *)
(* either decodes as the request type of the method it names or it does    *)
(* not; a response body decodes as the response type, or as a              *)
(* ServerMetadata, or as neither ("opaque").                               *)
(***************************************************************************)
EXTENDS Naturals, Sequences

CONSTANTS Zid,      \* Zenoh session identifiers
          Svc,      \* service names
          Method,   \* method names
          Label     \* server labels

-----------------------------------------------------------------------------
(* Key expressions are the sequences of their '/'-separated tokens.        *)

\* format!("@rpc/{}/service/{}/{}", server_id, service_name, method)
ServiceKey(z, v, m) == <<"@rpc", z, "service", v, m>>

\* format!("@rpc/{id}/metadata")
MetadataKey(z) == <<"@rpc", z, "metadata">>

KeyToken == {"@rpc", "service", "metadata"} \cup Zid \cup Svc \cup Method

\* Server::get_token: the token at a zero-based index, if there is one.
HasToken(ke, i) == i < Len(ke)
Token(ke, i) == ke[i + 1]

-----------------------------------------------------------------------------
SuccessCode == {"Ok", "Created", "Accepted"}
ErrorCode == {"BadRequest", "Unauthorized", "Forbidden", "NotFound", "Timeout",
              "InternalError", "NotImplemented", "Unavailable"}
Code == SuccessCode \cup ErrorCode

\* The payload of a WireMessage: absent, bytes that decode as a response with
\* this value, bytes that decode as this ServerMetadata, or other bytes (among
\* them the empty vector that unwrap_or_default leaves).
NoPayload == [kind |-> "none"]
Opaque == [kind |-> "opaque"]
Value(n) == [kind |-> "value", value |-> n]
Metadata(z, ls) == [kind |-> "metadata", id |-> z, labels |-> ls]

Payload == {NoPayload, Opaque}
             \cup [kind : {"value"}, value : Nat]
             \cup [kind : {"metadata"}, id : Zid, labels : SUBSET Label]

\* What a client's reply channel delivers: a sample holding a serialized
\* WireMessage, or the ReplyError that Zenoh itself produces on a timeout.
Sample(code, payload) == [kind |-> "sample", code |-> code, payload |-> payload]
ReplyError == [kind |-> "error"]
Reply == [kind : {"sample"}, code : Code, payload : Payload] \cup {ReplyError}

-----------------------------------------------------------------------------
\* The Result<Response<U>, Status> of a call.
Ok(n) == [kind |-> "ok", value |-> n]
Err(code) == [kind |-> "err", code |-> code]
\* A call whose future was dropped has no Result: the mark it leaves in histories.
Cancelled == [kind |-> "cancelled"]
Result == [kind : {"ok"}, value : Nat] \cup [kind : {"err"}, code : Code] \cup {Cancelled}

\* A client that returns Ok for any payload, decodable or not.
CallResult_AnyPayload(r) ==
  IF r.kind = "error" THEN Err("InternalError")
  ELSE IF r.payload.kind = "none" THEN Err(r.code) ELSE Ok(0)

\* RPCClientChannel::call_fun, from the reply to the result: the status of the
\* WireMessage is what an Err carries whenever the payload is absent or does
\* not decode as the response type.
CallResult(r) ==
  IF r.kind = "error" THEN Err("InternalError")
  ELSE IF r.payload.kind = "value" THEN Ok(r.payload.value) ELSE Err(r.code)
=============================================================================
