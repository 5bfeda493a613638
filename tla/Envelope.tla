----------------------------- MODULE Envelope -----------------------------
(***************************************************************************)
(* The JSON-RPC envelope of pkg/holonrpc/types.go: JSON values by the kinds *)
(* that the code tells apart, what it decodes and encodes them to, and what *)
(* both read loops take a message for.                                     *)
(***************************************************************************)

RawIDs == {"absent", "null", "number", "string", "s string"}
RawParams == {"absent", "null", "object", "other"}

(* Absent and null ids make a notification.                                  *)
hasID(id) == id \notin {"absent", "null"}

(* What a client requires of the ids of its server's requests.               *)
isServerID(id) == id = "s string"

(* Absent and null params are an empty object.                               *)
decodeParams(raw) == IF raw = "other" THEN "error" ELSE "object"

(* A nil map is encoded as an empty object; a value may have no encoding.     *)
Values == {"nil", "object", "unencodable"}
marshalObject(value) == IF value = "unencodable" THEN "error" ELSE "object"

(* What a message that is neither a request nor the response to a call may    *)
(* be: not text, no JSON, no envelope, or an envelope with no more than an id. *)
Frames == [text : {FALSE}, json : {"any"}, id : {"absent"}]
          \cup [text : {TRUE}, json : {"invalid", "no envelope"}, id : {"absent"}]
          \cup [text : {TRUE}, json : {"envelope"}, id : RawIDs]

(* What the read loop answers it with itself, or "nothing".                   *)
Refusal(f) ==
  CASE ~f.text                -> "nothing"
    [] f.json = "invalid"     -> "parse error"
    [] f.json = "no envelope" -> "invalid request"
    [] OTHER                  -> IF hasID(f.id) THEN "invalid request" ELSE "nothing"
=============================================================================
