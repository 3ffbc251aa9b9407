----------------------------- MODULE RequestBody -----------------------------
(***************************************************************************)
(* The body a request brings (src/runtime/body.ts).                        *)
(*                                                                         *)
(* A body is [empty, media, json, value]: `json` whether its text parses,  *)
(* `value` what it then is.  Media are "" for no content type, "json",     *)
(* "+json", "form", "text" and others, which give raw bytes.               *)
(***************************************************************************)
EXTENDS JsonValues

PickMedia(content, media) ==
  IF media \in DOMAIN content THEN <<content[media]>>
  ELSE IF media \in {"", "+json"} /\ "json" \in DOMAIN content THEN <<content["json"]>>
  ELSE <<>>

\* The status of a refusal, or 0 and the value.
ParseBody(body, operation) ==
  LET Parsed(value) == [status |-> 0, value |-> value]
      Refused(status) == [status |-> status, value |-> Undefined]
  IN IF body.empty THEN Parsed(Undefined)
     ELSE IF /\ DOMAIN operation.requestBody # {} /\ body.media # ""
             /\ PickMedia(operation.requestBody, body.media) = <<>> THEN Refused(415)
     ELSE IF body.media \in {"json", "+json"}
     THEN IF body.json THEN Parsed(body.value) ELSE Refused(400)
     ELSE IF body.media \in {"form", "text"} THEN Parsed(body.value)
     ELSE Parsed(Bytes)
=============================================================================
