------------------------------ MODULE RawRequest -------------------------------
(***************************************************************************)
(* internal/hooshnics/forwarder.go: how the mirror encodes the body of an  *)
(* HTTP request.  Of a body only what the code asks is kept: is it UTF-8,  *)
(* does it begin with a bracket, is it a text of hexadecimal digits.       *)
(***************************************************************************)

ContentTypes == {"application/octet-stream", "application/json", ""}

Bodies ==
  {b \in [utf8 : BOOLEAN, bracket : BOOLEAN, hexText : BOOLEAN] :
     b.hexText => b.utf8 /\ ~b.bracket}

\* What is sent: the body as it is, or an envelope with a text.
AsIs(body) == [form |-> "body", of |-> body]
Envelope(encoding, text, source) ==
  [form |-> "envelope", encoding |-> encoding, text |-> text, source |-> source]

\* hex.EncodeToString, and the conversion of bytes to a JSON string, which keeps
\* them only if they are UTF-8
Hex(body) == [digits |-> body]
Text(body) == [chars |-> body]

\* Mutation of BuildRawRequest: a text of hexadecimal digits is not encoded again.
BuildRawRequestOnce(body, encoding, source) ==
  IF body.bracket /\ body.utf8 /\ encoding = "json" /\ source # "teltonika"
  THEN AsIs(body)
  ELSE IF encoding = "hex" /\ body.hexText THEN Envelope("hex", Text(body), source)
  ELSE IF encoding = "hex" \/ ~body.utf8 THEN Envelope("hex", Hex(body), source)
  ELSE Envelope(encoding, Text(body), source)

\* buildRawRequest; ForwardHTTPBody and ForwardTeltonikaAVL always name an encoding.
BuildRawRequest(body, encoding, source) ==
  LET isJSON == body.bracket /\ body.utf8
      hex == encoding = "hex" \/ ~body.utf8 \/ (encoding = "json" /\ ~isJSON)
  IN IF isJSON /\ encoding = "json" /\ source # "teltonika" THEN AsIs(body)
     ELSE IF hex THEN Envelope("hex", Hex(body), source)
     ELSE Envelope(encoding, Text(body), source)

\* ForwardHTTPBody: the first case that applies
ForwardHTTPBody(body, contentType) ==
  IF contentType = "application/octet-stream" THEN BuildRawRequest(body, "hex", "teltonika")
  ELSE IF body.bracket THEN BuildRawRequest(body, "json", "hooshnic")
  ELSE IF body.hexText THEN BuildRawRequest(body, "hex", "teltonika")
  ELSE BuildRawRequest(body, IF body.utf8 THEN "text" ELSE "hex", "http")

\* What a receiver makes of it that follows payload_encoding: decoding a text of
\* hexadecimal digits gives other bytes than its own, and bytes that are not UTF-8
\* do not survive in a JSON string.
Garbled == [garbled |-> TRUE]

Restored(request) ==
  CASE request.form = "body" -> request.of
    [] request.form = "envelope" /\ request.encoding = "hex" ->
         IF "digits" \in DOMAIN request.text THEN request.text.digits ELSE Garbled
    [] OTHER ->
         IF "chars" \in DOMAIN request.text /\ request.text.chars.utf8
         THEN request.text.chars ELSE Garbled
=============================================================================
