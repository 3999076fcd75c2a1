----------------------------- MODULE MCAlgorithms ------------------------------
(***************************************************************************)
(* Codec, Parsing, RawRequest and StoreQueries on small inputs.  Each      *)
(* behavior asks about one of them: a packet, a message, the body of a     *)
(* request, a device's path or the list of invalid records.                *)
(***************************************************************************)
EXTENDS Codec, Parsing, RawRequest, StoreQueries

CONSTANTS d1, d2, bad

VARIABLES about, asked

vars == <<about, asked, parseVars, storeVars>>

-----------------------------------------------------------------------------
(* Packets *)

\* The layouts as the devices know them.
DeviceLayout ==
  (8   :> [event |-> 1, count |-> 1, id |-> 1, generation |-> 0, variable |-> FALSE]) @@
  (142 :> [event |-> 2, count |-> 2, id |-> 2, generation |-> 0, variable |-> TRUE]) @@
  (16  :> [event |-> 2, count |-> 1, id |-> 2, generation |-> 1, variable |-> FALSE])

IO(n, bytes) == [id |-> n, bytes |-> bytes, variable |-> FALSE]
OwnIO(n, bytes) == [id |-> n, bytes |-> bytes, variable |-> TRUE]
Ignition == IO(239, <<1>>)
NoIgnition == IO(239, <<0>>)

IOLists ==
  { <<>>, <<Ignition>>, <<NoIgnition>>,
    <<Ignition, IO(66, <<48, 57>>), IO(16, <<0, 0, 1, 0>>), IO(78, <<1, 2, 3, 4, 5, 6, 7, 8>>)>>,
    <<IO(239, <<0, 1>>)>>, <<IO(67, <<239, 1>>), IO(68, <<1, 239>>), NoIgnition>> }

Said(ios) ==
  [time : {<<0, 0, 1, 107, 64, 216, 234, 48>>}, speed : {<<0, 0>>, <<0, 70>>},
   east : BOOLEAN, north : BOOLEAN, ios : ios]

Own == {<<OwnIO(300, <<7>>), Ignition>>, <<OwnIO(239, <<1>>)>>, <<OwnIO(300, <<>>), NoIgnition>>}
Parked ==
  [time |-> <<0, 0, 1, 107, 64, 216, 234, 49>>, speed |-> <<0, 0>>, east |-> TRUE,
   north |-> FALSE, ios |-> <<NoIgnition, IO(5, <<9, 9>>)>>]

Sayings(codec) ==
  LET said == Said(IOLists \cup IF codec = 142 THEN Own ELSE {}) IN
  {<<>>} \cup {<<r>> : r \in said} \cup {<<Parked, r>> : r \in said}

\* Every bit of every byte is flipped, and some bytes become others.
Flips == {1, 2, 4, 8, 16, 32, 64, 128, 255, 90}
XorBytes(a, b) == Word(SymDiff(Bits(a), Bits(b)), 0)
DamagedSayings == {<<>>, <<Parked>>}

AskPacket ==
  \E codec \in Codecs :
    \/ \E saying \in Sayings(codec) :
         asked' = [kind |-> "packet", codec |-> codec, saying |-> saying,
                   data |-> Encode(codec, DeviceLayout[codec], saying)]
    \/ \E saying \in DamagedSayings :
         LET data == Encode(codec, DeviceLayout[codec], saying) IN
         \/ \E i \in DOMAIN data, flip \in Flips :
              asked' = [kind |-> "damaged", data |-> [data EXCEPT ![i] = XorBytes(@, flip)]]
         \/ \E n \in 0..(Len(data) - 1) :
              asked' = [kind |-> "damaged", data |-> SubSeq(data, 1, n)]

-----------------------------------------------------------------------------
AskBody ==
  \E body \in Bodies, type \in ContentTypes :
    asked' = [kind |-> "body", body |-> body, type |-> type]

Init ==
  /\ about \in {"packet", "message", "body", "path", "list"}
  /\ asked = [kind |-> "nothing"]
  /\ ParseInit
  /\ StoreInit

Next ==
  /\ UNCHANGED about
  /\ \/ /\ about = "packet" /\ asked.kind = "nothing" /\ AskPacket
        /\ UNCHANGED <<parseVars, storeVars>>
     \/ /\ about = "body" /\ asked.kind = "nothing" /\ AskBody
        /\ UNCHANGED <<parseVars, storeVars>>
     \/ /\ about = "message" /\ received.form = "nothing" /\ ParseNext
        /\ UNCHANGED <<asked, storeVars>>
     \/ /\ about = "path" /\ StoreRecordsNext
        /\ UNCHANGED <<asked, parseVars>>
     \/ /\ about = "list" /\ ListNext
        /\ UNCHANGED <<asked, parseVars>>

Spec == Init /\ [][Next]_vars

-----------------------------------------------------------------------------
(* Properties *)

\* A record with what it says
Meant(said) ==
  [time |-> said.time, speed |-> Value(said.speed),
   ew |-> IF said.east THEN 1 ELSE 0, ns |-> IF said.north THEN 1 ELSE 0,
   status |-> IF \E i \in DOMAIN said.ios :
                   said.ios[i].id = 239 /\ Value(said.ios[i].bytes) = <<1>>
              THEN 1 ELSE 0]

Says(found, saying) ==
  /\ found.ok
  /\ Len(found.records) = Len(saying)
  /\ \A k \in DOMAIN saying : ToParsed(found.records[k]) = Meant(saying[k])

\* What a device says in a well-formed packet of any codec, with any mix of IO
\* values, is what the parser makes of it, record by record (ParsePacket,
\* decodeRecord, parseIOBlock, teltonikaRecordToParsed).
Understood == asked.kind = "packet" => Says(ParsePacket(asked.data), asked.saying)

\* A packet with a damaged byte, or that ends too early, is refused, and so neither
\* acknowledged nor queued (ParsePacket, CRC16IBM).
DamageRefused == asked.kind = "damaged" => ParsePacket(asked.data) = Error

\* From what the mirror sends the body can be had back, whatever it is and whatever
\* its content type says (ForwardHTTPBody, buildRawRequest).
MirrorRestores ==
  asked.kind = "body" =>
    /\ Restored(ForwardHTTPBody(asked.body, asked.type)) = asked.body
    /\ Restored(BuildRawRequest(asked.body, "hex", "teltonika")) = asked.body
=============================================================================
