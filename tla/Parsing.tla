-------------------------------- MODULE Parsing --------------------------------
(***************************************************************************)
(* internal/parser and what cmd/server/main.go makes of its result: from   *)
(* a message of the queue to the records that are filtered and sent, and   *)
(* the rows for gps_invalid_records.  A JSON body is the sequence of its   *)
(* objects, of which only what happens to them is kept.                    *)
(***************************************************************************)
EXTENDS Ordering

CONSTANTS
  Imeis,      \* of the devices
  Seconds,    \* values of a record's time, in order
  MaxObjects  \* bound on the objects of a message

ASSUME ParsingAssumption == Seconds \subseteq Nat /\ MaxObjects \in Nat

VARIABLES
  received,   \* the message of the queue that a worker handled last
  outcome     \* what came of it

parseVars == <<received, outcome>>

\* {"data":"..."} with twelve fields that convert, with others, with none, with a
\* second member, with a string that does not end; with twelve fields or others, but
\* behind a space or another member; {}; {"x":1}; {"data":7}.
ObjectKinds ==
  {"good", "bad", "blank", "extra", "torn", "later", "laterBad", "empty", "strange", "number"}

Whole == [whole |-> TRUE]
Failure == [ok |-> FALSE]
Parsed(records, invalid) == [ok |-> TRUE, records |-> records, invalid |-> invalid]

Record(object, imei) == [time |-> object.time, n |-> object.n, imei |-> imei]

-----------------------------------------------------------------------------
(* Hooshnic JSON *)

\* preprocessJSON repairs what separates the objects, and drops an empty one behind
\* another.
Preprocess(objects) ==
  Those(objects, {k \in DOMAIN objects : k = 1 \/ objects[k].kind # "empty"})

\* The object has a string of data.
HasData(object) == object.kind \notin {"empty", "strange", "number"}

\* dataObjectStartPattern finds data only as the first member, directly behind the brace.
Begins(object) == object.kind \in {"good", "bad", "blank", "extra", "torn"}

\* readJSONStringValue: a string that ends and is not empty, and then the object ends.
Extracts(object) == object.kind \in {"good", "bad"}

\* Mutation of ExtractDataItems: what cannot be extracted is skipped.
ExtractDataItemsOnly(objects) ==
  [items |-> Those(objects, {k \in DOMAIN objects : Extracts(objects[k])}), invalid |-> <<>>]

ExtractDataItems(objects) ==
  [items |-> Those(objects, {k \in DOMAIN objects : Extracts(objects[k])}),
   invalid |-> Those(objects, {k \in DOMAIN objects : Begins(objects[k]) /\ ~Extracts(objects[k])})]

\* processDataItem converts the data.
Converts(object) == object.kind \in {"good", "extra", "later"}

\* Unmarshal takes the whole array.
Decodes(body) ==
  LET objects == Preprocess(body.objects)
  IN  body.closed /\ \A k \in DOMAIN objects : objects[k].kind \notin {"torn", "number"}

\* decodeJSONData and processDataItems: all objects of an array that decodes, or
\* else those that can be extracted.
ParseHooshnicJSON(body) ==
  LET objects == Preprocess(body.objects)
      found == IF Decodes(body) THEN [items |-> objects, invalid |-> <<>>] ELSE ExtractDataItems(objects)
      good == {k \in DOMAIN found.items : Converts(found.items[k])}
      items == Those(found.items, good)
  IN IF ~Decodes(body) /\ found.items = <<>> /\ found.invalid = <<>> THEN Failure
     ELSE Parsed([k \in DOMAIN items |-> Record(items[k], items[k].imei)],
                 found.invalid \o Those(found.items, DOMAIN found.items \ good))

-----------------------------------------------------------------------------
(* Teltonika *)

\* ParseTeltonikaEnvelope, for the frame of a session or a packet that
\* prepareBodyForQueue has parsed: every record has the IMEI of the connection or the
\* header.
Wrap(imei, objects) ==
  [form |-> "envelope", closed |-> TRUE, marked |-> TRUE, imei |-> imei,
   objects |-> [k \in DOMAIN objects |-> [objects[k] EXCEPT !.imei = imei]]]

NoImei == "none"

\* unmarshalTeltonikaEnvelope: what does not decode, or says that it is no envelope, is
\* an error; a record that names no device has the envelope's.
ParseEnvelope(body) ==
  LET Owner(object) == IF object.imei = NoImei THEN body.imei ELSE object.imei IN
  IF ~body.closed \/ ~body.marked THEN Failure
  ELSE Parsed([k \in DOMAIN body.objects |-> Record(body.objects[k], Owner(body.objects[k]))], <<>>)

\* parseTeltonikaAVL, where nobody names the device.  A packet whose records end too
\* early panics here (Codec): the worker recovers, and the message waits for its next
\* delivery as after any error of the handler.
ParseAVL(body) ==
  IF ~body.closed THEN Failure
  ELSE Parsed([k \in DOMAIN body.objects |-> Record(body.objects[k], NoImei)], <<>>)

\* ParseWithIMEI, by what DetectFormat finds at the beginning of the body
ParseWithIMEI(body) ==
  CASE body.form = "envelope" -> ParseEnvelope(body)
    [] body.form = "avl"      -> ParseAVL(body)
    [] body.form = "json"     -> ParseHooshnicJSON(body)
    [] body.form = "unknown"  -> Failure

\* Mutation of ByTime: the order of the message.
ByTimeNot(records) == {records}

\* sort.Slice by DateTime, which leaves records of the same second in any order
ByTime(records) ==
  {[k \in DOMAIN records |-> records[p[k]]] :
     p \in {q \in SetToSeqs(DOMAIN records) :
              \A i, j \in DOMAIN q : i < j => records[q[i]].time <= records[q[j]].time}}

-----------------------------------------------------------------------------
(* messageHandler *)

\* What it hands to the filter, and what to the writer as invalid: the objects that
\* do not parse, or the whole message when there is nothing else to tell.
Handled(body) ==
  LET parsed == ParseWithIMEI(body) IN
  IF ~parsed.ok THEN {[forward |-> <<>>, invalid |-> <<Whole>>]}
  ELSE {[forward |-> records,
         invalid |-> IF records = <<>> /\ parsed.invalid = <<>> THEN <<Whole>>
                     ELSE parsed.invalid] :
          records \in ByTime(parsed.records)}

\* A message of up to MaxObjects objects, numbered as they come
Objects(kinds, imeis) ==
  UNION {{[k \in 1..len |-> [kind |-> of[k], time |-> at[k], n |-> k, imei |-> by[k]]] :
            of \in [1..len -> kinds], at \in [1..len -> Seconds], by \in [1..len -> imeis]} :
         len \in 0..MaxObjects}

\* What a client may have posted, envelopes included; the objects of a packet name no
\* device.
Messages ==
  {[form |-> "json", closed |-> c, objects |-> o] : c \in BOOLEAN, o \in Objects(ObjectKinds, Imeis)}
    \cup {[form |-> "avl", closed |-> c, objects |-> o] :
            c \in BOOLEAN, o \in Objects({"good"}, {NoImei})}
    \cup {[form |-> "envelope", closed |-> c, marked |-> m, imei |-> i, objects |-> o] :
            c \in BOOLEAN, m \in BOOLEAN, i \in Imeis, o \in Objects({"good"}, Imeis \cup {NoImei})}
    \cup {[form |-> "unknown"]}

ParseInit ==
  /\ received = [form |-> "nothing"]
  /\ outcome = [forward |-> <<>>, invalid |-> <<>>]

\* A worker handles what was queued as it came, or as a session or the handler wrapped it.
HandleBody(body) ==
  /\ received' = body
  /\ outcome' \in Handled(body)

HandleFrame(imei, objects) ==
  /\ received' = [form |-> "frame", imei |-> imei, objects |-> objects]
  /\ outcome' \in Handled(Wrap(imei, objects))

ParseNext ==
  \/ \E body \in Messages : HandleBody(body)
  \/ \E imei \in Imeis, objects \in Objects({"good"}, {NoImei}) : HandleFrame(imei, objects)

ParseSpec == ParseInit /\ [][ParseNext]_parseVars

-----------------------------------------------------------------------------
(* Properties *)

\* The objects that may not get lost: every one with a string of data if the array
\* decodes; of one that does not, those that the recovery looks for.
Traceable(body) ==
  {k \in DOMAIN body.objects :
     Begins(body.objects[k]) \/ (HasData(body.objects[k]) /\ Decodes(body))}

\* "Only malformed records are dropped instead of the entire group" (parser.go:99),
\* and not without a trace: of a message of the queue each of these objects is sent to
\* the filter once or stored as invalid once, alone or with the whole message, and every
\* message leaves something.  An object whose data is not its first member is not looked
\* for in an array that does not decode (parseHooshnicJSON, messageHandler).
ObjectsAccounted ==
  received.form \in {"json", "avl", "envelope", "unknown"} =>
    LET forward == outcome.forward
        kept == outcome.invalid
        Mentions(n) == Cardinality({k \in DOMAIN forward : forward[k].n = n})
                      + Cardinality({k \in DOMAIN kept : kept[k] = Whole \/ kept[k].n = n})
    IN /\ forward \o kept # <<>>
       /\ received.form # "unknown" =>
            \A k \in Traceable(received) : Mentions(k) = 1

\* What a session or the handler wraps for the queue comes out of it complete, in the
\* order of the device's clock, and under its IMEI; nothing of it is stored as invalid
\* unless there was nothing (ParseTeltonikaEnvelope, ParseWithIMEI).
WrappedKept ==
  received.form = "frame" =>
    LET forward == outcome.forward IN
    /\ Len(forward) = Len(received.objects)
    /\ {forward[k].n : k \in DOMAIN forward} = DOMAIN received.objects
    /\ \A k \in 1..(Len(forward) - 1) : forward[k].time <= forward[k + 1].time
    /\ \A k \in DOMAIN forward : forward[k].imei = received.imei
    /\ received.objects # <<>> => outcome.invalid = <<>>
=============================================================================
