------------------------------ MODULE GeoJson ------------------------------
(***************************************************************************)
(* The position messages of the telemetry scenario: how each language writes a *)
(* point and reads one, and the payload buffer of the C handler.                *)
(*                                                                         *)
(* A coordinate is an integer, in tenths of a micro-degree: one digit more than *)
(* C prints, so that what "%.6f" rounds off is seen.  A position is the pair    *)
(* of what the program calls latitude and longitude (x and y in C).            *)
(* A text is what a JSON parser can tell of it: whether it is one document,     *)
(* which members it has, and the elements of its coordinates.                  *)
(***************************************************************************)
EXTENDS Integers, Sequences

Languages == {"c", "dotnet", "ts", "python"}

Degree == 10000000
Quarter == {c \in Int : -(90 * Degree) <= c /\ c <= 90 * Degree}
Turn    == {c \in Int : -(180 * Degree) <= c /\ c <= 180 * Degree}

Absolute(n) == IF n < 0 THEN -n ELSE n

-----------------------------------------------------------------------------
(* Numbers as printed by json-c with the format "%.6f".                      *)
Micro(c) == (Absolute(c) + 5) \div 10

Printed(c) == IF c < 0 THEN -(Micro(c) * 10) ELSE Micro(c) * 10

IntegerDigits(micro) ==
  IF micro < 10 * 1000000 THEN 1 ELSE IF micro < 100 * 1000000 THEN 2 ELSE 3

(* The sign is printed even of a number that is rounded to zero.              *)
Width(c) == (IF c < 0 THEN 1 ELSE 0) + IntegerDigits(Micro(c)) + 7

(* {"type":"Point","coordinates":[x,y]}                                      *)
TextLength(p) == 34 + Width(p[1]) + Width(p[2])

-----------------------------------------------------------------------------
(* What each language writes.  An element of the coordinates is numeric unless it  *)
(* is NaN.                                                                 *)
Number(n) == [numeric |-> TRUE, value |-> n]

Elements == [numeric : BOOLEAN, value : Int]

Texts == [document : BOOLEAN, members : SUBSET {"type", "coordinates"}, type : {"Point"},
          coordinates : Seq(Elements)]

PointText(a, b) ==
  [document |-> TRUE, members |-> {"type", "coordinates"}, type |-> "Point",
   coordinates |-> <<Number(a), Number(b)>>]

CText(p)  == PointText(Printed(p[1]), Printed(p[2]))
TsText(p) == PointText(p[1], p[2])

(* GeoJSON.Text takes latitude and longitude, and writes longitude first.      *)
DotnetText(p) == PointText(p[2], p[1])

(* __repr__ writes the members without the braces: no JSON document; a parser   *)
(* that stops after the first value, as json-c does, sees a string.            *)
NoDocument(a, b) ==
  [document |-> FALSE, members |-> {}, type |-> "Point", coordinates |-> <<Number(a), Number(b)>>]

PythonText(p) == NoDocument(p[1], p[2])

Text(language, p) ==
  IF language = "c" THEN CText(p)
  ELSE IF language = "ts" THEN TsText(p)
  ELSE IF language = "dotnet" THEN DotnetText(p)
  ELSE PythonText(p)

-----------------------------------------------------------------------------
(* What each language reads.                                                *)

(* json_object_get_double of a missing element is zero, and no error.          *)
Element(text, i) ==
  IF i \in 1..Len(text.coordinates) THEN text.coordinates[i] ELSE Number(0)

(* mosquitto_payload_to_geojson_point returns 0.                              *)
Accepts(text) ==
  /\ "type" \in text.members
  /\ text.type = "Point"
  /\ "coordinates" \in text.members
  /\ Element(text, 1).numeric
  /\ Element(text, 2).numeric

(* The Python consumer prints the text, whatever it is.                       *)
Readable(language, text) ==
  /\ language = "c" => Accepts(text)
  /\ language \in {"ts", "dotnet"} => text.document

ReadInOrder(text) == <<Element(text, 1).value, Element(text, 2).value>>

PositionIn(language, text) ==
  IF language = "dotnet"
  THEN <<Element(text, 2).value, Element(text, 1).value>>
  ELSE ReadInOrder(text)

-----------------------------------------------------------------------------
MAX_PAYLOAD_LENGTH_Tight == 54

(* mosquitto_payload.  size counts the bytes of the text in the buffer, with    *)
(* its terminator.                                                          *)
MAX_PAYLOAD_LENGTH == 60

NoText == NoDocument(0, 0)

PayloadInit(max) ==
  [text |-> NoText, size |-> 1, payload_length |-> 0, max_payload_length |-> max]

PayloadDestroyed == [text |-> NoText, size |-> 0, payload_length |-> 0, max_payload_length |-> 0]

Fits(p, payload) == TextLength(p) <= payload.max_payload_length

Stored(p, payload) ==
  [text |-> CText(p), size |-> TextLength(p) + 1, payload_length |-> TextLength(p),
   max_payload_length |-> payload.max_payload_length]

(* The bytes that are published: the text, if payload_length is its length.     *)
Published(payload) ==
  IF payload.payload_length = payload.size - 1 THEN payload.text ELSE NoText
=============================================================================
