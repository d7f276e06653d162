----------------------------- MODULE PacketCodec -----------------------------
(***************************************************************************)
(* How a packet becomes bytes or JSON and a packet again: FIREBASE.        *)
(* ByteArray, utf8 and Styx of js/fb/firebase-js-api-1.8.0-CE-javascript.js *)
(* and the save, load and getNormalizedObject of the classes of            *)
(* PacketSchemas. A string is its sequence of UTF-16 code units, a packet  *)
(* the sequence of the values of its fields. Integers have the widths of   *)
(* the code: a buffer holds the numbers the code pushes, which are bytes   *)
(* except the top one of an int, which keeps its sign. A call that throws  *)
(* has ok = FALSE.                                                         *)
(***************************************************************************)
EXTENDS PacketSchemas, Integers, Sequences, FiniteSets, SequencesExt

CONSTANTS
  Ints,     \* the 32-bit values tried
  Shorts,   \* the 16-bit values tried
  Octets,   \* the 8-bit values tried
  Strings   \* the strings tried

\* An element an array has no value for (byteArray.buffer of a plain array).
Undefined == 999

Done(buffer) == [ok |-> TRUE, buffer |-> buffer]
Threw == [ok |-> FALSE, buffer |-> <<>>]

-----------------------------------------------------------------------------
\* Text: utf8.toByteArray and utf8.fromByteArray.

\* A code unit of a surrogate pair: encodeURIComponent of it alone throws.
Surrogate(u) == u \in 55296 .. 57343

Utf8Unit(u) ==
  IF u <= 127 THEN <<u>>
  ELSE IF u <= 2047 THEN <<192 + (u \div 64), 128 + (u % 64)>>
  ELSE <<224 + (u \div 4096), 128 + ((u \div 64) % 64), 128 + (u % 64)>>

toByteArray(str) ==
  IF \E i \in DOMAIN str : Surrogate(str[i]) THEN Threw
  ELSE Done(FlattenSeq([i \in DOMAIN str |-> Utf8Unit(str[i])]))

\* The number of bytes a first byte announces, 0 when it cannot be one.
Utf8Length(b) ==
  CASE b \in 0 .. 127 -> 1
    [] b \in 194 .. 223 -> 2
    [] b \in 224 .. 239 -> 3
    [] OTHER -> 0

\* decodeURIComponent of the escaped bytes; four-byte sequences are left out
\* (toByteArray never makes one).
RECURSIVE fromByteArray(_)
fromByteArray(bytes) ==
  IF bytes = <<>> THEN Done(<<>>)
  ELSE LET n == Utf8Length(bytes[1])
           unit == CASE n = 1 -> bytes[1]
                     [] n = 2 -> (bytes[1] - 192) * 64 + bytes[2] - 128
                     [] n = 3 -> (bytes[1] - 224) * 4096 + (bytes[2] - 128) * 64
                                 + bytes[3] - 128
       IN IF \/ n = 0 \/ n > Len(bytes)
             \/ \E i \in 2 .. n : bytes[i] \notin 128 .. 191
            THEN Threw
            ELSE LET rest == fromByteArray(SubSeq(bytes, n + 1, Len(bytes)))
                 IN IF rest.ok THEN Done(<<unit>> \o rest.buffer) ELSE Threw

-----------------------------------------------------------------------------
\* Base 64: a string is the sequence of the places of its characters in
\* _keyStr, 64 for the padding; a place outside _keyStr adds no character.

Pad == 64

toBase64String(input) ==
  LET n == Len(input)
      At(i) == input[i + 1]
      Digit(i) ==
        CASE i % 3 = 0 -> <<At(i) \div 4>>
          [] i % 3 = 1 -> <<(At(i - 1) % 4) * 16 + (At(i) \div 16)>>
          [] i % 3 = 2 -> <<(At(i - 1) % 16) * 4 + (At(i) \div 64), At(i) % 64>>
      digits == FlattenSeq([i \in 1 .. n |-> Digit(i - 1)])
      last == IF n = 0 THEN 0 ELSE input[n]
      padding ==
        CASE n = 0 -> <<0, Pad, Pad>>
          [] n % 3 = 1 -> <<(last % 4) * 16, Pad, Pad>>
          [] n % 3 = 2 -> <<(last % 16) * 4, Pad>>
          [] OTHER -> <<>>
  IN SelectSeq(digits \o padding, LAMBDA d : d \in 0 .. Pad)

\* Mutant of fromBase64String: the padding of the last group is not looked at.
UnpaddedBytes(input) ==
  FlattenSeq([g \in 1 .. Len(input) \div 4 |->
    LET e == SubSeq(input, 4 * g - 3, 4 * g)
    IN <<(e[1] * 4 + (e[2] \div 16)) % 256, (e[2] % 16) * 16 + ((e[3] % 64) \div 4),
         (e[3] % 4) * 64 + (e[4] % 64)>>])

fromBase64String(input) ==
  FlattenSeq([g \in 1 .. Len(input) \div 4 |->
    LET e == SubSeq(input, 4 * g - 3, 4 * g)
    IN <<e[1] * 4 + (e[2] \div 16)>>
       \o (IF e[3] # Pad THEN <<(e[2] % 16) * 16 + (e[3] \div 4)>> ELSE <<>>)
       \o (IF e[4] # Pad THEN <<(e[3] % 4) * 64 + e[4]>> ELSE <<>>)])

-----------------------------------------------------------------------------
\* Writing: the bytes a call appends to the buffer.

writeInt(v) ==
  <<v \div 16777216, (v \div 65536) % 256, (v \div 256) % 256, v % 256>>
writeShort(v) == <<(v \div 256) % 256, v % 256>>
writeByte(v) == <<v % 256>>
writeBoolean(v) == writeByte(IF v THEN 1 ELSE 0)

\* writeUnsignedShort of the length, then the bytes.
writeString(str) ==
  LET bytes == toByteArray(str)
  IN IF bytes.ok THEN Done(writeShort(Len(bytes.buffer)) \o bytes.buffer) ELSE Threw

Append2(a, b) == [ok |-> a.ok /\ b.ok, buffer |-> a.buffer \o b.buffer]

\* One field of save. A byte array is a plain array, of which writeArray
\* appends the undefined property buffer; writeLong does not exist.
RECURSIVE write(_, _), save(_, _)
write(k, v) ==
  CASE k.kind = "I32" -> Done(writeInt(v))
    [] k.kind = "I16" -> Done(writeShort(v))
    [] k.kind = "I8" -> Done(writeByte(v))
    [] k.kind = "Flag" -> Done(writeBoolean(v))
    [] k.kind = "Enum" -> Done(writeByte(v))
    [] k.kind = "Text" -> writeString(v)
    [] k.kind = "I64" -> Threw
    [] k.kind = "Blob" -> Done(writeInt(Len(v)) \o <<Undefined>>)
    [] k.kind = "Obj" -> save(k.class, v)
    [] k.kind = "Many" ->
         FoldLeft(LAMBDA done, element : Append2(done, write(k.of, element)),
                  Done(writeInt(Len(v))), v)

save(class, packet) ==
  FoldLeft(LAMBDA done, i : Append2(done, write(class.fields[i].kind, packet[i])),
           Done(<<>>), [i \in DOMAIN packet |-> i])

-----------------------------------------------------------------------------
\* Reading: a reader is its buffer and position; the result of a call is the
\* reader after it and the value. A string is cut out of the buffer, every
\* other value moves the position.

Reader(buffer) == [ok |-> TRUE, buffer |-> buffer, position |-> 0]
remaining(r) == Len(r.buffer) - r.position
Read(r, v) == [r |-> r, v |-> v]
Raise(r) == [r |-> [r EXCEPT !.ok = FALSE], v |-> 0]
Signed(v, w) == IF v > (w \div 2) - 1 THEN v - w ELSE v

\* The byte d places after the position.
ByteAt(r, d) == r.buffer[r.position + 1 + d]
Advance(r, n) == [r EXCEPT !.position = @ + n]

readInt(r) ==
  IF remaining(r) < 4 THEN Raise(r)
  ELSE Read(Advance(r, 4),
            Signed(ByteAt(r, 0), 256) * 16777216 + ByteAt(r, 1) * 65536
            + ByteAt(r, 2) * 256 + ByteAt(r, 3))

\* Mutant of readShort: the sign is left out.
ReadUnsigned(r) ==
  IF remaining(r) < 2 THEN Raise(r)
  ELSE Read(Advance(r, 2), ByteAt(r, 0) * 256 + ByteAt(r, 1))

readShort(r) ==
  IF remaining(r) < 2 THEN Raise(r)
  ELSE Read(Advance(r, 2), Signed(ByteAt(r, 0) * 256 + ByteAt(r, 1), 65536))

readByte(r) ==
  IF remaining(r) < 1 THEN Raise(r) ELSE Read(Advance(r, 1), Signed(ByteAt(r, 0), 256))

readUnsignedByte(r) ==
  LET b == readByte(r) IN IF b.v < 0 THEN Read(b.r, b.v + 256) ELSE b

\* The length is a signed short: a negative one cuts nothing out.
readString(r) ==
  LET length == readShort(r)
      from == length.r.position
      n == IF length.v < 0 THEN 0
           ELSE IF length.v < remaining(length.r) THEN length.v ELSE remaining(length.r)
      text == fromByteArray(SubSeq(r.buffer, from + 1, from + n))
      left == [length.r EXCEPT !.buffer =
                 SubSeq(@, 1, from) \o SubSeq(@, from + n + 1, Len(@))]
  IN IF ~length.r.ok \/ ~text.ok THEN Raise(r) ELSE Read(left, text.buffer)

\* make<Enum>: an ordinal the client does not know is -1.
makeEnum(names, n) == IF n < Len(names) THEN n ELSE -1

\* The field of load after the ones in `done`: nothing after an exception.
Next1(done, value) == Read(value.r, Append(done.v, value.v))

RECURSIVE read(_, _), load(_, _)
read(k, r) ==
  CASE k.kind = "I32" -> readInt(r)
    [] k.kind = "I16" -> readShort(r)
    [] k.kind = "I8" -> readByte(r)
    [] k.kind = "Flag" -> LET b == readByte(r) IN Read(b.r, b.v # 0)
    [] k.kind = "Enum" ->
         LET b == readUnsignedByte(r) IN Read(b.r, makeEnum(k.names, b.v))
    [] k.kind = "Text" -> readString(r)
    [] k.kind = "I64" -> Raise(r)       \* there is no readLong
    [] k.kind = "Blob" -> Raise(r)      \* there is no readArray
    [] k.kind = "Obj" -> load(k.class, r)
    [] k.kind = "Many" ->
         LET n == readInt(r)
         IN IF ~n.r.ok THEN n
            ELSE FoldLeft(LAMBDA done, i :
                            IF done.r.ok THEN Next1(done, read(k.of, done.r)) ELSE done,
                          Read(n.r, <<>>), [i \in 1 .. n.v |-> i])

load(class, r) ==
  FoldLeft(LAMBDA done, field :
             IF done.r.ok THEN Next1(done, read(field.kind, done.r)) ELSE done,
           Read(r, <<>>), class.fields)

\* ProtocolObjectFactory.create: the class with that id loads itself.
create(classId, r) ==
  load(Classes[SelectInSeq(Classes, LAMBDA c : c.id = classId)], r)

-----------------------------------------------------------------------------
\* Parameters: Styx.writeParam by the type of the value, a string or a number
\* (ParameterTypeEnum 0 and 1).

writeParam(key, value, isString) ==
  IF isString THEN <<key, 0, writeString(value).buffer>> ELSE <<key, 1, writeInt(value)>>

\* Showing a value: whether it throws, the description, and what is left of
\* the value shown.
Shown(ok, v, left) == [ok |-> ok, v |-> v, left |-> left]

\* Mutant of getParam: a number is read as a short.
ParamAsShort(param) ==
  LET value == IF param[2] = 0 THEN readString(Reader(param[3])) ELSE readShort(Reader(param[3]))
  IN Shown(value.r.ok, <<param[1], value.v>>, <<param[1], param[2], value.r.buffer>>)

\* Styx.getParam and readParam: the reader works on the array of the parameter
\* itself, so readString cuts the text out of the packet.
getParam(param) ==
  LET value == IF param[2] = 0 THEN readString(Reader(param[3])) ELSE readInt(Reader(param[3]))
  IN Shown(value.r.ok, <<param[1], value.v>>, <<param[1], param[2], value.r.buffer>>)

-----------------------------------------------------------------------------
\* getNormalizedObject: the description of a packet that is shown. Only
\* objects have it, so an array of numbers, bytes or strings that is not empty
\* throws; what comes after an exception is not reached.

EnumName(names, v) == IF v + 1 \in DOMAIN names THEN names[v + 1] ELSE "INVALID_ENUM_VALUE"

ShowAll(shown, values) ==
  LET failed == {i \in DOMAIN shown : ~shown[i].ok}
      Reached(i) == \A j \in failed : i <= j
  IN Shown(failed = {}, [i \in DOMAIN shown |-> shown[i].v],
           [i \in DOMAIN shown |-> IF Reached(i) THEN shown[i].left ELSE values[i]])

RECURSIVE show(_, _), getNormalizedObject(_, _)
show(k, v) ==
  CASE k.kind = "Enum" -> Shown(TRUE, EnumName(k.names, v), v)
    [] k.kind = "Obj" -> getNormalizedObject(k.class, v)
    [] k.kind = "Many" /\ k.of.kind = "Obj" ->
         ShowAll([i \in DOMAIN v |->
                    IF k.of.class.id = Param.id THEN getParam(v[i])
                    ELSE getNormalizedObject(k.of.class, v[i])], v)
    [] k.kind = "Blob" \/ (k.kind = "Many" /\ k.of.kind # "Obj") -> Shown(v = <<>>, v, v)
    [] OTHER -> Shown(TRUE, v, v)

getNormalizedObject(class, packet) ==
  ShowAll([i \in DOMAIN packet |-> show(class.fields[i].kind, packet[i])], packet)

-----------------------------------------------------------------------------
\* Styx.cloneObject, which toJSON turns into text: an array of numbers of at
\* most 256 is taken for bytes and becomes a base 64 string.

isByteArray(k, v) ==
  \/ k.kind = "Blob"
  \/ /\ k.kind = "Many"
     /\ k.of.kind \in {"I32", "I16", "I8"}
     /\ \A i \in DOMAIN v : v[i] <= 256

RECURSIVE cloneField(_, _), cloneObject(_, _)
cloneField(k, v) ==
  CASE k.kind = "Obj" -> cloneObject(k.class, v)
    [] k.kind \in {"Blob", "Many"} /\ v = <<>> -> v
    [] k.kind \in {"Blob", "Many"} /\ isByteArray(k, v) -> toBase64String(v)
    [] k.kind = "Many" -> [i \in DOMAIN v |-> cloneField(k.of, v[i])]
    [] OTHER -> v

cloneObject(class, packet) ==
  [i \in DOMAIN packet |-> cloneField(class.fields[i].kind, packet[i])]

-----------------------------------------------------------------------------
\* The packets tried: a first value in every field, and every other choice of
\* values in `varied` fields of the packet, in one field of an object it holds.
\* A status is one that make<Enum> makes, a parameter one that writeParam makes.

\* The bytes of the strings, as comm.js sends them.
Blobs == {<<>>} \cup {toByteArray(str).buffer : str \in Strings}

Params ==
  {writeParam(key, value, TRUE) : key \in Strings, value \in Strings}
    \cup {writeParam(key, value, FALSE) : key \in Strings, value \in Ints}

RECURSIVE Values(_), Packets(_, _)
Values(k) ==
  CASE k.kind \in {"I32", "I64"} -> Ints
    [] k.kind = "I16" -> Shorts
    [] k.kind = "I8" -> Octets
    [] k.kind = "Flag" -> BOOLEAN
    [] k.kind = "Enum" -> -1 .. Len(k.names) - 1
    [] k.kind = "Text" -> Strings
    [] k.kind = "Blob" -> Blobs
    [] k.kind = "Obj" -> Packets(k.class, 1)
    [] k.kind = "Many" -> {<<>>} \cup {<<v>> : v \in Values(k.of)}

Packets(c, varied) ==
  LET places == DOMAIN c.fields
      values == [i \in places |-> Values(c.fields[i].kind)]
      first == [i \in places |-> CHOOSE v \in values[i] : TRUE]
      others == IF varied = 1 THEN {{i} : i \in places} ELSE {{i, j} : i, j \in places}
  IN IF c.id = Param.id THEN Params
     ELSE {first} \cup
          UNION {{[first EXCEPT ![Min(o)] = a, ![Max(o)] = b] :
                  a \in values[Min(o)], b \in values[Max(o)]} : o \in others}

-----------------------------------------------------------------------------
VARIABLES
  class,    \* the place in Classes of the packet's class
  packet,   \* the packet
  stage,    \* what has been done with it
  saved,    \* what save returned, when stage is "saved" or "loaded"
  loaded,   \* the reader and packet create returned, when stage is "loaded"
  json,     \* the clone sent as JSON, when stage is "sent"
  shown     \* what getNormalizedObject returned, when stage is "shown"

vars == <<class, packet, stage, saved, loaded, json, shown>>

Init ==
  /\ class \in DOMAIN Classes
  /\ packet \in Packets(Classes[class], 2)
  /\ stage = "new"
  /\ saved = <<>> /\ loaded = <<>> /\ json = <<>> /\ shown = <<>>

\* packet.save()
Save ==
  /\ stage = "new"
  /\ saved' = save(Classes[class], packet)
  /\ stage' = "saved"
  /\ UNCHANGED <<class, packet, loaded, json, shown>>

\* ProtocolObjectFactory.create(classId, bytes)
Load ==
  /\ stage = "saved" /\ saved.ok
  /\ loaded' = create(Classes[class].id, Reader(saved.buffer))
  /\ stage' = "loaded"
  /\ UNCHANGED <<class, packet, saved, json, shown>>

\* Connector.sendProtocolObject(packet): Styx.toJSON
SendJSON ==
  /\ stage = "new"
  /\ json' = cloneObject(Classes[class], packet)
  /\ stage' = "sent"
  /\ UNCHANGED <<class, packet, saved, loaded, shown>>

\* packet.getNormalizedObject()
Show ==
  /\ stage = "new"
  /\ LET result == getNormalizedObject(Classes[class], packet)
     IN shown' = [of |-> packet, result |-> result] /\ packet' = result.left
  /\ stage' = "shown"
  /\ UNCHANGED <<class, saved, loaded, json>>

Next == Save \/ Load \/ SendJSON \/ Show

Spec == Init /\ [][Next]_vars

-----------------------------------------------------------------------------
\* What the binary form cannot carry: a byte array or a long, in the packet or
\* in an object it holds.
RECURSIVE Unreadable(_, _)
Unreadable(k, v) ==
  CASE k.kind \in {"Blob", "I64"} -> TRUE
    [] k.kind = "Obj" ->
         \E i \in DOMAIN v : Unreadable(k.class.fields[i].kind, v[i])
    [] k.kind = "Many" -> \E i \in DOMAIN v : Unreadable(k.of, v[i])
    [] OTHER -> FALSE

(***************************************************************************)
(* What save writes, create reads as the same packet, to the last byte and *)
(* at every boundary of the integers, strings between the numbers and      *)
(* statuses the client does not know included; a packet with a byte array  *)
(* or a long in it is never read as another packet, the call throws.       *)
(***************************************************************************)
RoundTrip ==
  stage = "loaded" =>
    IF Unreadable(Obj(Classes[class]), packet) THEN ~loaded.r.ok
    ELSE /\ loaded.r.ok
         /\ loaded.v = packet
         /\ remaining(loaded.r) = 0

(***************************************************************************)
(* The text of a game or service message, which sendMove and join put into *)
(* a packet as bytes, comes out of base 64 and utf8 as it went in, whatever *)
(* its length and its characters (Styx.cloneObject, _gameCB). The value of *)
(* a parameter is left out: the sign writeInt leaves on the top byte of a  *)
(* negative number is lost in base 64.                                     *)
(***************************************************************************)
TextSurvives ==
  stage = "sent" =>
    \A i \in DOMAIN packet :
      /\ Classes[class].fields[i].kind = Blob /\ packet[i] # <<>>
      /\ Classes[class].id # Param.id
      =>
        /\ fromBase64String(json[i]) = packet[i]
        /\ fromByteArray(fromBase64String(json[i])) = fromByteArray(packet[i])

(***************************************************************************)
(* A parameter is described by the name and the value Styx.writeParam was  *)
(* given for it, whether the value was a string or a number.               *)
(***************************************************************************)
ParamsShown ==
  stage = "shown" /\ shown.result.ok =>
    \A i \in DOMAIN packet :
      Classes[class].fields[i].kind = Many(Obj(Param)) =>
        \A p \in DOMAIN packet[i] :
          LET given == shown.of[i][p]
              described == shown.result.v[i][p]
          IN writeParam(described[1], described[2], given[2] = 0) = given
=============================================================================
