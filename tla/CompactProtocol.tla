-------------------------- MODULE CompactProtocol --------------------------
(***************************************************************************)
(* TCompactProtocolT<TMemoryBuffer> (protocol/TCompactProtocol.tcc): a     *)
(* program writes messages with one protocol object and reads them back    *)
(* with another, both over one TMemoryBuffer.  A step is one call on one   *)
(* of the objects; the program may write a message while it still reads    *)
(* the one before.                                                         *)
(*                                                                         *)
(* toWrite and toRead are what the grammar of Thrift's messages asks for   *)
(* next: a value of a type, or "fields", the next field of a struct or its *)
(* end.  The writer chooses, the reader follows what it finds in the       *)
(* bytes, as TProtocol::skip() and generated code do.  The widths of the   *)
(* integers are constants.  Doubles and UUIDs are given as their bytes.    *)
(***************************************************************************)
EXTENDS SequencesExt, CompactInts, MemoryBuffer

CONSTANTS
    Headers,            \* the messages' <<name, type, seqid>> in use
    Fields,             \* the <<type, id>> of the fields in use
    Values,             \* the values in use, by type
    Lists, Maps,        \* the <<type, size>> and <<key, value, size>> in use
    string_limit_, container_limit_,
    MaxMessages, MaxFields  \* bounds: messages, and fields over all of them

ASSUME LimitAssumption == string_limit_ \in Nat /\ container_limit_ \in Nat

VARIABLES
    mem,                \* the TMemoryBuffer
    lastFieldId_, lastField_,   \* of the object of the "writer" and the "reader"
    booleanField_,      \* the writer's field whose header waits for its value
    boolValue_,         \* the reader's value that came with a header
    toWrite, toRead,
    wState, rState,     \* "idle", "busy", or the exception that ended it
    complete,           \* the calls that were made for complete messages
    fields,             \* fields written so far
    messages,           \* messages begun so far
    written, results    \* the calls of both with their values

writerVars == <<booleanField_, toWrite, wState, complete, fields, messages, written>>
readerVars == <<boolValue_, toRead, rState, results>>
stackVars == <<lastFieldId_, lastField_>>
vars == <<mem, stackVars, writerVars, readerVars>>

None == <<>>

(* detail::compact::TTypeToCType; a bool value has a number of its own.    *)
TTypeToCType ==
    [stop |-> 0, bool |-> 1, byte |-> 3, i16 |-> 4, i32 |-> 5, i64 |-> 6, double |-> 7,
     string |-> 8, list |-> 9, set |-> 10, map |-> 11, struct |-> 12, uuid |-> 13]

CT_BOOLEAN_FALSE == 2

BoolType(value) == IF value THEN TTypeToCType["bool"] ELSE CT_BOOLEAN_FALSE

getCompactType(type) == TTypeToCType[type]

getTType(c) == IF c = CT_BOOLEAN_FALSE THEN "bool"
               ELSE CHOOSE t \in DOMAIN TTypeToCType : TTypeToCType[t] = c

getMinSerializedSize(type) ==
    CASE type = "double" -> 8 [] type = "uuid" -> 16 [] OTHER -> 1

Init ==
    /\ mem = NewBuffer
    /\ lastFieldId_ = [p \in {"writer", "reader"} |-> 0]
    /\ lastField_ = [p \in {"writer", "reader"} |-> <<>>]
    /\ booleanField_ = None /\ boolValue_ = None
    /\ toWrite = <<>> /\ toRead = <<>>
    /\ wState = "idle" /\ rState = "idle"
    /\ complete = 0 /\ fields = 0 /\ messages = 0
    /\ written = <<>> /\ results = <<>>

(* writeStructBegin and readStructBegin, and the ends.                     *)
StructBegins(p) ==
    /\ lastField_' = [lastField_ EXCEPT ![p] = Append(@, lastFieldId_[p])]
    /\ lastFieldId_' = [lastFieldId_ EXCEPT ![p] = 0]

StructEnds(p) ==
    /\ lastFieldId_' = [lastFieldId_ EXCEPT ![p] = Last(lastField_[p])]
    /\ lastField_' = [lastField_ EXCEPT ![p] = Front(@)]

-----------------------------------------------------------------------------
(* Writing.                                                                *)

(* The writes that a value takes.                                          *)
ValueBytes(type, v) ==
    CASE type = "byte" -> <<<<Unsigned(v, 8)>>>>
      [] type \in {"i16", "i32"} -> <<writeI16(v)>>
      [] type = "i64" -> <<writeI64(v)>>
      [] type = "string" -> <<writeVarint32(Len(v)), v>>
      [] type \in {"double", "uuid"} -> <<v>>

(* Mutated writeFieldBeginInternal: a delta of 16 does not fit four bits.  *)
writeFieldBeginInternalWide(cType, id) ==
    IF id > lastFieldId_["writer"] /\ id - lastFieldId_["writer"] <= 16
    THEN <<<<Packed(id - lastFieldId_["writer"], cType) % 256>>>>
    ELSE <<<<cType>>, writeI16(id)>>

(* The header of a field: one byte if the id is a little above the last.   *)
writeFieldBeginInternal(cType, id) ==
    LET last == lastFieldId_["writer"]
    IN  IF UsesDelta(last, id) THEN <<<<Packed(DeltaOf(last, id), cType)>>>>
        ELSE <<<<cType>>, writeI16(id)>>

writeCollectionBegin(type, size) ==
    IF size <= 14 THEN <<<<Packed(size, getCompactType(type))>>>>
    ELSE <<<<Packed(15, getCompactType(type))>>, writeVarint32(size)>>

MapHeader(key, value, size) ==
    IF size = 0 THEN <<<<0>>>>
    ELSE <<writeVarint32(size), <<Packed(getCompactType(key), getCompactType(value))>>>>

(* trans_->write of one piece after another; one that does not fit throws. *)
Emitted(pieces) ==
    FoldLeft(LAMBDA r, piece : IF r.error = "none" THEN write(r.mem, piece) ELSE r,
             Done(mem), pieces)

(* A call of the writer: it writes pieces, and next is to be written then. *)
Emits(call, pieces, next) ==
    /\ \E r \in {Emitted(pieces)} :
          /\ mem' = r.mem
          /\ wState' = IF r.error = "none" THEN "busy" ELSE r.error
    /\ written' = Append(written, call)
    /\ toWrite' = next

Times(n, types) == FlattenSeq([i \in 1..n |-> types])

PROTOCOL_ID == 130
VERSION_N == 1

writeMessageBegin ==
    /\ wState = "idle" /\ messages < MaxMessages
    /\ \E header \in Headers :
          LET name == header[1] type == header[2] seqid == header[3]
          IN  Emits(<<"message", name, type, seqid>>,
                    <<<<PROTOCOL_ID>>, <<VERSION_N + 32 * type>>, writeVarint32(seqid),
                      writeVarint32(Len(name)), name>>,
                    <<"struct">>)
    /\ messages' = messages + 1
    /\ UNCHANGED <<stackVars, booleanField_, complete, fields, readerVars>>

writeStructBegin ==
    /\ wState = "busy" /\ toWrite # <<>> /\ Head(toWrite) = "struct"
    /\ Emits(<<"struct">>, <<>>, <<"fields">> \o Tail(toWrite))
    /\ StructBegins("writer")
    /\ UNCHANGED <<booleanField_, complete, fields, messages, readerVars>>

(* The header of a bool waits for the value.                               *)
writeFieldBegin ==
    /\ wState = "busy" /\ toWrite # <<>> /\ Head(toWrite) = "fields" /\ fields < MaxFields
    /\ \E field \in Fields :
          LET type == field[1] id == field[2] bool == type = "bool"
          IN  /\ Emits(<<"field", type, id>>,
                       IF bool THEN <<>> ELSE writeFieldBeginInternal(getCompactType(type), id),
                       <<type>> \o toWrite)
              /\ booleanField_' = IF bool THEN <<id>> ELSE booleanField_
              /\ lastFieldId_' = IF bool \/ wState' # "busy" THEN lastFieldId_
                                 ELSE [lastFieldId_ EXCEPT !["writer"] = id]
    /\ fields' = fields + 1
    /\ UNCHANGED <<lastField_, complete, messages, readerVars>>

(* writeFieldStop() and writeStructEnd().                                  *)
writeFieldStop ==
    /\ wState = "busy" /\ toWrite # <<>> /\ Head(toWrite) = "fields"
    /\ Emits(<<"field", "stop", 0>>, <<<<0>>>>, Tail(toWrite))
    /\ IF wState' = "busy" THEN StructEnds("writer") ELSE UNCHANGED stackVars
    /\ UNCHANGED <<booleanField_, complete, fields, messages, readerVars>>

(* Mutated writeBool: the header that waited is not taken off.             *)
writeBoolKept ==
    /\ wState = "busy" /\ toWrite # <<>> /\ Head(toWrite) = "bool"
    /\ \E value \in BOOLEAN :
          IF booleanField_ # None
          THEN /\ Emits(<<"bool", value>>,
                        writeFieldBeginInternal(BoolType(value), booleanField_[1]), Tail(toWrite))
               /\ lastFieldId_' = [lastFieldId_ EXCEPT !["writer"] = booleanField_[1]]
          ELSE /\ Emits(<<"bool", value>>, <<<<BoolType(value)>>>>, Tail(toWrite))
               /\ UNCHANGED lastFieldId_
    /\ UNCHANGED <<booleanField_, lastField_, complete, fields, messages, readerVars>>

(* A bool is part of the header of its field, or a byte of its own.        *)
writeBool ==
    /\ wState = "busy" /\ toWrite # <<>> /\ Head(toWrite) = "bool"
    /\ \E value \in BOOLEAN :
          IF booleanField_ # None
          THEN /\ Emits(<<"bool", value>>,
                        writeFieldBeginInternal(BoolType(value), booleanField_[1]), Tail(toWrite))
               /\ IF wState' = "busy"
                  THEN /\ lastFieldId_' = [lastFieldId_ EXCEPT !["writer"] = booleanField_[1]]
                       /\ booleanField_' = None
                  ELSE UNCHANGED <<lastFieldId_, booleanField_>>
          ELSE /\ Emits(<<"bool", value>>, <<<<BoolType(value)>>>>, Tail(toWrite))
               /\ UNCHANGED <<lastFieldId_, booleanField_>>
    /\ UNCHANGED <<lastField_, complete, fields, messages, readerVars>>

(* writeByte, writeI16, writeI32, writeI64, writeDouble, writeString and   *)
(* writeUUID.                                                              *)
writeValue ==
    /\ wState = "busy" /\ toWrite # <<>> /\ Head(toWrite) \in DOMAIN Values
    /\ \E v \in Values[Head(toWrite)] :
          Emits(<<Head(toWrite), v>>, ValueBytes(Head(toWrite), v), Tail(toWrite))
    /\ UNCHANGED <<stackVars, booleanField_, complete, fields, messages, readerVars>>

(* writeListBegin and writeSetBegin.                                       *)
writeListBegin ==
    /\ wState = "busy" /\ toWrite # <<>> /\ Head(toWrite) \in {"list", "set"}
    /\ \E list \in Lists :
          Emits(<<Head(toWrite), list[1], list[2]>>, writeCollectionBegin(list[1], list[2]),
                Times(list[2], <<list[1]>>) \o Tail(toWrite))
    /\ UNCHANGED <<stackVars, booleanField_, complete, fields, messages, readerVars>>

writeMapBegin ==
    /\ wState = "busy" /\ toWrite # <<>> /\ Head(toWrite) = "map"
    /\ \E map \in Maps :
          Emits(<<"map", map[1], map[2], map[3]>>, MapHeader(map[1], map[2], map[3]),
                Times(map[3], <<map[1], map[2]>>) \o Tail(toWrite))
    /\ UNCHANGED <<stackVars, booleanField_, complete, fields, messages, readerVars>>

(* writeMessageEnd(), which writes nothing, and flush().                   *)
writeMessageEnd ==
    /\ wState = "busy" /\ toWrite = <<>>
    /\ wState' = "idle" /\ complete' = Len(written)
    /\ UNCHANGED <<mem, stackVars, booleanField_, toWrite, fields, messages, written, readerVars>>

-----------------------------------------------------------------------------
(* Reading: operators on the buffer, with the value they find.  The value  *)
(* of a read that failed is of no use to anyone.                           *)

Then(r, Op(_)) == IF r.error = "none" THEN Op(r.mem) ELSE r

As(r, Op(_)) == [r EXCEPT !.v = Op(@)]

readByte(m) == As(readAll(m, 1), LAMBDA bytes : IF bytes = <<>> THEN 0 ELSE Head(bytes))

(* Fast, on borrowed bytes, if a varint of any length would fit; byte by   *)
(* byte at the end of the buffer.                                          *)
readVarint64(m) ==
    LET b == borrow(m, MaxVarint)
        n == VarintLength(b.v)
        r == IF n = 0 THEN Failed(IF b.got THEN "invalid" ELSE "eof", b.mem)
             ELSE IF b.got THEN consume(b.mem, n)
             ELSE readAll(b.mem, n)
    IN  [r EXCEPT !.v = VarintValue(SubSeq(b.v, 1, n))]

readVarint32(m) == As(readVarint64(m), LAMBDA v : Signed(v, I32Bits))

readI32(m) == As(readVarint32(m), LAMBDA v : fromZigzag(Unsigned(v, I32Bits)))

readI16(m) == As(readI32(m), LAMBDA v : Signed(v, I16Bits))

readI64(m) == As(readVarint64(m), LAMBDA v : fromZigzag(v))

readScalar(type, m) ==
    CASE type = "byte" -> As(readByte(m), LAMBDA v : Signed(v, 8))
      [] type = "i16" -> readI16(m)
      [] type = "i32" -> readI32(m)
      [] type = "i64" -> readI64(m)
      [] type = "double" -> readAll(m, 8)
      [] type = "uuid" -> readAll(m, 16)

(* The checks of a size that was read: its sign, the limit, and whether    *)
(* that many elements of least bytes fit what is left of the message.      *)
SizeChecked(r, size, limit, least) ==
    CASE r.error # "none" -> r
      [] size < 0 -> Failed("negative", r.mem)
      [] limit # 0 /\ size > limit -> Failed("limit", r.mem)
      [] ~checkReadBytesAvailable(r.mem.budget, size * least) -> Failed("budget", r.mem)
      [] OTHER -> [r EXCEPT !.v = size]

(* readBinary() once it has the size.                                      *)
readBinary(size) ==
    IF size.error = "none" /\ size.v = 0 THEN [size EXCEPT !.v = <<>>]
    ELSE Then(SizeChecked(size, size.v, string_limit_, 1), LAMBDA m : readAll(m, size.v))

-----------------------------------------------------------------------------
(* The calls of the reader.                                                *)

(* A call found its results, or threw; next is to be read then.            *)
Takes(r, call, next) ==
    /\ mem' = r.mem
    /\ rState' = IF r.error = "none" THEN "busy" ELSE r.error
    /\ results' = IF r.error = "none" THEN Append(results, call) ELSE results
    /\ toRead' = IF r.error = "none" THEN next ELSE toRead

Due(types) == rState = "busy" /\ toRead # <<>> /\ Head(toRead) \in types

Unread == Len(results) < complete

(* A program that has a whole message binds the budget to the buffer, and  *)
(* gives up if that throws.                                                *)
Bind ==
    /\ rState = "idle" /\ Unread
    /\ LET r == bindMessageSizeToBuffer(mem)
       IN  /\ mem' = r.mem
           /\ rState' = IF r.error = "none" THEN rState ELSE r.error
    /\ UNCHANGED <<stackVars, writerVars, boolValue_, toRead, results>>

readMessageBegin ==
    /\ rState = "idle" /\ Unread
    /\ \E id \in {readByte(mem)} :
       \E type \in {IF id.error = "none" /\ id.v # PROTOCOL_ID
                    THEN Failed("version", id.mem) ELSE Then(id, readByte)} :
       \E seqid \in {IF type.error = "none" /\ type.v % 32 # VERSION_N
                     THEN Failed("version", type.mem) ELSE Then(type, readVarint32)} :
       \E size \in {Then(seqid, readVarint32)} :
       \E name \in {readBinary(size)} :
          Takes(name, <<"message", name.v, type.v \div 32, seqid.v>>, <<"struct">>)
    /\ UNCHANGED <<stackVars, writerVars, boolValue_>>

readStructBegin ==
    /\ Due({"struct"})
    /\ Takes(Done(mem), <<"struct">>, <<"fields">> \o Tail(toRead))
    /\ StructBegins("reader")
    /\ UNCHANGED <<writerVars, boolValue_>>

(* readFieldBegin(), and readStructEnd() behind the last field.            *)
readFieldBegin ==
    /\ Due({"fields"})
    /\ \E byte \in {readByte(mem)} :
       LET delta == HighHalf(byte.v)
           cType == LowHalf(byte.v)
           type == getTType(cType)
       IN  IF byte.error = "none" /\ cType = getCompactType("stop")
           THEN /\ Takes(byte, <<"field", "stop", 0>>, Tail(toRead))
                /\ StructEnds("reader")
                /\ UNCHANGED boolValue_
           ELSE \E following \in {IF delta = 0 THEN Then(byte, readI16) ELSE byte} :
                LET id == Signed(IdFrom(lastFieldId_["reader"], delta, following.v), I16Bits)
                IN  /\ Takes(following, <<"field", type, id>>, <<type>> \o toRead)
                    /\ boolValue_' = IF following.error = "none" /\ type = "bool"
                                     THEN <<cType # CT_BOOLEAN_FALSE>> ELSE boolValue_
                    /\ lastFieldId_' = IF following.error = "none"
                                       THEN [lastFieldId_ EXCEPT !["reader"] = id]
                                       ELSE lastFieldId_
                    /\ UNCHANGED lastField_
    /\ UNCHANGED writerVars

readBool ==
    /\ Due({"bool"})
    /\ IF boolValue_ # None
       THEN Takes(Done(mem), <<"bool", boolValue_[1]>>, Tail(toRead))
       ELSE \E byte \in {readByte(mem)} :
               Takes(byte, <<"bool", byte.v = getCompactType("bool")>>, Tail(toRead))
    /\ boolValue_' = None
    /\ UNCHANGED <<stackVars, writerVars>>

(* readByte, readI16, readI32, readI64, readDouble and readUUID.           *)
readValue ==
    /\ Due({"byte", "i16", "i32", "i64", "double", "uuid"})
    /\ \E r \in {readScalar(Head(toRead), mem)} :
          Takes(r, <<Head(toRead), r.v>>, Tail(toRead))
    /\ UNCHANGED <<stackVars, writerVars, boolValue_>>

readString ==
    /\ Due({"string"})
    /\ \E size \in {readVarint32(mem)} :
       \E r \in {readBinary(size)} : Takes(r, <<"string", r.v>>, Tail(toRead))
    /\ UNCHANGED <<stackVars, writerVars, boolValue_>>

(* readListBegin and readSetBegin.                                         *)
readListBegin ==
    /\ Due({"list", "set"})
    /\ \E byte \in {readByte(mem)} :
       LET type == getTType(LowHalf(byte.v)) IN
       \E size \in {IF HighHalf(byte.v) = 15 THEN Then(byte, readVarint32)
                    ELSE [byte EXCEPT !.v = HighHalf(@)]} :
       \E r \in {SizeChecked(size, size.v, container_limit_, getMinSerializedSize(type))} :
          Takes(r, <<Head(toRead), type, r.v>>, Times(r.v, <<type>>) \o Tail(toRead))
    /\ UNCHANGED <<stackVars, writerVars, boolValue_>>

(* Of an empty map there are no types.                                     *)
readMapBegin ==
    /\ Due({"map"})
    /\ \E size \in {readVarint32(mem)} :
       \E types \in {IF size.v # 0 THEN Then(size, readByte) ELSE size} :
       LET key == getTType(HighHalf(types.v))
           value == getTType(LowHalf(types.v))
           least == getMinSerializedSize(key) + getMinSerializedSize(value)
       IN  \E r \in {SizeChecked(types, size.v, container_limit_, least)} :
              Takes(r, <<"map", key, value, r.v>>, Times(r.v, <<key, value>>) \o Tail(toRead))
    /\ UNCHANGED <<stackVars, writerVars, boolValue_>>

(* readMessageEnd(), which reads nothing, and the transport's readEnd().   *)
readMessageEnd ==
    /\ rState = "busy" /\ toRead = <<>>
    /\ rState' = "idle" /\ mem' = readEnd(mem)
    /\ UNCHANGED <<stackVars, writerVars, boolValue_, toRead, results>>

-----------------------------------------------------------------------------
Writer ==
    \/ writeMessageBegin \/ writeStructBegin \/ writeFieldBegin \/ writeFieldStop
    \/ writeBool \/ writeValue \/ writeListBegin \/ writeMapBegin \/ writeMessageEnd

Reader ==
    \/ readMessageBegin \/ readStructBegin \/ readFieldBegin \/ readBool \/ readValue
    \/ readString \/ readListBegin \/ readMapBegin \/ readMessageEnd

Next == Writer \/ Reader \/ Bind

Spec == Init /\ [][Next]_vars

-----------------------------------------------------------------------------
(* Properties.                                                             *)

(* What a reader can know of a call: the types of an empty map are gone.   *)
Known(call) == IF call[1] = "map" /\ call[4] = 0 THEN <<"map", "stop", "stop", 0>> ELSE call

(* Every call of the reader returns what the writer passed to the same     *)
(* call, through deltas, packed bytes, varints and nested structs, whether *)
(* it took the fast or the slow path, and also if the program writes on    *)
(* while it reads.                                                         *)
RoundTrip ==
    /\ Len(results) <= Len(written)
    /\ \A i \in 1..Len(results) : results[i] = Known(written[i])

(* A call of a limited size.                                               *)
OverLimit(call) ==
    \/ call[1] \in {"list", "set"} /\ container_limit_ \in 1..(call[3] - 1)
    \/ call[1] = "map" /\ container_limit_ \in 1..(call[4] - 1)
    \/ call[1] \in {"string", "message"} /\ string_limit_ \in 1..(Len(call[2]) - 1)

(* The reader refuses nothing that was written but what is over a limit:   *)
(* no budget, bound to the buffer or not, is too small for its message,    *)
(* unless there is more in the buffer than a message may have.             *)
OnlyLimitsRefuse ==
    rState \notin {"idle", "busy"} =>
        \/ rState = "limit" /\ OverLimit(written[Len(results) + 1])
        \/ rState = "budget" /\ wBase(mem) > MaxMessageSize

(* Behind a message nothing of it is left: the reader stands at its end,   *)
(* with the stack of field ids as before and no bool pending, so that the  *)
(* next message can be read with the same objects.                         *)
MessageLeavesNothing ==
    /\ rState = "idle" => /\ lastField_["reader"] = <<>> /\ lastFieldId_["reader"] = 0
                          /\ boolValue_ = None /\ toRead = <<>>
    /\ wState = "idle" => lastField_["writer"] = <<>> /\ booleanField_ = None
    /\ rState = "idle" /\ wState = "idle" /\ ~Unread => available_read(mem) = 0
=============================================================================
