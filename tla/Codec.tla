------------------------------- MODULE Codec --------------------------------
(***************************************************************************)
(* The binary form of the messages: the classes protobuf-ts generated from *)
(* sockrpc.proto (pb/sockrpc.ts, pb/google/protobuf/).                     *)
(*                                                                         *)
(* Every class is the same two loops unrolled over its list of fields, so  *)
(* a class is its list of fields here, and the loops are written once.  An *)
(* encoded message is the sequence of its fields, a field the number and   *)
(* type it was written with and its value; how a scalar becomes bytes is   *)
(* the business of @protobuf-ts/runtime.  A text is a string, whether it   *)
(* is of type string or bytes.                                             *)
(***************************************************************************)
EXTENDS Dates, FiniteSets, SequencesExt

CONSTANTS
  MaxSafe,    \* Number.MAX_SAFE_INTEGER, to scale
  Scalars,    \* bound: the values of each scalar type that peers write
  MaxFields,  \* bound: fields in an encoded message
  Undefined,  \* a property that is not there
  Throws,     \* what fromBinary returns when it throws
  Garbage     \* what it returns, or throws, for a field that is of another type

ScalarType == {"uint32", "int32", "uint64", "int64", "string", "bytes"}

ASSUME CodecAssumption ==
  MaxSafe \in Nat /\ MaxFields \in Nat /\ ScalarType = DOMAIN Scalars

-----------------------------------------------------------------------------
(* The lists of fields.  A field's number is its place.                     *)

Singular(type) == [label |-> "singular", type |-> type]
Optional(type) == [label |-> "optional", type |-> type]
Repeated(type) == [label |-> "repeated", type |-> type]
Oneof(type) == [label |-> "oneof", type |-> type]

ServerWelcome ==
  <<Singular("uint32"), Singular("string"), Optional("string"), Optional("string"),
    Repeated("int32")>>

ClientAuthRequest == <<Oneof("Empty"), Oneof("bytes"), Oneof("ClientAuthRequest_Pubkey")>>

ClientAuthRequest_Pubkey == <<Singular("string"), Singular("bytes")>>

ServerAuthResponse == <<Oneof("string"), Oneof("int32"), Oneof("bytes")>>

ClientPubkeyChallengeResponse == <<Singular("bytes")>>

ClientMessage ==
  <<Singular("uint64"), Oneof("ClientMessage_Call"), Oneof("ClientMessage_CallClientStream"),
    Oneof("bytes"), Oneof("Empty"), Oneof("Empty")>>

ClientMessage_Call == <<Singular("string"), Singular("bytes"), Optional("Timestamp")>>

ClientMessage_CallClientStream == <<Singular("string"), Optional("Timestamp")>>

ServerMessage ==
  <<Singular("uint64"), Oneof("ServerMessage_Error"), Oneof("bytes"), Oneof("bytes"),
    Oneof("Empty")>>

ServerMessage_Error == <<Singular("int32"), Optional("string"), Optional("uint32")>>

Timestamp == <<Singular("int64"), Singular("int32")>>

Empty == <<>>

Fields ==
  [ServerWelcome |-> ServerWelcome,
   ClientAuthRequest |-> ClientAuthRequest,
   ClientAuthRequest_Pubkey |-> ClientAuthRequest_Pubkey,
   ServerAuthResponse |-> ServerAuthResponse,
   ClientPubkeyChallengeResponse |-> ClientPubkeyChallengeResponse,
   ClientMessage |-> ClientMessage,
   ClientMessage_Call |-> ClientMessage_Call,
   ClientMessage_CallClientStream |-> ClientMessage_CallClientStream,
   ServerMessage |-> ServerMessage,
   ServerMessage_Error |-> ServerMessage_Error,
   Timestamp |-> Timestamp,
   Empty |-> Empty]

MessageType == DOMAIN Fields

-----------------------------------------------------------------------------
(* A message maps the numbers of its fields to their values, and 0 to the   *)
(* fields UnknownFieldHandler keeps for it.                                 *)

Default(type) == IF type \in {"string", "bytes"} THEN "" ELSE 0

\* create()
Create(type) ==
  [n \in 0..Len(Fields[type]) |->
     IF n = 0 THEN <<>>
     ELSE LET f == Fields[type][n]
          IN  CASE f.label = "singular" -> Default(f.type)
                [] f.label = "repeated" -> <<>>
                [] f.label \in {"optional", "oneof"} -> Undefined]

Encoded(n, type, value) == [no |-> n, type |-> type, value |-> value]

\* Mutant of Omitted: "if (message.version)", a member that is "" is left out.
OmittedFalsy(f, value) ==
  CASE f.label = "singular" -> value = Default(f.type)
    [] f.label = "repeated" -> value = <<>>
    [] f.label \in {"optional", "oneof"} ->
         value = Undefined \/ (f.type \in ScalarType /\ value = Default(f.type))

\* A field that is not written: a reader will find the same without it.
Omitted(f, value) ==
  CASE f.label = "singular" -> value = Default(f.type)
    [] f.label = "repeated" -> value = <<>>
    [] f.label \in {"optional", "oneof"} -> value = Undefined

\* internalBinaryWrite
RECURSIVE Write(_, _)
Write(type, message) ==
  LET Field(n) ==
        LET f == Fields[type][n]
            v == message[n]
        IN  IF Omitted(f, v) THEN <<>>
            ELSE <<Encoded(n, IF f.label = "repeated" THEN "packed" ELSE f.type,
                           IF f.type \in MessageType THEN Write(f.type, v) ELSE v)>>
  IN  FlattenSeq([n \in 1..Len(Fields[type]) |-> Field(n)]) \o message[0]

-----------------------------------------------------------------------------
Failed(message) == message \in {Throws, Garbage}

\* reader.uint64().toNumber() and the like
ReadScalar(type, value) ==
  IF type \in {"uint64", "int64"} /\ (value > MaxSafe \/ value < -MaxSafe)
    THEN Throws
    ELSE value

\* The value of field n; message.request = { oneofKind, ... } forgets the
\* other members.
Store(type, message, n, value) ==
  IF Failed(value) THEN value
  ELSE [k \in DOMAIN message |->
          IF k = n THEN value
          ELSE IF k > 0 /\ {Fields[type][k].label, Fields[type][n].label} = {"oneof"}
                 THEN Undefined
                 ELSE message[k]]

\* Mutant of Target: a message that comes in two parts loses the first.
TargetNew(type, value) == Create(type)

\* target ?? this.create(): the parts of a message that comes in several are
\* read into one.
Target(type, value) == IF value = Undefined THEN Create(type) ELSE value

\* One turn of the loop of internalBinaryRead.  The generated readers do not
\* compare the wire type with the field's, except that of a repeated field.
RECURSIVE ReadField(_, _, _)
ReadField(type, message, e) ==
  IF Failed(message) THEN message
  ELSE IF e.no \notin DOMAIN Fields[type] THEN [message EXCEPT ![0] = Append(@, e)]
  ELSE LET f == Fields[type][e.no]
           m == message[e.no]
       IN  CASE f.label = "repeated" /\ e.type = "packed" ->
                  Store(type, message, e.no, m \o e.value)
             [] f.label = "repeated" /\ e.type = f.type ->
                  Store(type, message, e.no, Append(m, e.value))
             [] f.label # "repeated" /\ e.type = f.type /\ f.type \in ScalarType ->
                  Store(type, message, e.no, ReadScalar(f.type, e.value))
             [] f.label # "repeated" /\ e.type = f.type /\ f.type \in MessageType ->
                  Store(type, message, e.no,
                        FoldLeft(LAMBDA t, p : ReadField(f.type, t, p), Target(f.type, m), e.value))
             [] OTHER -> Garbage

\* fromBinary
Read(type, fields) ==
  FoldLeft(LAMBDA t, p : ReadField(type, t, p), Create(type), fields)

-----------------------------------------------------------------------------
(* What a peer may write in a field of a message: a field the message has,  *)
(* a part of a nested message, a field of a later version of the message,   *)
(* or a number where the message has something else.                        *)

RECURSIVE Written(_)
Written(type) ==
  LET Values(f) ==
        IF f.type \in MessageType
          THEN {<<>>} \cup {<<p>> : p \in Written(f.type)}
          ELSE Scalars[f.type]
      Field(n) ==
        LET f == Fields[type][n]
        IN  IF f.label = "repeated"
              THEN {Encoded(n, f.type, v) : v \in Values(f)}
                     \cup {Encoded(n, "packed", <<v, w>>) : v, w \in Values(f)}
              ELSE {Encoded(n, f.type, v) : v \in Values(f)}
  IN  UNION {Field(n) : n \in DOMAIN Fields[type]}
        \cup {Encoded(Len(Fields[type]) + 1, "string", "later"), Encoded(1, "uint32", 1)}

VARIABLES
  type,     \* the message class whose fromBinary runs
  fields,   \* the fields it has read
  message   \* the message so far

vars == <<type, fields, message>>

Init ==
  /\ type \in MessageType
  /\ fields = <<>>
  /\ message = Create(type)

\* while (reader.pos < end)
ReadsField ==
  /\ Len(fields) < MaxFields /\ ~Failed(message)
  /\ \E e \in Written(type) :
       /\ fields' = Append(fields, e)
       /\ message' = ReadField(type, message, e)
  /\ UNCHANGED type

Spec == Init /\ [][ReadsField]_vars

-----------------------------------------------------------------------------
\* The fields are of the types the class says, and the numbers of theirs
\* that become JavaScript numbers fit.
RECURSIVE Readable(_, _)
Readable(t, es) ==
  \A j \in DOMAIN es : es[j].no \in DOMAIN Fields[t] =>
    LET f == Fields[t][es[j].no]
    IN  /\ es[j].type \in {f.type} \cup IF f.label = "repeated" THEN {"packed"} ELSE {}
        /\ f.type \in {"uint64", "int64"} => es[j].value \in -MaxSafe..MaxSafe
        /\ f.type \in MessageType => Readable(f.type, es[j].value)

\* What the fields es mean: of a scalar the last value counts, of a repeated
\* field all values do, of a oneof the member written last, and what was
\* written of a nested message in several parts is one message.
RECURSIVE Meaning(_, _)
Meaning(t, es) ==
  LET f(n) == Fields[t][n]
      Known(e) == e.no \in DOMAIN Fields[t]
      Rival(n, e) == Known(e) /\ e.no # n /\ f(e.no).label = "oneof" /\ f(n).label = "oneof"
      Since(n) == Max({0} \cup {j \in DOMAIN es : Rival(n, es[j])}) + 1
      Parts(n) == SelectSeq(SubSeq(es, Since(n), Len(es)), LAMBDA e : e.no = n)
      Values(n) == [j \in DOMAIN Parts(n) |->
                      IF Parts(n)[j].type \in {"packed"} \cup MessageType
                        THEN Parts(n)[j].value
                        ELSE <<Parts(n)[j].value>>]
      Value(n) ==
        CASE f(n).label = "repeated" -> FlattenSeq(Values(n))
          [] f(n).label # "repeated" /\ Parts(n) = <<>> -> Create(t)[n]
          [] f(n).label # "repeated" /\ Parts(n) # <<>> ->
               IF f(n).type \in MessageType
                 THEN Meaning(f(n).type, FlattenSeq(Values(n)))
                 ELSE Last(Parts(n)).value
  IN  [n \in 0..Len(Fields[t]) |->
         IF n = 0 THEN SelectSeq(es, LAMBDA e : ~Known(e)) ELSE Value(n)]

(***************************************************************************)
(* Whatever fields come in whatever order, the reader makes of them what   *)
(* they mean; it fails on the fields that it cannot represent and on no    *)
(* others (pb/sockrpc.ts:681-729 and the like).                            *)
(***************************************************************************)
ReadsTheMeaning ==
  IF Readable(type, fields) THEN message = Meaning(type, fields) ELSE Failed(message)

(***************************************************************************)
(* What one end writes the other reads: an optional field or a member of a *)
(* oneof that is "" or 0 is there, one that is left out is not, and fields *)
(* of later versions survive (server.ts:502, client.ts:456, 473).          *)
(***************************************************************************)
RoundTrip == ~Failed(message) => Read(type, Write(type, message)) = message

(***************************************************************************)
(* A time in whole milliseconds, before 1970 too, is the same time after a *)
(* Date was made of it and a Timestamp of that (timestamp.ts:186-198, the  *)
(* deadline of server.ts:262).                                             *)
(***************************************************************************)
DateRoundTrip ==
  type = "Timestamp" /\ ~Failed(message) /\ message[2] % 1000000 = 0 =>
    FromDate(ToDate(message)) = <<message[1], message[2]>>
=============================================================================
