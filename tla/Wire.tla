-------------------------------- MODULE Wire --------------------------------
(***************************************************************************)
(* The wire protocol (proto/wire.go, proto/lz4.go) and the commands of the *)
(* Raft log (broker/internal/cluster/command.go): what the encoder of each *)
(* message writes, what its decoder reads, and the frames on a connection. *)
(*                                                                         *)
(* Most messages are a sequence of fields.  For those the encoder and the  *)
(* decoder are each given as a layout, translated from the two functions   *)
(* of the source separately.  Strings and byte slices are sequences of     *)
(* bytes.  A behaviour is one message whose bytes arrive one at a time.    *)
(***************************************************************************)
EXTENDS Integers, SequencesExt

CONSTANTS
    Patterns,       \* of {"plain", "edge", "empty"}: the values tried
    MaxFrame        \* maxFrameBytes

VARIABLES
    name, pattern, codec, compressible,  \* the message
    sent,           \* its frame
    arrived,        \* how many of the frame's bytes have arrived
    read,           \* what the reader of frames makes of those
    decoded         \* what the message's decoder makes of the body's bytes

vars == <<name, pattern, codec, compressible, sent, arrived, read, decoded>>

-----------------------------------------------------------------------------
(***************************************************************************)
(* Big-endian integers of w bytes, w at most 8, in two's complement.       *)
(* Values stay within 32 bits, so the upper bytes of 8 are the sign.       *)
(***************************************************************************)
AppendUint(v, w) ==
    [i \in 1 .. w |-> IF w - i < 4 THEN (v \div 256 ^ (w - i)) % 256
                      ELSE IF v < 0 THEN 255 ELSE 0]

Int32(b) == (IF b[1] > 127 THEN b[1] - 256 ELSE b[1]) * 16777216
                + b[2] * 65536 + b[3] * 256 + b[4]

Uint(b) == Int32(SubSeq(b, Len(b) - 3, Len(b)))

(***************************************************************************)
(* A decoder's answer: ok, the value and the bytes after it.               *)
(***************************************************************************)
Short == [ok |-> FALSE, v |-> <<>>, rest |-> <<>>]
Got(v, rest) == [ok |-> TRUE, v |-> v, rest |-> rest]
Skip(b, n) == SubSeq(b, n + 1, Len(b))

(***************************************************************************)
(* nil, which is no sequence of bytes.                                     *)
(***************************************************************************)
Nil == <<256>>

encodeString(s) == AppendUint(Len(s), 4) \o s

decodeString(b) ==
    IF Len(b) < 4 THEN Short
    ELSE LET n == Uint(SubSeq(b, 1, 4)) IN
         IF n < 0 \/ Len(b) - 4 < n THEN Short
         ELSE Got(SubSeq(b, 5, 4 + n), Skip(b, 4 + n))

encodeBytes(s) == IF s = Nil THEN AppendUint(0, 4) ELSE encodeString(s)

decodeBytes(b) ==
    LET s == decodeString(b) IN IF s.ok /\ s.v = <<>> THEN Got(Nil, s.rest) ELSE s

Fixed(b, w) == IF Len(b) < w THEN Short ELSE Got(Uint(SubSeq(b, 1, w)), Skip(b, w))

-----------------------------------------------------------------------------
(***************************************************************************)
(* Fields, and the encoding and decoding of a sequence of them.            *)
(***************************************************************************)
U8 == [f |-> "u8"]
Bool == [f |-> "bool"]
I32 == [f |-> "i32"]
I64 == [f |-> "i64"]
Str == [f |-> "str"]
Bytes == [f |-> "bytes"]
List(fields) == [f |-> "list", of |-> fields]
Framed(fields) == [f |-> "framed", of |-> fields]
Times(fields, n) == [i \in 1 .. n |-> [f |-> "group", of |-> fields]]

(***************************************************************************)
(* encodeRecord and decodeRecord.                                          *)
(***************************************************************************)
encodeRecord == <<I64, I64, Bytes, Bytes, List(<<Str, Bytes>>)>>
decodeRecord == <<I64, I64, Bytes, Bytes, List(<<Str, Bytes>>)>>

(***************************************************************************)
(* Stands for CRC32C.                                                      *)
(***************************************************************************)
Checksum(b) ==
    AppendUint((Len(b) * 7 + (IF b = <<>> THEN 0 ELSE 3 * b[1] + Last(b))) % 251, 4)

RECURSIVE Enc(_, _)
Enc(fields, vs) ==
    LET f == Head(fields)
        v == Head(vs)
        body == Enc(f.of, v)
        first ==
            CASE f.f \in {"u8", "bool"} -> <<v>>
              [] f.f = "i32" -> AppendUint(v, 4)
              [] f.f = "i64" -> AppendUint(v, 8)
              [] f.f = "str" -> encodeString(v)
              [] f.f = "bytes" -> encodeBytes(v)
              [] f.f = "group" -> body
              [] f.f = "list" -> AppendUint(Len(v), 4) \o Enc(Times(f.of, Len(v)), v)
              [] f.f = "framed" -> encodeString(body) \o Checksum(body)
    IN IF fields = <<>> THEN <<>> ELSE first \o Enc(Tail(fields), Tail(vs))

RECURSIVE Dec(_, _)
Dec(fields, b) ==
    LET f == Head(fields)
        n == Fixed(b, 4)
        body == decodeString(b)
        item == Dec(f.of, body.v)
        first ==
            CASE f.f = "u8" -> IF b = <<>> THEN Short ELSE Got(b[1], Tail(b))
              [] f.f = "bool" -> IF b = <<>> THEN Short
                                 ELSE Got(IF b[1] # 0 THEN 1 ELSE 0, Tail(b))
              [] f.f = "i32" -> Fixed(b, 4)
              [] f.f = "i64" -> Fixed(b, 8)
              [] f.f = "str" -> decodeString(b)
              [] f.f = "bytes" -> decodeBytes(b)
              [] f.f = "group" -> Dec(f.of, b)
              [] f.f = "list" ->
                    IF n.ok /\ n.v \in 0 .. Len(n.rest)
                    THEN Dec(Times(f.of, n.v), n.rest) ELSE Short
              [] f.f = "framed" ->
                    IF /\ body.ok
                       /\ Len(body.rest) >= 4
                       /\ SubSeq(body.rest, 1, 4) = Checksum(body.v)
                       /\ item.ok
                    THEN Got(item.v, Skip(body.rest, 4)) ELSE Short
        others == Dec(Tail(fields), first.rest)
    IN IF fields = <<>> THEN Got(<<>>, b)
       ELSE IF first.ok /\ others.ok THEN Got(<<first.v>> \o others.v, others.rest)
       ELSE Short

-----------------------------------------------------------------------------
(***************************************************************************)
(* Each message: the fields its Encode writes, those its Decode reads.     *)
(***************************************************************************)
Message(enc, dec) == [enc |-> enc, dec |-> dec]

HandshakeRequest == Message(<<U8, U8, Bytes>>, <<U8, U8, Bytes>>)
ProduceRequest ==
    Message(<<Str, I32>> \o encodeRecord,
            <<Str, I32>> \o decodeRecord)
ProduceResponse == Message(<<I64>>, <<I64>>)
ProduceBatchResponse == Message(<<I64, I32>>, <<I64, I32>>)
FetchRequest ==
    Message(<<Str, I32, I64, I32, I32, U8>>,
            <<Str, I32, I64, I32, I32, U8>>)
MetadataRequest == Message(<<Str>>, <<Str>>)
MetadataResponse == Message(<<I32>>, <<I32>>)
HighWaterRequest == Message(<<Str, I32>>, <<Str, I32>>)
HighWaterResponse == Message(<<I64>>, <<I64>>)
ListSegmentsRequest == Message(<<Str, I32>>, <<Str, I32>>)
ListSegmentsResponse ==
    Message(<<List(<<I64, I64, I64>>)>>,
            <<List(<<I64, I64, I64>>)>>)
FetchSegmentChunkRequest ==
    Message(<<Str, I32, I64, U8, I64, I32>>,
            <<Str, I32, I64, U8, I64, I32>>)
FetchSegmentChunkResponse == Message(<<Bytes>>, <<Bytes>>)
ClusterMembersResponse ==
    Message(<<List(<<Str, Str>>)>>,
            <<List(<<Str, Str>>)>>)
AddVoterRequest == Message(<<Str, Str>>, <<Str, Str>>)
RemoveVoterRequest == Message(<<Str>>, <<Str>>)
CreateTopicRequest == Message(<<Str, I32, I64, I64>>, <<Str, I32, I64, I64>>)
ClusterStatusResponse ==
    Message(<<Str, Bool, Str, Str>>,
            <<Str, Bool, Str, Str>>)
ListGroupsResponse ==
    Message(<<List(<<Str, I32, I32, List(<<Str>>)>>)>>,
            <<List(<<Str, I32, I32, List(<<Str>>)>>)>>)
DescribeGroupRequest == Message(<<Str>>, <<Str>>)
DescribeGroupResponse ==
    Message(<<Str, I32, List(<<Str>>), List(<<Str, List(<<Str, I32>>)>>)>>,
            <<Str, I32, List(<<Str>>), List(<<Str, List(<<Str, I32>>)>>)>>)
ListTopicsResponse ==
    Message(<<List(<<Str, I32, I64, I64>>)>>,
            <<List(<<Str, I32, I64, I64>>)>>)
UpdateTopicConfigRequest == Message(<<Str, I64, I64>>, <<Str, I64, I64>>)
DeleteTopicRequest == Message(<<Str>>, <<Str>>)
CommitRequest == Message(<<Str, Str, I32, I64>>, <<Str, Str, I32, I64>>)
JoinGroupRequest ==
    Message(<<Str, Str, List(<<Str>>)>>,
            <<Str, Str, List(<<Str>>)>>)
JoinGroupResponse ==
    Message(<<Str, I32, List(<<Str, I32, I64>>)>>,
            <<Str, I32, List(<<Str, I32, I64>>)>>)
HeartbeatRequest == Message(<<Str, Str, I32, I32>>, <<Str, Str, I32, I32>>)
HeartbeatResponse == Message(<<Bool>>, <<Bool>>)
SyncRequest == Message(<<Str, I32>>, <<Str, I32>>)
DeleteGroupRequest == Message(<<Str>>, <<Str>>)
ListGroupOffsetsRequest == Message(<<Str>>, <<Str>>)
ListGroupOffsetsResponse ==
    Message(<<List(<<Str, I32, I64, I64>>)>>,
            <<List(<<Str, I32, I64, I64>>)>>)
LeaveGroupRequest == Message(<<Str, Str>>, <<Str, Str>>)
AppendCommand ==
    Message(<<U8, Str, I32, I64>> \o <<Str, I32>> \o encodeRecord,
            <<U8, Str, I32, I64>> \o <<Str, I32>> \o decodeRecord)
CreateTopicCommand ==
    Message(<<U8, Str, I32, I64, I64>>,
            <<U8, Str, I32, I64, I64>>)
UpdateTopicConfigCommand ==
    Message(<<U8, Str, I64, I64>>,
            <<U8, Str, I64, I64>>)
DeleteTopicCommand == Message(<<U8, Str>>, <<U8, Str>>)

Messages ==
    [HandshakeRequest |-> HandshakeRequest, ProduceRequest |-> ProduceRequest,
     ProduceResponse |-> ProduceResponse,
     ProduceBatchResponse |-> ProduceBatchResponse,
     FetchRequest |-> FetchRequest, MetadataRequest |-> MetadataRequest,
     MetadataResponse |-> MetadataResponse,
     HighWaterRequest |-> HighWaterRequest,
     HighWaterResponse |-> HighWaterResponse,
     ListSegmentsRequest |-> ListSegmentsRequest,
     ListSegmentsResponse |-> ListSegmentsResponse,
     FetchSegmentChunkRequest |-> FetchSegmentChunkRequest,
     FetchSegmentChunkResponse |-> FetchSegmentChunkResponse,
     ClusterMembersResponse |-> ClusterMembersResponse,
     AddVoterRequest |-> AddVoterRequest,
     RemoveVoterRequest |-> RemoveVoterRequest,
     CreateTopicRequest |-> CreateTopicRequest,
     ClusterStatusResponse |-> ClusterStatusResponse,
     ListGroupsResponse |-> ListGroupsResponse,
     DescribeGroupRequest |-> DescribeGroupRequest,
     DescribeGroupResponse |-> DescribeGroupResponse,
     ListTopicsResponse |-> ListTopicsResponse,
     UpdateTopicConfigRequest |-> UpdateTopicConfigRequest,
     DeleteTopicRequest |-> DeleteTopicRequest,
     CommitRequest |-> CommitRequest, JoinGroupRequest |-> JoinGroupRequest,
     JoinGroupResponse |-> JoinGroupResponse,
     HeartbeatRequest |-> HeartbeatRequest,
     HeartbeatResponse |-> HeartbeatResponse, SyncRequest |-> SyncRequest,
     DeleteGroupRequest |-> DeleteGroupRequest,
     ListGroupOffsetsRequest |-> ListGroupOffsetsRequest,
     ListGroupOffsetsResponse |-> ListGroupOffsetsResponse,
     LeaveGroupRequest |-> LeaveGroupRequest, AppendCommand |-> AppendCommand,
     CreateTopicCommand |-> CreateTopicCommand,
     UpdateTopicConfigCommand |-> UpdateTopicConfigCommand,
     DeleteTopicCommand |-> DeleteTopicCommand]

-----------------------------------------------------------------------------
(***************************************************************************)
(* Stands for the LZ4 block functions: a block the inverse of which needs  *)
(* all of it, and a refusal when the input does not compress.              *)
(***************************************************************************)
CodecNone == 0
CodecLZ4 == 1
Compresses(b) == b = <<>> \/ compressible
lz4CompressLevel(b) == Reverse(b)
lz4Decompress(b, n) ==
    IF n = 0 THEN Got(<<>>, <<>>)
    ELSE IF Len(b) = n THEN Got(Reverse(b), <<>>) ELSE Short

(***************************************************************************)
(* ProduceBatchRequest: topic, partition, codec, count, then the records,  *)
(* compressed together.  When they do not compress, the codec byte already *)
(* written, five bytes from the end, is overwritten.                       *)
(* Mutation: it is looked for one byte off.                                *)
(***************************************************************************)
CodecPosition(b) == Len(b) - 4
CodecPositionOff(b) == Len(b) - 3

BatchWith(position(_), v) ==
    LET head == Enc(<<Str, I32, U8, I32>>, <<v[1], v[2], codec, Len(v[3])>>)
        records == Enc(Times(encodeRecord, Len(v[3])), v[3])
    IN CASE codec = CodecLZ4 /\ Compresses(records) ->
                head \o AppendUint(Len(records), 4) \o lz4CompressLevel(records)
         [] codec = CodecLZ4 /\ ~Compresses(records) ->
                [head EXCEPT ![position(head)] = CodecNone] \o records
         [] codec = CodecNone -> head \o records

BatchCodecOff(v) == BatchWith(CodecPositionOff, v)
EncodeProduceBatchRequest(v) == BatchWith(CodecPosition, v)

DecodeProduceBatchRequest(b) ==
    LET head == Dec(<<Str, I32, U8, I32>>, b)
        n == Fixed(head.rest, 4)
        inflated == IF n.ok THEN lz4Decompress(n.rest, n.v) ELSE Short
        records ==
            CASE head.v[3] = CodecLZ4 ->
                    IF inflated.ok THEN Dec(Times(decodeRecord, head.v[4]), inflated.v)
                    ELSE Short
              [] head.v[3] = CodecNone ->
                    Dec(Times(decodeRecord, head.v[4]), head.rest)
              [] OTHER -> Short
    IN IF head.ok /\ records.ok
       THEN Got(<<head.v[1], head.v[2], records.v>>, records.rest)
       ELSE Short

(***************************************************************************)
(* FetchResponse: the codec, then the counted framed records, compressed   *)
(* as a whole.                                                             *)
(***************************************************************************)
EncodeFetchResponse(v) ==
    LET payload == Enc(<<List(<<Framed(encodeRecord)>>)>>, v) IN
    IF codec = CodecLZ4 /\ Compresses(payload)
    THEN <<CodecLZ4>> \o AppendUint(Len(payload), 4) \o lz4CompressLevel(payload)
    ELSE <<CodecNone>> \o payload

DecodeFetchResponse(b) ==
    LET n == Fixed(Skip(b, 1), 4)
        payload ==
            CASE b = <<>> -> Short
              [] b # <<>> /\ b[1] = CodecLZ4 ->
                    IF n.ok THEN lz4Decompress(n.rest, n.v) ELSE Short
              [] OTHER -> Got(Tail(b), <<>>)
    IN IF payload.ok THEN Dec(<<List(<<Framed(decodeRecord)>>)>>, payload.v) ELSE Short

(***************************************************************************)
(* A handshake of one byte is a version with no credential.                *)
(***************************************************************************)
DecodeHandshakeRequest(b) ==
    IF Len(b) = 1 THEN Got(<<b[1], 0, Nil>>, <<>>) ELSE Dec(HandshakeRequest.dec, b)

Names == DOMAIN Messages \cup {"ProduceBatchRequest", "FetchResponse"}

Encode(v) ==
    CASE name = "ProduceBatchRequest" -> EncodeProduceBatchRequest(v)
      [] name = "FetchResponse" -> EncodeFetchResponse(v)
      [] OTHER -> Enc(Messages[name].enc, v)

Decode(b) ==
    CASE name = "ProduceBatchRequest" -> DecodeProduceBatchRequest(b)
      [] name = "FetchResponse" -> DecodeFetchResponse(b)
      [] name = "HandshakeRequest" -> DecodeHandshakeRequest(b)
      [] OTHER -> Dec(Messages[name].dec, b)

-----------------------------------------------------------------------------
(***************************************************************************)
(* Frames: a length, the opcode, the payload; a response's payload begins  *)
(* with a status.  A reader waits for bytes that have not arrived.         *)
(***************************************************************************)
OpCode == 9
StatusOK == 0
Waiting == [status |-> "waiting", body |-> <<>>]
Failed == [status |-> "error", body |-> <<>>]
IsResponse == name \in {"ProduceResponse", "ProduceBatchResponse", "FetchResponse",
    "MetadataResponse", "HighWaterResponse", "ListSegmentsResponse",
    "FetchSegmentChunkResponse", "ClusterMembersResponse", "ClusterStatusResponse",
    "ListGroupsResponse", "DescribeGroupResponse", "ListTopicsResponse",
    "JoinGroupResponse", "HeartbeatResponse", "ListGroupOffsetsResponse"}

WriteFrame(payload) == AppendUint(1 + Len(payload), 4) \o <<OpCode>> \o payload

WriteResponse(status, body) == WriteFrame(<<status>> \o body)

ReadFrame(b) ==
    LET n == Uint(SubSeq(b, 1, 4)) IN
    IF Len(b) < 4 THEN Waiting
    ELSE IF n = 0 \/ n > MaxFrame THEN Failed
    ELSE IF Len(b) < 4 + n THEN Waiting
    ELSE [status |-> "ok", body |-> SubSeq(b, 6, 4 + n)]

ReadResponse(b) ==
    LET frame == ReadFrame(b) IN
    IF frame.status # "ok" THEN frame
    ELSE IF frame.body = <<>> \/ frame.body[1] # StatusOK THEN Failed
    ELSE [frame EXCEPT !.body = Tail(@)]

-----------------------------------------------------------------------------
(***************************************************************************)
(* The values tried: each field's own, so that no two fields can be        *)
(* exchanged unnoticed; and what a decoder makes of them, an empty slice   *)
(* coming back nil.                                                        *)
(***************************************************************************)
RECURSIVE Values(_, _)
Values(fields, p) ==
    LET Value(f, i) ==
            CASE f.f \in {"u8", "bool"} -> IF p = "plain" THEN 1 ELSE 0
              [] f.f \in {"i32", "i64"} ->
                    CASE p = "plain" -> i [] p = "edge" -> i - 2147483647 [] OTHER -> 0
              [] f.f \in {"str", "bytes"} ->
                    CASE p = "plain" -> <<i>> [] p = "edge" -> <<255, 0, i>>
                      [] OTHER -> IF f.f = "bytes" /\ i = 3 THEN Nil ELSE <<>>
              [] f.f = "list" ->
                    CASE p = "plain" -> <<Values(f.of, "plain")>>
                      [] p = "edge" -> <<Values(f.of, "edge"), Values(f.of, "empty")>>
                      [] OTHER -> <<>>
              [] f.f = "framed" -> Values(f.of, p)
    IN [i \in DOMAIN fields |-> Value(fields[i], i)]

RECURSIVE Normal(_, _)
Normal(fields, v) ==
    [i \in DOMAIN fields |->
        CASE fields[i].f = "bytes" -> IF v[i] = <<>> THEN Nil ELSE v[i]
          [] fields[i].f \in {"list"} ->
                [k \in DOMAIN v[i] |-> Normal(fields[i].of, v[i][k])]
          [] fields[i].f = "framed" -> Normal(fields[i].of, v[i])
          [] OTHER -> v[i]]

Fields ==
    CASE name = "ProduceBatchRequest" -> <<Str, I32, List(encodeRecord)>>
      [] name = "FetchResponse" -> <<List(<<Framed(encodeRecord)>>)>>
      [] OTHER -> Messages[name].enc

HeaderLength == IF IsResponse THEN 6 ELSE 5

Init ==
    /\ name \in Names
    /\ pattern \in Patterns
    /\ codec \in IF name \in {"ProduceBatchRequest", "FetchResponse"}
                 THEN {CodecNone, CodecLZ4} ELSE {CodecNone}
    /\ compressible \in IF codec = CodecLZ4 THEN BOOLEAN ELSE {FALSE}
    /\ sent = LET body == Encode(Values(Fields, pattern)) IN
              IF IsResponse THEN WriteResponse(StatusOK, body) ELSE WriteFrame(body)
    /\ arrived = 0
    /\ read = Waiting
    /\ decoded = Short

(***************************************************************************)
(* One more byte arrives; the connection may be cut after any of them.     *)
(***************************************************************************)
Arrive ==
    /\ arrived < Len(sent)
    /\ arrived' = arrived + 1
    /\ LET b == SubSeq(sent, 1, arrived + 1) IN
       read' = IF IsResponse THEN ReadResponse(b) ELSE ReadFrame(b)
    /\ decoded' = Decode(SubSeq(sent, HeaderLength + 1, arrived + 1))
    /\ UNCHANGED <<name, pattern, codec, compressible, sent>>

Next == Arrive

Spec == Init /\ [][Next]_vars

-----------------------------------------------------------------------------
(***************************************************************************)
(* A message arrives whole or not at all: from a connection cut anywhere   *)
(* inside its frame the reader gets nothing, and from all of it the        *)
(* decoder gets back the very value sent, whichever way the batch was      *)
(* encoded, compression falling back included (proto/wire.go ReadFrame,    *)
(* ReadResponse and every Encode and Decode).                              *)
(***************************************************************************)
WholeMessageOrNothing ==
    IF arrived < Len(sent) THEN read = Waiting
    ELSE /\ read = [status |-> "ok", body |-> Skip(sent, HeaderLength)]
         /\ decoded.ok
         /\ decoded.v = Normal(Fields, Values(Fields, pattern))

(***************************************************************************)
(* A complete frame whose body lacks its last bytes, as a peer of a        *)
(* version with fewer fields sends, is refused by every decoder; only the  *)
(* handshake, the message that tells versions apart, may stop after its    *)
(* version byte.                                                           *)
(***************************************************************************)
ShortBodyIsRefused ==
    arrived < Len(sent) /\ decoded.ok =>
        /\ name = "HandshakeRequest"
        /\ arrived = HeaderLength + 1
        /\ decoded.v[1] = sent[arrived]

(***************************************************************************)
(* Not kept: what WriteFrame sends ReadFrame accepts.  Only the reader     *)
(* looks at maxFrameBytes.                                                 *)
(***************************************************************************)
EveryFrameIsRead == read.status # "error"

=============================================================================
