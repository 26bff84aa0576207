------------------------------ MODULE Protocol ------------------------------
(***************************************************************************)
(* The payloads of the wire protocol (src/src/protocol/protocol.cpp).      *)
(*                                                                         *)
(* Every message has an encoder and a decoder in the source, written by    *)
(* hand and independently of each other.  Each of the two is translated    *)
(* here on its own, as the sequence of members it writes or reads, so that *)
(* their agreement (CodecAgrees) is a statement about two definitions and  *)
(* not about one.  A payload is a sequence of bytes.                       *)
(*                                                                         *)
(* A u64 is four 16-bit words, most significant first; a u32 is a number   *)
(* below 2^31, which the fields of this protocol never exceed here.        *)
(***************************************************************************)
EXTENDS Integers, Sequences, SequencesExt, FiniteSets

-----------------------------------------------------------------------------
(* Fields. *)

U16(name) == [name |-> name, type |-> "u16"]
U32(name) == [name |-> name, type |-> "u32"]
U64(name) == [name |-> name, type |-> "u64"]
Bool(name) == [name |-> name, type |-> "bool"]
Codec(name) == [name |-> name, type |-> "codec"]
Str(name) == [name |-> name, type |-> "string"]
Bytes(name) == [name |-> name, type |-> "string"]
List(name, fields) == [name |-> name, type |-> "list", of |-> fields]

kCompressedFetchMarker == 1112818504
kNoneMask == 1
kZstdMask == 2
kSupportedCodecMask == kNoneMask + kZstdMask

(* The bits of a codec mask that the broker knows. *)
Masks(mask, bit) == (mask \div bit) % 2 = 1

(* A codec is an 8-bit enumeration, cast from the 16 bits of the wire. *)
ToCodec(n) == n % 256
is_supported(codec) == codec \in {0, 1}

-----------------------------------------------------------------------------
(* Writing a payload. *)

write_u16(n) == <<(n \div 256) % 256, n % 256>>
write_u32(n) == write_u16(n \div 65536) \o write_u16(n % 65536)
write_u64(words) == FlattenSeq([i \in 1..4 |-> write_u16(words[i])])
write_bytes(b) == write_u32(Len(b)) \o b
write_bool(b) == write_u32(IF b THEN 1 ELSE 0)

RECURSIVE Write(_, _)
Write(fields, values) ==
  FlattenSeq([i \in DOMAIN fields |->
    LET v == values[fields[i].name] IN
    CASE fields[i].type \in {"u16", "codec"} -> write_u16(v)
      [] fields[i].type = "u32" -> write_u32(v)
      [] fields[i].type = "u64" -> write_u64(v)
      [] fields[i].type = "bool" -> write_bool(v)
      [] fields[i].type = "string" -> write_bytes(v)
      [] fields[i].type = "list" ->
           write_u32(Len(v)) \o
           FlattenSeq([j \in DOMAIN v |-> Write(fields[i].of, v[j])])])

-----------------------------------------------------------------------------
(* Reading one: a reader has failed or not, and if so at a list that cannot *)
(* fit in the payload or elsewhere; it holds the bytes it has not read, the *)
(* value read last and the members filled in so far.                        *)

PayloadReader(payload) ==
  [ok |-> TRUE, overlong |-> FALSE, rest |-> payload, last |-> 0, out |-> <<>>]

Failed(reader) == [reader EXCEPT !.ok = FALSE]
Overlong(reader) == [reader EXCEPT !.ok = FALSE, !.overlong = TRUE]
Took(reader, n, value) ==
  [reader EXCEPT !.rest = SubSeq(@, n + 1, Len(@)), !.last = value]

Word(b, i) == b[i] * 256 + b[i + 1]
Long(b) == Word(b, 1) * 65536 + Word(b, 3)

read_u16(reader) ==
  IF Len(reader.rest) < 2 THEN Failed(reader)
  ELSE Took(reader, 2, Word(reader.rest, 1))

read_u32(reader) ==
  IF Len(reader.rest) < 4 THEN Failed(reader)
  ELSE Took(reader, 4, Long(reader.rest))

read_u64(reader) ==
  IF Len(reader.rest) < 8 THEN Failed(reader)
  ELSE Took(reader, 8, [i \in 1..4 |-> Word(reader.rest, 2 * i - 1)])

read_bool(reader) ==
  IF Len(reader.rest) < 4 \/ Long(reader.rest) > 1 THEN Failed(reader)
  ELSE Took(reader, 4, Long(reader.rest) = 1)

read_bytes(reader) ==
  IF Len(reader.rest) < 4 \/ Len(reader.rest) - 4 < Long(reader.rest)
  THEN Failed(reader)
  ELSE Took(reader, 4 + Long(reader.rest),
            SubSeq(reader.rest, 5, 4 + Long(reader.rest)))

(* Every element of a list takes a byte or more, so a count above the bytes *)
(* left is a list whose loop would meet the end of the payload, unless the  *)
(* memory reserved for the count is refused before the loop begins.         *)
RECURSIVE Read(_, _)
Read(reader, fields) ==
  LET Listed(r, items) == [items EXCEPT !.last = items.out, !.out = r.out]
      ReadItem(acc, item) == [item EXCEPT !.out = Append(acc.out, item.out)]
      ReadItems(r, of, head) ==
        IF ~head.ok THEN Failed(r)
        ELSE IF head.last > Len(head.rest) THEN Overlong(r)
        ELSE Listed(r, FoldLeft(
               LAMBDA acc, i : ReadItem(acc, Read([acc EXCEPT !.out = <<>>], of)),
               [head EXCEPT !.out = <<>>], [i \in 1..head.last |-> i]))
      ReadValue(r, f) ==
        CASE f.type \in {"u16", "codec"} -> read_u16(r)
          [] f.type = "u32" -> read_u32(r)
          [] f.type = "u64" -> read_u64(r)
          [] f.type = "bool" -> read_bool(r)
          [] f.type = "string" -> read_bytes(r)
          [] f.type = "list" -> ReadItems(r, f.of, read_u32(r))
      Filled(r, f, read) ==
        IF ~r.ok THEN r
        ELSE IF ~read.ok THEN [r EXCEPT !.ok = FALSE, !.overlong = read.overlong]
        ELSE [read EXCEPT !.out =
                (f.name :> IF f.type = "codec" THEN ToCodec(read.last)
                           ELSE read.last) @@ r.out]
  IN FoldLeft(LAMBDA r, f : Filled(r, f, ReadValue(r, f)), reader, fields)

-----------------------------------------------------------------------------
(* A decoder: its fields, those that may not be empty (a string or a list)  *)
(* or zero, and the error it gives for one that is.                         *)

Plain(fields) ==
  [fields |-> fields, need |-> {}, empty |-> "MalformedPayload"]
Needs(fields, need) ==
  [fields |-> fields, need |-> need, empty |-> "MalformedPayload"]

(* What an overlong list ends in: the decoder's own error, or the exception *)
(* of reserve(count), as the allocator has it.                              *)
OverlongList == "MalformedPayload or bad_alloc"

ok_result(out) == [ok |-> TRUE, error |-> "none", out |-> out]
error_result(code) == [ok |-> FALSE, error |-> code, out |-> <<>>]

(* empty() of a string or a list, == 0 of a number. *)
Empty(f) ==
  CASE f.type \in {"u16", "u32", "codec"} -> 0
    [] f.type = "u64" -> <<0, 0, 0, 0>>
    [] f.type = "bool" -> FALSE
    [] f.type \in {"string", "list"} -> <<>>

(* All fields are read and the payload is used up; then the fields that may *)
(* not be empty are looked at, then the codec.                              *)
Decode(decoder, payload) ==
  LET fields == {decoder.fields[i] : i \in DOMAIN decoder.fields}
      Result(r) ==
        IF r.overlong THEN error_result(OverlongList)
        ELSE IF ~r.ok \/ r.rest # <<>> THEN error_result("MalformedPayload")
        ELSE IF \E f \in fields : f.name \in decoder.need /\ r.out[f.name] = Empty(f)
        THEN error_result(decoder.empty)
        ELSE IF \E f \in fields : f.type = "codec" /\ ~is_supported(r.out[f.name])
        THEN error_result("UnsupportedCodec")
        ELSE ok_result(r.out)
  IN Result(Read(PayloadReader(payload), decoder.fields))

validate_empty_payload(payload) ==
  IF payload = <<>> THEN ok_result(<<>>) ELSE error_result("MalformedPayload")

-----------------------------------------------------------------------------
(* The messages: what each encoder writes, what each decoder reads. *)

encode_error_response == <<U32("code"), Str("message")>>
decode_error_response == Plain(<<U32("code"), Str("message")>>)

encode_health_response == <<Str("status"), Str("detail")>>
decode_health_response == Plain(<<Str("status"), Str("detail")>>)

encode_auth_request == <<Str("token")>>
decode_auth_request == Needs(<<Str("token")>>, {"token"})

encode_auth_response == <<Str("status")>>
decode_auth_response == Plain(<<Str("status")>>)

encode_create_topic_request == <<Str("topic"), U16("partition_count")>>
decode_create_topic_request ==
  Needs(<<Str("topic"), U16("partition_count")>>,
          {"topic", "partition_count"})

encode_create_topic_response ==
  <<Str("topic"), U16("partition_count"), Str("status")>>
decode_create_topic_response ==
  Plain(<<Str("topic"), U16("partition_count"), Str("status")>>)

encode_produce_request == <<Str("topic"), Bytes("key"), Bytes("message")>>
decode_produce_request ==
  Needs(<<Str("topic"), Bytes("key"), Bytes("message")>>,
          {"topic", "message"})

encode_produce_response ==
  <<Str("topic"), U16("partition"), U64("offset"), U64("next_offset"),
    U32("encoded_byte_size")>>
decode_produce_response ==
  Plain(<<Str("topic"), U16("partition"), U64("offset"), U64("next_offset"),
            U32("encoded_byte_size")>>)

encode_produce_batch_request ==
  <<Str("topic"), U16("partition"), Codec("codec"), U32("record_count"),
    U32("uncompressed_bytes"), Bytes("encoded_records")>>
decode_produce_batch_request ==
  [Needs(<<Str("topic"), U16("partition"), Codec("codec"), U32("record_count"),
           U32("uncompressed_bytes"), Bytes("encoded_records")>>,
         {"topic", "record_count", "uncompressed_bytes", "encoded_records"})
     EXCEPT !.empty = "InvalidBatch"]

encode_produce_batch_response ==
  <<Str("topic"), U16("partition"), U64("base_offset"), U64("next_offset"),
    U32("record_count"), U32("logical_bytes"), U32("encoded_bytes"),
    U32("stored_bytes")>>
decode_produce_batch_response ==
  Plain(<<Str("topic"), U16("partition"), U64("base_offset"),
            U64("next_offset"), U32("record_count"), U32("logical_bytes"),
            U32("encoded_bytes"), U32("stored_bytes")>>)

encode_fetch_request ==
  <<Str("topic"), U16("partition"), Str("from"), Str("group"),
    U32("max_wait_ms")>>
decode_fetch_request ==
  Needs(<<Str("topic"), U16("partition"), Str("from"), Str("group"),
            U32("max_wait_ms")>>, {"topic", "from"})

encode_offset_commit_request ==
  <<Str("group"), Str("topic"), U16("partition"), U64("next_offset")>>
decode_offset_commit_request ==
  Needs(<<Str("group"), Str("topic"), U16("partition"), U64("next_offset")>>,
          {"group", "topic"})

encode_offset_commit_response ==
  <<Str("group"), Str("topic"), U16("partition"), U64("next_offset")>>
decode_offset_commit_response ==
  Plain(<<Str("group"), Str("topic"), U16("partition"), U64("next_offset")>>)

encode_join_group_request ==
  <<Str("group"), Str("topic"), Str("member_id"), U32("session_timeout_ms")>>
decode_join_group_request ==
  Needs(<<Str("group"), Str("topic"), Str("member_id"),
            U32("session_timeout_ms")>>,
          {"group", "topic", "session_timeout_ms"})

encode_join_group_response ==
  <<Str("group"), Str("topic"), Str("member_id"), U64("generation_id")>>
decode_join_group_response ==
  Plain(<<Str("group"), Str("topic"), Str("member_id"), U64("generation_id")>>)

encode_sync_group_request ==
  <<Str("group"), Str("topic"), Str("member_id"), U64("generation_id")>>
decode_sync_group_request ==
  Needs(<<Str("group"), Str("topic"), Str("member_id"), U64("generation_id")>>,
          {"group", "topic", "member_id", "generation_id"})

encode_sync_group_response ==
  <<Str("group"), Str("topic"), Str("member_id"), U64("generation_id"),
    List("assignment", <<U16("partition")>>)>>
decode_sync_group_response ==
  Plain(<<Str("group"), Str("topic"), Str("member_id"), U64("generation_id"),
            List("assignment", <<U16("partition")>>)>>)

encode_heartbeat_request ==
  <<Str("group"), Str("topic"), Str("member_id"), U64("generation_id")>>
decode_heartbeat_request ==
  Needs(<<Str("group"), Str("topic"), Str("member_id"), U64("generation_id")>>,
          {"group", "topic", "member_id", "generation_id"})

encode_heartbeat_response ==
  <<Str("group"), Str("topic"), Str("member_id"), U64("generation_id"),
    Str("status")>>
decode_heartbeat_response ==
  Plain(<<Str("group"), Str("topic"), Str("member_id"), U64("generation_id"),
            Str("status")>>)

encode_leave_group_request ==
  <<Str("group"), Str("topic"), Str("member_id"), U64("generation_id")>>
decode_leave_group_request ==
  Needs(<<Str("group"), Str("topic"), Str("member_id"), U64("generation_id")>>,
          {"group", "topic", "member_id", "generation_id"})

encode_leave_group_response ==
  <<Str("group"), Str("topic"), Str("member_id"), U64("generation_id"),
    Str("status")>>
decode_leave_group_response ==
  Plain(<<Str("group"), Str("topic"), Str("member_id"), U64("generation_id"),
            Str("status")>>)

encode_group_offset_commit_request ==
  <<Str("group"), Str("topic"), Str("member_id"), U64("generation_id"),
    U16("partition"), U64("next_offset")>>
decode_group_offset_commit_request ==
  Needs(<<Str("group"), Str("topic"), Str("member_id"), U64("generation_id"),
            U16("partition"), U64("next_offset")>>,
          {"group", "topic", "member_id", "generation_id"})

encode_group_offset_commit_response ==
  <<Str("group"), Str("topic"), Str("member_id"), U64("generation_id"),
    U16("partition"), U64("next_offset")>>
decode_group_offset_commit_response ==
  Plain(<<Str("group"), Str("topic"), Str("member_id"), U64("generation_id"),
            U16("partition"), U64("next_offset")>>)

write_topic_partition_description ==
  <<U16("partition"), U64("earliest_offset"), U64("next_offset"),
    U32("segment_count"), U64("log_bytes")>>
(* Mutant: two offsets are read the wrong way round. *)
read_topic_partition_descriptionSwapped ==
  <<U16("partition"), U64("next_offset"), U64("earliest_offset"),
    U32("segment_count"), U64("log_bytes")>>
read_topic_partition_description ==
  <<U16("partition"), U64("earliest_offset"), U64("next_offset"),
    U32("segment_count"), U64("log_bytes")>>

write_topic_description ==
  <<Str("topic"), U16("partition_count"), U64("log_bytes"),
    List("partitions", write_topic_partition_description)>>
read_topic_description ==
  <<Str("topic"), U16("partition_count"), U64("log_bytes"),
    List("partitions", read_topic_partition_description)>>

encode_list_topics_response == <<List("topics", write_topic_description)>>
decode_list_topics_response ==
  Plain(<<List("topics", read_topic_description)>>)

encode_describe_topic_request == <<Str("topic")>>
decode_describe_topic_request == Needs(<<Str("topic")>>, {"topic"})

encode_describe_topic_response == write_topic_description
decode_describe_topic_response == Plain(read_topic_description)

encode_delete_topic_request == <<Str("topic")>>
decode_delete_topic_request == Needs(<<Str("topic")>>, {"topic"})

encode_delete_topic_response ==
  <<Str("topic"), Str("status"), U16("partitions_deleted"),
    U32("segments_deleted"), U64("bytes_deleted"), U32("offsets_removed")>>
decode_delete_topic_response ==
  Plain(<<Str("topic"), Str("status"), U16("partitions_deleted"),
            U32("segments_deleted"), U64("bytes_deleted"),
            U32("offsets_removed")>>)

encode_run_retention_request == <<Str("topic")>>
decode_run_retention_request == Plain(<<Str("topic")>>)

encode_run_retention_response ==
  <<Str("topic"), U32("topics_scanned"), U32("partitions_scanned"),
    U32("segments_deleted"), U64("bytes_deleted"),
    List("partitions",
         <<Str("topic"), U16("partition"), U32("segments_deleted"),
           U64("bytes_deleted"), U64("earliest_offset"), U64("next_offset")>>)>>
decode_run_retention_response ==
  Plain(<<Str("topic"), U32("topics_scanned"), U32("partitions_scanned"),
          U32("segments_deleted"), U64("bytes_deleted"),
          List("partitions",
               <<Str("topic"), U16("partition"), U32("segments_deleted"),
                 U64("bytes_deleted"), U64("earliest_offset"), U64("next_offset")>>)>>)

encode_describe_group_request == <<Str("group"), Str("topic")>>
decode_describe_group_request ==
  Needs(<<Str("group"), Str("topic")>>, {"group", "topic"})

encode_describe_group_response ==
  <<Str("group"), Str("topic"), U32("active_member_count"),
    List("offsets",
         <<U16("partition"), Bool("has_committed_offset"),
           U64("committed_offset"), U64("earliest_offset"),
           U64("next_offset"), U64("lag"), Bool("out_of_range")>>)>>
decode_describe_group_response ==
  Plain(<<Str("group"), Str("topic"), U32("active_member_count"),
          List("offsets",
               <<U16("partition"), Bool("has_committed_offset"),
                 U64("committed_offset"), U64("earliest_offset"),
                 U64("next_offset"), U64("lag"), Bool("out_of_range")>>)>>)

encode_reset_group_offset_request ==
  <<Str("group"), Str("topic"), U16("partition"), Str("to")>>
decode_reset_group_offset_request ==
  Needs(<<Str("group"), Str("topic"), U16("partition"), Str("to")>>,
          {"group", "topic", "to"})

encode_reset_group_offset_response ==
  <<Str("group"), Str("topic"), U16("partition"), U64("next_offset"),
    Str("status")>>
decode_reset_group_offset_response ==
  Plain(<<Str("group"), Str("topic"), U16("partition"), U64("next_offset"),
            Str("status")>>)

encode_metadata_request == <<U32("supported_codecs")>>

decode_metadata_request(payload) ==
  LET r == Decode(Plain(<<U32("supported_codecs")>>), payload)
  IN IF r.ok /\ ~Masks(r.out.supported_codecs, kNoneMask)
     THEN error_result("MalformedPayload") ELSE r


encode_metadata_response(version) ==
  (IF version = 4 THEN <<>>
   ELSE <<U32("supported_codecs"), U32("negotiated_codecs")>>) 
    \o <<List("topics", <<Str("topic"), U16("partition"), U64("next_offset")>>)>>

(* Without a version, a payload that starts with two codec masks is taken   *)
(* for one of version 5.                                                    *)
decode_metadata_response(payload, version) ==
  LET IsMask(i) == Word(payload, i) = 0 /\ Word(payload, i + 2) \in {1, 3}
      v == IF version # 0 THEN version
           ELSE IF Len(payload) >= 8 /\ IsMask(1) /\ IsMask(5) THEN 5 ELSE 4
  IN Decode(Plain((IF v >= 5
                   THEN <<U32("supported_codecs"), U32("negotiated_codecs")>>
                   ELSE <<>>)
                    \o <<List("topics", <<Str("topic"), U16("partition"),
                                          U64("next_offset")>>)>>), payload)

-----------------------------------------------------------------------------
(* Record sets, and the two forms of a fetch response. *)

(* What ZSTD_compress and ZSTD_decompress do to a buffer: an invertible      *)
(* encoding, of another length, that not every buffer is an output of.       *)
ZSTD_compress(b) == <<40, 181>> \o b

compress(codec, b) == IF codec = 0 THEN b ELSE ZSTD_compress(b)

decompress(codec, b, expected_size, maximum_size) ==
  LET raw == SubSeq(b, 3, Len(b)) IN
  IF expected_size > maximum_size THEN error_result("InvalidBatch")
  ELSE IF codec = 0
  THEN IF Len(b) = expected_size THEN ok_result(b)
       ELSE error_result("InvalidBatch")
  ELSE IF codec = 1 /\ Len(b) >= 2 /\ b = ZSTD_compress(raw)
                    /\ Len(raw) = expected_size
  THEN ok_result(raw) ELSE error_result("InvalidBatch")

encode_record_set(records) ==
  Write(<<List("records", <<Bytes("key"), Bytes("message")>>)>>,
        [records |-> records])

decode_record_set(payload, expected_count) ==
  LET r == Decode(Plain(<<List("records", <<Bytes("key"), Bytes("message")>>)>>),
                  payload)
  IN IF /\ r.ok /\ Len(r.out.records) = expected_count
        /\ \A i \in DOMAIN r.out.records : r.out.records[i].message # <<>>
     THEN ok_result(r.out.records) ELSE error_result("InvalidBatch")

encode_fetch_response ==
  <<Str("topic"), U16("partition"), U64("from_offset"), U64("next_offset"),
    List("records", <<U64("offset"), U64("timestamp_unix_ns"), Bytes("key"),
                      Bytes("message"), U32("encoded_byte_size")>>)>>

encode_compressed_fetch_response ==
  <<Str("topic"), U16("partition"), U64("from_offset"), U64("next_offset"),
    U32("marker"), Codec("codec"), U64("timestamp"), U32("record_count"),
    U32("uncompressed_bytes"), Bytes("encoded_records")>>

(* from_offset + index, modulo 2^64. *)
RECURSIVE Plus(_, _, _)
Plus(words, n, i) ==
  IF i = 0 THEN words
  ELSE Plus([words EXCEPT ![i] = (@ + n) % 65536], (words[i] + n) \div 65536, i - 1)

kDefaultMaxFrameBytes == 1048576

decode_fetch_response(payload) ==
  LET top == <<Str("topic"), U16("partition"), U64("from_offset"),
               U64("next_offset")>>
      plain == top \o
        <<List("records", <<U64("offset"), U64("timestamp_unix_ns"),
                            Bytes("key"), Bytes("message"),
                            U32("encoded_byte_size")>>)>>
      packed == top \o
        <<U32("marker"), U16("codec_value"), U64("timestamp"),
          U32("count"), U32("uncompressed"), Bytes("encoded")>>
      IsPacked(head) == head.ok /\ head.out.record_count = kCompressedFetchMarker
      Fetched(batch, records) ==
        IF ~records.ok THEN records
        ELSE ok_result(
          [topic |-> batch.topic, partition |-> batch.partition,
           from_offset |-> batch.from_offset, next_offset |-> batch.next_offset,
           records |-> [i \in 1..batch.count |->
             [offset |-> Plus(batch.from_offset, i - 1, 4),
              timestamp_unix_ns |-> batch.timestamp,
              key |-> records.out[i].key, message |-> records.out[i].message,
              encoded_byte_size |-> Len(batch.encoded) \div batch.count]]])
      Unpacked(batch, raw) ==
        IF ~raw.ok THEN raw ELSE Fetched(batch, decode_record_set(raw.out, batch.count))
      Batch(r) ==
        IF ~r.ok THEN r
        ELSE Unpacked(r.out, decompress(ToCodec(r.out.codec_value), r.out.encoded,
                                        r.out.uncompressed, kDefaultMaxFrameBytes))
  IN IF IsPacked(Read(PayloadReader(payload), top \o <<U32("record_count")>>))
     THEN Batch(Decode(Plain(packed), payload))
     ELSE Decode(Plain(plain), payload)

-----------------------------------------------------------------------------
(* Agreement of the encoders and the decoders. *)

(* Every message whose decoder reads a fixed list of fields. *)
Messages == {
  <<encode_error_response, decode_error_response>>,
  <<encode_health_response, decode_health_response>>,
  <<encode_auth_request, decode_auth_request>>,
  <<encode_auth_response, decode_auth_response>>,
  <<encode_create_topic_request, decode_create_topic_request>>,
  <<encode_create_topic_response, decode_create_topic_response>>,
  <<encode_produce_request, decode_produce_request>>,
  <<encode_produce_response, decode_produce_response>>,
  <<encode_produce_batch_request, decode_produce_batch_request>>,
  <<encode_produce_batch_response, decode_produce_batch_response>>,
  <<encode_fetch_request, decode_fetch_request>>,
  <<encode_offset_commit_request, decode_offset_commit_request>>,
  <<encode_offset_commit_response, decode_offset_commit_response>>,
  <<encode_join_group_request, decode_join_group_request>>,
  <<encode_join_group_response, decode_join_group_response>>,
  <<encode_sync_group_request, decode_sync_group_request>>,
  <<encode_sync_group_response, decode_sync_group_response>>,
  <<encode_heartbeat_request, decode_heartbeat_request>>,
  <<encode_heartbeat_response, decode_heartbeat_response>>,
  <<encode_leave_group_request, decode_leave_group_request>>,
  <<encode_leave_group_response, decode_leave_group_response>>,
  <<encode_group_offset_commit_request, decode_group_offset_commit_request>>,
  <<encode_group_offset_commit_response, decode_group_offset_commit_response>>,
  <<encode_list_topics_response, decode_list_topics_response>>,
  <<encode_describe_topic_request, decode_describe_topic_request>>,
  <<encode_describe_topic_response, decode_describe_topic_response>>,
  <<encode_delete_topic_request, decode_delete_topic_request>>,
  <<encode_delete_topic_response, decode_delete_topic_response>>,
  <<encode_run_retention_request, decode_run_retention_request>>,
  <<encode_run_retention_response, decode_run_retention_response>>,
  <<encode_describe_group_request, decode_describe_group_request>>,
  <<encode_describe_group_response, decode_describe_group_response>>,
  <<encode_reset_group_offset_request, decode_reset_group_offset_request>>,
  <<encode_reset_group_offset_response, decode_reset_group_offset_response>> }

(* A value for every field, different at every position: numbers that use   *)
(* more than one byte, strings of two lengths, lists of two elements.       *)
RECURSIVE Full(_, _)
Full(fields, seed) ==
  [name \in {fields[i].name : i \in DOMAIN fields} |->
    LET i == CHOOSE i \in DOMAIN fields : fields[i].name = name
        n == seed + i
    IN CASE fields[i].type = "u16" -> 256 * n + 1
         [] fields[i].type = "u32" -> 65536 * n + 1
         [] fields[i].type = "u64" -> <<n, 0, 1, n + 1>>
         [] fields[i].type = "bool" -> n % 2 = 1
         [] fields[i].type = "codec" -> n % 2
         [] fields[i].type = "string" ->
              IF n % 2 = 0 THEN <<96 + n>> ELSE <<96 + n, 0>>
         [] fields[i].type = "list" ->
              <<Full(fields[i].of, n), Full(fields[i].of, n + 1)>>]

(* The full value, the one with every field empty, and the full one with a  *)
(* single field emptied.                                                    *)
Samples(fields) ==
  LET Without(I) == [name \in DOMAIN Full(fields, 0) |->
        IF \E i \in I : fields[i].name = name
        THEN Empty(fields[CHOOSE i \in I : fields[i].name = name])
        ELSE Full(fields, 0)[name]]
  IN {Without(I) : I \in {{}, DOMAIN fields} \cup {{i} : i \in DOMAIN fields}}

(* No part of a payload and no payload with a byte more is taken for one.   *)
WholeOnly(Dec(_), payload) ==
  /\ \A n \in 0..(Len(payload) - 1) : ~Dec(SubSeq(payload, 1, n)).ok
  /\ ~Dec(Append(payload, 0)).ok

(* What an encoder wrote is what the decoder returns, or the decoder reports *)
(* an error; it reports none for a value with no empty field.                *)
RoundTrips(enc, Dec(_)) ==
  \A v \in Samples(enc) :
    LET payload == Write(enc, v)
        r == Dec(payload)
    IN /\ r.ok => r.out = v
       /\ v = Full(enc, 0) => r.ok
       /\ WholeOnly(Dec, payload)

(* A batch of records that the broker stored is fetched as the same keys and *)
(* messages, with consecutive offsets, in either form of the response.       *)
FetchRoundTrips ==
  LET from == <<0, 0, 65535, 65535>>
      stamp == <<1, 2, 3, 4>>
      records == <<[key |-> <<>>, message |-> <<97, 98>>],
                   [key |-> <<107>>, message |-> <<99>>]>>
      raw == encode_record_set(records)
      Packed(codec) ==
        Write(encode_compressed_fetch_response,
          [topic |-> <<116>>, partition |-> 1, from_offset |-> from,
           next_offset |-> Plus(from, 2, 4), marker |-> kCompressedFetchMarker,
           codec |-> codec, timestamp |-> stamp, record_count |-> 2,
           uncompressed_bytes |-> Len(raw),
           encoded_records |-> compress(codec, raw)])
  IN /\ RoundTrips(encode_fetch_response, decode_fetch_response)
     /\ \A codec \in {0, 1} :
          LET r == decode_fetch_response(Packed(codec)) IN
          /\ r.ok
          /\ r.out.topic = <<116>> /\ r.out.partition = 1
          /\ r.out.from_offset = from /\ r.out.next_offset = <<0, 1, 0, 1>>
          /\ \A i \in 1..2 :
               /\ r.out.records[i].key = records[i].key
               /\ r.out.records[i].message = records[i].message
               /\ r.out.records[i].offset = <<from, <<0, 1, 0, 0>>>>[i]
               /\ r.out.records[i].timestamp_unix_ns = stamp
          /\ WholeOnly(decode_fetch_response, Packed(codec))

(* A metadata response of either version is read back by a client that      *)
(* knows the version; one of version 5, with the masks that a broker sends, *)
(* also by a client that does not say which it speaks.                      *)
MetadataRoundTrips ==
  /\ \A version \in {4, 5} :
       RoundTrips(encode_metadata_response(version),
                  LAMBDA payload : decode_metadata_response(payload, version))
  /\ \A mask \in {kNoneMask, kSupportedCodecMask} :
       LET v == [Full(encode_metadata_response(5), 0) EXCEPT
                   !.supported_codecs = kSupportedCodecMask,
                   !.negotiated_codecs = mask]
       IN decode_metadata_response(Write(encode_metadata_response(5), v), 0)
            = ok_result(v)

(* Every decoder of the protocol undoes its encoder, and takes nothing that  *)
(* is shorter or longer than a payload the encoder wrote: protocol.cpp       *)
(* 474-1551, each pair written by hand, field by field.                      *)
CodecAgrees ==
  /\ \A m \in Messages :
       RoundTrips(m[1], LAMBDA payload : Decode(m[2], payload))
  /\ RoundTrips(encode_metadata_request, decode_metadata_request)
  /\ MetadataRoundTrips
  /\ FetchRoundTrips
=============================================================================
