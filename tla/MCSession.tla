------------------------------ MODULE MCSession ------------------------------
EXTENDS Session

t == <<116>>
g == <<103>>
One == <<0, 0, 0, 1>>
MCToken == <<107>>

Ask(type, payload) == [type |-> type, payload |-> payload]
Raw == encode_record_set(<<[key |-> <<>>, message |-> <<97>>]>>)
Batch(codec, size) ==
  Write(encode_produce_batch_request,
        [topic |-> t, partition |-> 0, codec |-> codec, record_count |-> 1,
         uncompressed_bytes |-> size, encoded_records |-> compress(codec, Raw)])

(* A value for every member of a request. *)
Args == [topic |-> t, group |-> g, member_id |-> t, token |-> MCToken,
         partition |-> 0, partition_count |-> 1, key |-> <<>>, message |-> <<97>>,
         from |-> <<48>>, to |-> t, max_wait_ms |-> 1, session_timeout_ms |-> 1,
         generation_id |-> One, next_offset |-> One]

Login == Ask("AuthRequest", Write(encode_auth_request, Args))
Codecs(mask) ==
  Ask("MetadataRequest", Write(encode_metadata_request, [supported_codecs |-> mask]))
Zstd == Ask("ProduceBatchRequest", Batch(1, Len(Raw)))
Poll == Ask("FetchRequest",
            Write(encode_fetch_request, [Args EXCEPT !.group = <<>>]))
Send == Ask("ProduceRequest", Write(encode_produce_request, Args))
Topics == Ask("ListTopicsRequest", <<>>)

(* A well-formed request of every type. *)
Good == {
  Ask("HealthRequest", <<>>), Login, Codecs(3), Zstd, Poll, Send, Topics,
  Ask("CreateTopicRequest", Write(encode_create_topic_request, Args)),
  Ask("ProduceBatchRequest", Batch(0, Len(Raw))),
  Ask("OffsetCommitRequest", Write(encode_offset_commit_request, Args)),
  Ask("JoinGroupRequest", Write(encode_join_group_request, Args)),
  Ask("SyncGroupRequest", Write(encode_sync_group_request, Args)),
  Ask("HeartbeatRequest", Write(encode_heartbeat_request, Args)),
  Ask("LeaveGroupRequest", Write(encode_leave_group_request, Args)),
  Ask("GroupOffsetCommitRequest", Write(encode_group_offset_commit_request, Args)),
  Ask("DescribeTopicRequest", Write(encode_describe_topic_request, Args)),
  Ask("DeleteTopicRequest", Write(encode_delete_topic_request, Args)),
  Ask("RunRetentionRequest", Write(encode_run_retention_request, Args)),
  Ask("DescribeGroupRequest", Write(encode_describe_group_request, Args)),
  Ask("ResetGroupOffsetRequest", Write(encode_reset_group_offset_request, Args)) }

(* A wrong token, a name that is not one, a payload cut short, a batch over  *)
(* the limit and one of another size than it says, a payload too long for a  *)
(* frame, a frame that is no request.                                        *)
Bad == {
  Ask("AuthRequest", Write(encode_auth_request, [Args EXCEPT !.token = t])),
  Ask("DescribeGroupRequest",
      Write(encode_describe_group_request, [Args EXCEPT !.group = <<47>>])),
  Ask("DeleteTopicRequest",
      Write(encode_delete_topic_request, [Args EXCEPT !.topic = <<46, 46>>])),
  Ask("JoinGroupRequest", <<0, 0, 0, 1, 103>>),
  Ask("ProduceBatchRequest", Batch(0, 21)),
  Ask("ProduceBatchRequest", Batch(0, 1)),
  Ask("ProduceRequest",
      Write(encode_produce_request, [Args EXCEPT !.message = [i \in 1..40 |-> 97]])),
  Ask("ProduceResponse", <<>>) }

Frame(ask, v, f) ==
  [type |-> ask.type, payload |-> ask.payload, version |-> v, fault |-> f]

AsksV(asks, v) == [i \in DOMAIN asks |-> Frame(asks[i], v, "none")]

Setup(auth, others, peer, script) ==
  [auth_required |-> auth, others |-> others, peer |-> peer, script |-> script]

(* Every request alone and after a login, broken ones before and after good  *)
(* ones, negotiations followed by what they allow, version 4, a connection   *)
(* over the limit, and clients that get their headers wrong.                 *)
MCSetups ==
  {Setup(auth, 0, "async_client", AsksV(<<r>>, 5)) :
     auth \in BOOLEAN, r \in Good \cup Bad}
  \cup {Setup(TRUE, 0, "async_client", AsksV(<<Login, r>>, 5)) : r \in Good \cup Bad}
  \cup {Setup(FALSE, 0, "async_client", AsksV(<<r, Poll>>, 5)) :
          r \in Bad \cup {Codecs(1), Codecs(3), Send, Topics}}
  \cup {Setup(FALSE, 0, "async_client", AsksV(<<Codecs(mask), Zstd>>, 5)) :
          mask \in {1, 2, 3}}
  \cup {Setup(FALSE, 0, "async_client", AsksV(<<Codecs(3), Codecs(1), r>>, 5)) :
          r \in {Zstd, Poll}}
  \cup {Setup(FALSE, 0, "async_client", AsksV(<<Ask("MetadataRequest", <<>>), r>>, 4)) :
          r \in {Zstd, Poll}}
  \cup {Setup(FALSE, MaxSessions, "async_client", AsksV(<<Send, Poll>>, 5))}
  \cup {Setup(FALSE, 0, "other", <<Frame(Codecs(3), v, "none"), Frame(Poll, w, f)>>) :
          v \in {4, 5, 6}, w \in {4, 5},
          f \in {"none", "magic", "header_bytes", "flags", "crc"}}
=============================================================================
