------------------------------- MODULE Session -------------------------------
(***************************************************************************)
(* One connection: BrokerProtocolSession (src/src/broker/server.cpp        *)
(* 1616-2601) at the broker, AsyncClient (src/src/client/async_client.cpp) *)
(* at the other end, and the TCP stream between them, which keeps the      *)
(* order of the frames and may be cut at any time.                         *)
(*                                                                         *)
(* The session reads one frame at a time, runs the handler of its type,    *)
(* writes one response and reads the next frame.  A handler is the list of *)
(* its checks, in the order of the code, and the outcomes of the call it   *)
(* makes on BrokerRuntime; what the call does is the subject of the other  *)
(* modules.  Payloads are byte sequences, decoded by module Protocol.      *)
(***************************************************************************)
EXTENDS Protocol, FiniteSetsExt

CONSTANTS Setups,        \* brokers, clients and what the clients ask for
          Token,         \* broker_token_ when authentication is configured
          MaxPayload,    \* max_frame_bytes - kFrameHeaderBytes, both ends
          MaxRecords,    \* max_produce_batch_records
          MaxBatch,      \* max_uncompressed_batch_bytes
          MaxSessions    \* max_broker_connections

(* A setup says whether the broker asks for a token, how many sessions it     *)
(* has open already, which client connects and the requests it will make:     *)
(* what an AsyncClient is asked to send, or the frames of another client.     *)
ASSUME SessionConstants ==
  /\ MaxPayload \in Nat /\ MaxRecords \in Nat /\ MaxBatch \in Nat
  /\ MaxSessions \in Nat \ {0}
  /\ \A s \in Setups :
       /\ s.auth_required \in BOOLEAN /\ s.others \in 0..MaxSessions
       /\ s.peer \in {"async_client", "other"}
       /\ \A i \in DOMAIN s.script :
            DOMAIN s.script[i] = {"type", "payload", "version", "fault"}

VARIABLES
  stage,              \* accept, header, payload, waiting, writing or closed
  protocol_version_,
  authenticated_,
  negotiated_codecs_,
  frame,              \* the request being served
  reply,              \* the response being written
  answers,            \* history: the responses decided, in order
  link,               \* the stream: up or cut
  toServer, toClient, \* frames in flight
  open,               \* the client's socket_.is_open()
  writing,            \* an async_write of the client is outstanding
  write_queue_,       \* requests not yet written, by number
  pending_,           \* requests whose handler has not been called
  reader,             \* an async_read of the client is outstanding
  sent,               \* history: the requests, in order
  handled,            \* history: the calls of each request's handler
  setup               \* how broker and client were configured

serverVars == <<stage, protocol_version_, authenticated_, negotiated_codecs_,
                frame, reply, answers>>
clientVars == <<open, writing, write_queue_, pending_, reader, sent, handled>>
vars == <<serverVars, link, toServer, toClient, clientVars, setup>>

NoFrame == [id |-> 0, version |-> 0, type |-> "none", payload |-> <<>>,
            fault |-> "none"]
NoReply == [id |-> 0, type |-> "none", code |-> "none", close |-> FALSE,
            called |-> FALSE, packed |-> FALSE, big |-> FALSE]

-----------------------------------------------------------------------------
(* Headers and names. *)

kMinimumProtocolVersion == 4
kProtocolVersion == 5

(* The first of some checks that is not "ok", or "ok". *)
FirstError(checks) ==
  LET failed == {i \in DOMAIN checks : checks[i] # "ok"}
  IN IF failed = {} THEN "ok" ELSE checks[Min(failed)]

Unless(bad, code) == IF bad THEN code ELSE "ok"

decode_header(f) ==
  FirstError(<<
    Unless(f.fault = "magic", "InvalidMagic"),
    Unless(f.version \notin kMinimumProtocolVersion..kProtocolVersion,
           "UnsupportedVersion"),
    Unless(f.fault = "header_bytes", "InvalidLength"),
    Unless(Len(f.payload) > MaxPayload, "InvalidLength"),
    Unless(f.fault = "flags", "ReservedFlags"),
    Unless(f.fault = "crc", "CrcMismatch")>>)

is_request_type(type) == type \in {
  "HealthRequest", "MetadataRequest", "ProduceRequest", "ProduceBatchRequest",
  "FetchRequest", "OffsetCommitRequest", "AuthRequest", "CreateTopicRequest",
  "JoinGroupRequest", "SyncGroupRequest", "HeartbeatRequest",
  "LeaveGroupRequest", "GroupOffsetCommitRequest", "ListTopicsRequest",
  "DescribeTopicRequest", "DeleteTopicRequest", "RunRetentionRequest",
  "DescribeGroupRequest", "ResetGroupOffsetRequest"}

is_valid_topic_name(name) ==
  /\ name \notin {<<>>, <<46>>, <<46, 46>>}
  /\ \A i \in DOMAIN name :
       name[i] \in (65..90) \cup (97..122) \cup (48..57) \cup {45, 46, 95}

is_valid_group_name(name) == is_valid_topic_name(name)

-----------------------------------------------------------------------------
(* Responses.  An outcome of a handler is a response, or the start of a call *)
(* that answers later, with what the handler leaves in the session.          *)

write_frame(type) == [NoReply EXCEPT !.type = type]
write_error(code, close_after_write) ==
  [NoReply EXCEPT !.type = "ErrorResponse", !.code = code,
                  !.close = close_after_write]

Outcome(r) == [reply |-> r, auth |-> authenticated_,
               codecs |-> negotiated_codecs_, later |-> FALSE]
Later == [Outcome(NoReply) EXCEPT !.later = TRUE]

(* The first check that fails answers and closes the connection. *)
Checked(checks, outcomes) ==
  IF FirstError(checks) = "ok" THEN outcomes
  ELSE {Outcome(write_error(FirstError(checks), TRUE))}

Payload(d) == IF d.ok THEN "ok" ELSE d.error
Field(d, name) == IF d.ok THEN d.out[name] ELSE <<>>
TopicName(name) == Unless(~is_valid_topic_name(name), "MalformedPayload")
GroupName(name) == Unless(~is_valid_group_name(name), "InvalidGroup")
require_auth == Unless(~authenticated_, "Unauthorized")

Called(r) == [r EXCEPT !.called = TRUE]

(* A call on the runtime returns, throws a BrokerRequestError or throws     *)
(* something else; none of them closes the connection.                      *)
RuntimeThrows ==
  {Outcome(Called(write_error(code, FALSE))) :
     code \in {"BrokerRequestError", "InternalError"}}
Runtime(type) == {Outcome(Called(write_frame(type)))} \cup RuntimeThrows

(* A response with a list in it may be larger than a client's frames.       *)
RuntimeList(type) ==
  Runtime(type) \cup {Outcome([Called(write_frame(type)) EXCEPT !.big = TRUE])}

-----------------------------------------------------------------------------
(* The handlers. *)

handle_health(f) ==
  Checked(<<Payload(validate_empty_payload(f.payload))>>,
          {Outcome(write_frame("HealthResponse"))})

authenticate(token) == ~setup.auth_required \/ token = Token

handle_auth(f) ==
  LET d == Decode(decode_auth_request, f.payload) IN
  Checked(<<Payload(d), Unless(~authenticate(Field(d, "token")), "Unauthorized")>>,
          {[Outcome(write_frame("AuthResponse")) EXCEPT !.auth = TRUE]})

(* Mutant: codecs negotiated once stay, whatever is advertised later. *)
handle_metadataKeeps(f) ==
  LET d == IF protocol_version_ >= 5 THEN decode_metadata_request(f.payload)
           ELSE validate_empty_payload(f.payload)
      zstd == protocol_version_ >= 5 /\ d.ok /\ Masks(d.out.supported_codecs, kZstdMask)
      codecs == IF zstd THEN kSupportedCodecMask ELSE negotiated_codecs_
  IN Checked(<<Payload(d), require_auth>>,
             {[Outcome(Called(write_frame("MetadataResponse")))
                 EXCEPT !.codecs = codecs]})

handle_metadata(f) ==
  LET d == IF protocol_version_ >= 5 THEN decode_metadata_request(f.payload)
           ELSE validate_empty_payload(f.payload)
      zstd == protocol_version_ >= 5 /\ d.ok /\ Masks(d.out.supported_codecs, kZstdMask)
      codecs == IF zstd THEN kSupportedCodecMask ELSE kNoneMask
  IN Checked(<<Payload(d), require_auth>>,
             {[o EXCEPT !.codecs = codecs] :
                o \in {Outcome([Called(write_frame("MetadataResponse"))
                                  EXCEPT !.big = big]) : big \in BOOLEAN}})

handle_create_topic(f) ==
  LET d == Decode(decode_create_topic_request, f.payload) IN
  Checked(<<Payload(d), require_auth>>, Runtime("CreateTopicResponse"))

(* async_produce queues the append or throws at once. *)
handle_produce(f) ==
  LET d == Decode(decode_produce_request, f.payload) IN
  Checked(<<Payload(d), TopicName(Field(d, "topic")), require_auth>>,
          {Later} \cup RuntimeThrows)

handle_produce_batch(f) ==
  LET d == Decode(decode_produce_batch_request, f.payload)
      codec == Field(d, "codec")
      count == Field(d, "record_count")
      size == Field(d, "uncompressed_bytes")
      raw == decompress(codec, Field(d, "encoded_records"), size, MaxBatch)
  IN Checked(<<Unless(protocol_version_ < 5, "UnsupportedRequest"), Payload(d),
               require_auth>>,
       IF ~Masks(negotiated_codecs_, IF codec = 1 THEN kZstdMask ELSE kNoneMask)
       THEN {Outcome(write_error("UnsupportedCodec", FALSE))}
       ELSE IF count > MaxRecords \/ size > MaxBatch
       THEN {Outcome(write_error("InvalidLength", FALSE))}
       ELSE Checked(<<Payload(raw), Payload(decode_record_set(raw.out, count))>>,
              {Outcome(Called(write_frame("ProduceBatchResponse"))),
               Outcome(Called(write_error("BrokerRequestError", FALSE))),
               Outcome(Called(write_error("InvalidBatch", TRUE)))}))

write_fetch_response ==
  {Outcome(Called(write_frame("FetchResponse"))),
   Outcome(Called(write_error("InvalidLength", FALSE)))}

(* A stored batch is passed on as it is when zstd was negotiated and it fits *)
(* a frame; a fetch that finds nothing waits, if the limit of waiters allows. *)
fetch_or_wait(max_wait_ms) ==
  UNION {
    IF protocol_version_ >= 5 /\ Masks(negotiated_codecs_, kZstdMask)
    THEN {Outcome([Called(write_frame("FetchResponse")) EXCEPT !.packed = TRUE])}
    ELSE {},
    write_fetch_response, RuntimeThrows,
    IF max_wait_ms > 0
    THEN {Later, Outcome(Called(write_error("Overloaded", FALSE)))} ELSE {}}

handle_fetch(f) ==
  LET d == Decode(decode_fetch_request, f.payload) IN
  Checked(<<Payload(d), TopicName(Field(d, "topic")),
            Unless(Field(d, "group") # <<>>, GroupName(Field(d, "group"))),
            require_auth>>,
          fetch_or_wait(Field(d, "max_wait_ms")))

handle_offset_commit(f) ==
  LET d == Decode(decode_offset_commit_request, f.payload) IN
  Checked(<<Payload(d), GroupName(Field(d, "group")),
            TopicName(Field(d, "topic")),
            require_auth>>, Runtime("OffsetCommitResponse"))

handle_join_group(f) ==
  LET d == Decode(decode_join_group_request, f.payload) IN
  Checked(<<Payload(d), GroupName(Field(d, "group")),
            TopicName(Field(d, "topic")),
            require_auth>>, Runtime("JoinGroupResponse"))

handle_sync_group(f) ==
  LET d == Decode(decode_sync_group_request, f.payload) IN
  Checked(<<Payload(d), GroupName(Field(d, "group")),
            TopicName(Field(d, "topic")),
            require_auth>>, RuntimeList("SyncGroupResponse"))

handle_heartbeat(f) ==
  LET d == Decode(decode_heartbeat_request, f.payload) IN
  Checked(<<Payload(d), GroupName(Field(d, "group")),
            TopicName(Field(d, "topic")),
            require_auth>>, Runtime("HeartbeatResponse"))

handle_leave_group(f) ==
  LET d == Decode(decode_leave_group_request, f.payload) IN
  Checked(<<Payload(d), GroupName(Field(d, "group")),
            TopicName(Field(d, "topic")),
            require_auth>>, Runtime("LeaveGroupResponse"))

handle_group_offset_commit(f) ==
  LET d == Decode(decode_group_offset_commit_request, f.payload) IN
  Checked(<<Payload(d), GroupName(Field(d, "group")),
            TopicName(Field(d, "topic")),
            require_auth>>, Runtime("GroupOffsetCommitResponse"))

handle_list_topics(f) ==
  Checked(<<Payload(validate_empty_payload(f.payload)), require_auth>>,
          RuntimeList("ListTopicsResponse"))

handle_describe_topic(f) ==
  LET d == Decode(decode_describe_topic_request, f.payload) IN
  Checked(<<Payload(d), TopicName(Field(d, "topic")), require_auth>>,
          RuntimeList("DescribeTopicResponse"))

handle_delete_topic(f) ==
  LET d == Decode(decode_delete_topic_request, f.payload) IN
  Checked(<<Payload(d), TopicName(Field(d, "topic")), require_auth>>,
          Runtime("DeleteTopicResponse"))

handle_run_retention(f) ==
  LET d == Decode(decode_run_retention_request, f.payload) IN
  Checked(<<Payload(d),
            Unless(Field(d, "topic") # <<>>, TopicName(Field(d, "topic"))),
            require_auth>>, RuntimeList("RunRetentionResponse"))

(* Mutant: require_auth forgotten. *)
handle_describe_groupOpen(f) ==
  LET d == Decode(decode_describe_group_request, f.payload) IN
  Checked(<<Payload(d), GroupName(Field(d, "group")),
            TopicName(Field(d, "topic"))>>,
          RuntimeList("DescribeGroupResponse"))

handle_describe_group(f) ==
  LET d == Decode(decode_describe_group_request, f.payload) IN
  Checked(<<Payload(d), GroupName(Field(d, "group")),
            TopicName(Field(d, "topic")),
            require_auth>>, RuntimeList("DescribeGroupResponse"))

handle_reset_group_offset(f) ==
  LET d == Decode(decode_reset_group_offset_request, f.payload) IN
  Checked(<<Payload(d), GroupName(Field(d, "group")),
            TopicName(Field(d, "topic")),
            require_auth>>, Runtime("ResetGroupOffsetResponse"))

(* Answering: the response is decided; the write has not completed. *)
Answer(r) ==
  /\ reply' = [r EXCEPT !.id = frame'.id]
  /\ answers' = Append(answers, [r EXCEPT !.id = frame'.id])
  /\ stage' = "writing"

Dispatch(f) ==
  CASE f.type = "HealthRequest" -> handle_health(f)
    [] f.type = "MetadataRequest" -> handle_metadata(f)
    [] f.type = "ProduceRequest" -> handle_produce(f)
    [] f.type = "ProduceBatchRequest" -> handle_produce_batch(f)
    [] f.type = "FetchRequest" -> handle_fetch(f)
    [] f.type = "OffsetCommitRequest" -> handle_offset_commit(f)
    [] f.type = "AuthRequest" -> handle_auth(f)
    [] f.type = "CreateTopicRequest" -> handle_create_topic(f)
    [] f.type = "JoinGroupRequest" -> handle_join_group(f)
    [] f.type = "SyncGroupRequest" -> handle_sync_group(f)
    [] f.type = "HeartbeatRequest" -> handle_heartbeat(f)
    [] f.type = "LeaveGroupRequest" -> handle_leave_group(f)
    [] f.type = "GroupOffsetCommitRequest" -> handle_group_offset_commit(f)
    [] f.type = "ListTopicsRequest" -> handle_list_topics(f)
    [] f.type = "DescribeTopicRequest" -> handle_describe_topic(f)
    [] f.type = "DeleteTopicRequest" -> handle_delete_topic(f)
    [] f.type = "RunRetentionRequest" -> handle_run_retention(f)
    [] f.type = "DescribeGroupRequest" -> handle_describe_group(f)
    [] f.type = "ResetGroupOffsetRequest" -> handle_reset_group_offset(f)
    [] ~is_request_type(f.type) ->
         {Outcome(write_error("UnsupportedRequest", FALSE))}

-----------------------------------------------------------------------------
(* The session. *)

(* handle_broker_client: one session more than the limit is closed at once. *)
handle_broker_client ==
  /\ stage = "accept"
  /\ stage' = IF setup.others >= MaxSessions THEN "closed" ELSE "header"
  /\ UNCHANGED <<protocol_version_, authenticated_, negotiated_codecs_, frame,
                 reply, answers, link, toServer, toClient, clientVars, setup>>

read_header ==
  /\ stage = "header" /\ toServer # <<>>
  /\ frame' = Head(toServer) /\ toServer' = Tail(toServer)
  /\ LET f == Head(toServer)
         code == FirstError(<<decode_header(f),
                   Unless(protocol_version_ \notin {0, f.version},
                          "UnsupportedVersion")>>)
     IN IF code # "ok"
        THEN Answer(write_error(code, TRUE)) /\ UNCHANGED protocol_version_
        ELSE /\ protocol_version_' = f.version /\ stage' = "payload"
             /\ UNCHANGED <<reply, answers>>
  /\ UNCHANGED <<authenticated_, negotiated_codecs_, link, toClient, clientVars,
                 setup>>

(* read_payload completes and handle_frame runs. *)
handle_frame ==
  /\ stage = "payload" /\ link = "up"
  /\ UNCHANGED frame
  /\ \E o \in Dispatch(frame) :
       /\ authenticated_' = o.auth /\ negotiated_codecs_' = o.codecs
       /\ IF o.later THEN stage' = "waiting" /\ UNCHANGED <<reply, answers>>
          ELSE Answer(o.reply)
  /\ UNCHANGED <<protocol_version_, link, toServer, toClient, clientVars, setup>>

(* The append of a produce is done, or a long poll is woken or times out. *)
CallCompletes ==
  /\ stage = "waiting"
  /\ UNCHANGED frame
  /\ \E o \in IF frame.type = "ProduceRequest" THEN Runtime("ProduceResponse")
              ELSE write_fetch_response \cup Runtime("FetchResponse") :
       Answer(o.reply)
  /\ UNCHANGED <<protocol_version_, authenticated_, negotiated_codecs_, link,
                 toServer, toClient, clientVars, setup>>

WriteCompletes ==
  /\ stage = "writing" /\ link = "up"
  /\ toClient' = IF open THEN Append(toClient, reply) ELSE toClient
  /\ stage' = IF reply.close THEN "closed" ELSE "header"
  /\ UNCHANGED <<protocol_version_, authenticated_, negotiated_codecs_, frame,
                 reply, answers, link, toServer, clientVars, setup>>

(* A read or a write fails: the session is destroyed and its socket closed. *)
SessionFails ==
  /\ \/ stage \in {"header", "payload", "writing"} /\ link = "cut"
     \/ stage = "header" /\ ~open /\ toServer = <<>>
     \/ stage = "writing" /\ ~open
  /\ stage' = "closed"
  /\ UNCHANGED <<protocol_version_, authenticated_, negotiated_codecs_, frame,
                 reply, answers, link, toServer, toClient, clientVars, setup>>

Cut ==
  /\ link = "up" /\ link' = "cut" /\ toServer' = <<>> /\ toClient' = <<>>
  /\ UNCHANGED <<serverVars, clientVars, setup>>

-----------------------------------------------------------------------------
(* The client. *)

Failure == [NoReply EXCEPT !.type = "failure"]

next_correlation_id_ == 1 + Cardinality({n \in DOMAIN sent : sent[n].id # 0})

(* The next request of the script. *)
Asked == setup.script[Len(sent) + 1]

Post(id) ==
  sent' = Append(sent, [id |-> id, version |-> Asked.version,
                        type |-> Asked.type, payload |-> Asked.payload,
                        armed |-> reader])

FrameOf(n) == [id |-> sent[n].id, version |-> sent[n].version,
               type |-> sent[n].type, payload |-> sent[n].payload,
               fault |-> "none"]

async_request_impl ==
  /\ setup.peer = "async_client" /\ Len(sent) < Len(setup.script)
  /\ IF ~open \/ Len(Asked.payload) > MaxPayload
     THEN /\ Post(0)
          /\ handled' = Append(handled, <<Failure>>)
          /\ UNCHANGED <<pending_, write_queue_, writing>>
     ELSE /\ Post(next_correlation_id_)
          /\ handled' = Append(handled, <<>>)
          /\ pending_' = pending_ \cup {Len(sent) + 1}
          /\ write_queue_' = Append(write_queue_, Len(sent) + 1)
          /\ writing' = (writing \/ write_queue_ = <<>>)
  /\ UNCHANGED <<serverVars, link, toServer, toClient, open, reader, setup>>

fail_pending ==
  /\ handled' = [n \in DOMAIN handled |->
                   IF n \in pending_ THEN Append(handled[n], Failure)
                   ELSE handled[n]]
  /\ pending_' = {}

close == open' = FALSE /\ toClient' = <<>>

(* start_write's completion.  A write to a broker that has closed may still *)
(* succeed at the client.  A failed write leaves its frame in write_queue_. *)
WriteSucceeds ==
  /\ writing /\ open /\ link = "up"
  /\ toServer' = IF stage = "closed" THEN toServer
                 ELSE Append(toServer, FrameOf(Head(write_queue_)))
  /\ write_queue_' = Tail(write_queue_)
  /\ writing' = (Tail(write_queue_) # <<>>)
  /\ UNCHANGED <<serverVars, link, toClient, open, pending_, reader, sent,
                 handled, setup>>

WriteFails ==
  /\ writing /\ (~open \/ link = "cut" \/ stage = "closed")
  /\ writing' = FALSE
  /\ fail_pending /\ close
  /\ UNCHANGED <<serverVars, link, toServer, write_queue_, reader, sent, setup>>

(* Mutant: the request stays in pending_ after its handler was called. *)
dispatch_responseKeeps(r) ==
  /\ handled' = [k \in DOMAIN handled |->
                   IF k \in pending_ /\ sent[k].id = r.id
                   THEN Append(handled[k], r) ELSE handled[k]]
  /\ UNCHANGED pending_

(* A header and its payload are read; dispatch_response; the next read. *)
dispatch_response(r) ==
  LET n == {k \in pending_ : sent[k].id = r.id} IN
  /\ handled' = [k \in DOMAIN handled |->
                   IF k \in n THEN Append(handled[k], r) ELSE handled[k]]
  /\ pending_' = pending_ \ n

ReadSucceeds ==
  /\ setup.peer = "async_client" /\ reader /\ open /\ toClient # <<>>
  /\ IF Head(toClient).big
     THEN fail_pending /\ close /\ reader' = FALSE
     ELSE /\ dispatch_response(Head(toClient))
          /\ toClient' = Tail(toClient)
          /\ UNCHANGED <<open, reader>>
  /\ UNCHANGED <<serverVars, link, toServer, writing, write_queue_, sent, setup>>

(* Mutant: a failed read only stops the reading. *)
ReadFailsQuietly ==
  /\ reader
  /\ ~open \/ link = "cut" \/ (stage = "closed" /\ toClient = <<>>)
  /\ reader' = FALSE
  /\ UNCHANGED <<serverVars, link, toServer, toClient, open, writing,
                 write_queue_, pending_, sent, handled, setup>>

(* A failed read fails the requests but leaves the socket open. *)
ReadFails ==
  /\ reader
  /\ ~open \/ link = "cut" \/ (stage = "closed" /\ toClient = <<>>)
  /\ reader' = FALSE
  /\ fail_pending
  /\ UNCHANGED <<serverVars, link, toServer, toClient, open, writing,
                 write_queue_, sent, setup>>

(* The program using the client closes it. *)
ClientCloses ==
  /\ open /\ close
  /\ UNCHANGED <<serverVars, link, toServer, writing, write_queue_, pending_,
                 reader, sent, handled, setup>>

(* A client that is not AsyncClient: any version on any frame, any header. *)
OtherClientWrites ==
  /\ setup.peer = "other" /\ open /\ link = "up"
  /\ Len(sent) < Len(setup.script)
  /\ Post(Len(sent) + 1)
  /\ toServer' = Append(toServer,
       [id |-> Len(sent) + 1, version |-> Asked.version, type |-> Asked.type,
        payload |-> Asked.payload, fault |-> Asked.fault])
  /\ handled' = Append(handled, <<>>)
  /\ UNCHANGED <<serverVars, link, toClient, open, writing, write_queue_,
                 pending_, reader, setup>>

-----------------------------------------------------------------------------
Init ==
  /\ setup \in Setups
  /\ stage = "accept" /\ protocol_version_ = 0
  /\ authenticated_ = ~setup.auth_required /\ negotiated_codecs_ = kNoneMask
  /\ frame = NoFrame /\ reply = NoReply /\ answers = <<>>
  /\ link = "up" /\ toServer = <<>> /\ toClient = <<>>
  /\ open = TRUE /\ writing = FALSE /\ write_queue_ = <<>> /\ pending_ = {}
  /\ reader = (setup.peer = "async_client")
  /\ sent = <<>> /\ handled = <<>>

Next ==
  \/ handle_broker_client \/ read_header \/ handle_frame \/ CallCompletes
  \/ WriteCompletes \/ SessionFails \/ Cut
  \/ async_request_impl \/ WriteSucceeds \/ WriteFails
  \/ ReadSucceeds \/ ReadFails \/ ClientCloses \/ OtherClientWrites

Spec == Init /\ [][Next]_vars

(* handle_frame, as far as fairness needs to know it. *)
TakesFrame ==
  stage = "payload" /\ link = "up" /\ stage' \in {"waiting", "writing"}

(* io_context runs every completion handler that is ready, and the runtime   *)
(* answers every call (AppendQueue!JobsAnswered, LongPoll!FetchesAnswered).  *)
FairSpec ==
  /\ Spec
  /\ WF_vars(handle_broker_client) /\ WF_vars(read_header)
  /\ WF_stage(TakesFrame) /\ WF_vars(CallCompletes)
  /\ WF_vars(WriteCompletes) /\ WF_vars(SessionFails)
  /\ WF_vars(WriteSucceeds) /\ WF_vars(WriteFails)
  /\ WF_vars(ReadSucceeds) /\ WF_vars(ReadFails)

-----------------------------------------------------------------------------
(* Properties. *)

ResponseType == [
  HealthRequest |-> "HealthResponse", AuthRequest |-> "AuthResponse",
  MetadataRequest |-> "MetadataResponse", ProduceRequest |-> "ProduceResponse",
  ProduceBatchRequest |-> "ProduceBatchResponse",
  FetchRequest |-> "FetchResponse",
  OffsetCommitRequest |-> "OffsetCommitResponse",
  CreateTopicRequest |-> "CreateTopicResponse",
  JoinGroupRequest |-> "JoinGroupResponse",
  SyncGroupRequest |-> "SyncGroupResponse",
  HeartbeatRequest |-> "HeartbeatResponse",
  LeaveGroupRequest |-> "LeaveGroupResponse",
  GroupOffsetCommitRequest |-> "GroupOffsetCommitResponse",
  ListTopicsRequest |-> "ListTopicsResponse",
  DescribeTopicRequest |-> "DescribeTopicResponse",
  DeleteTopicRequest |-> "DeleteTopicResponse",
  RunRetentionRequest |-> "RunRetentionResponse",
  DescribeGroupRequest |-> "DescribeGroupResponse",
  ResetGroupOffsetRequest |-> "ResetGroupOffsetResponse"]

(* The requests that were given a correlation id, in order. *)
Framed == SelectSeq(sent, LAMBDA q : q.id # 0)

AnswersTo(r, q) ==
  /\ r.id = q.id
  /\ r.type # "ErrorResponse" =>
       q.type \in DOMAIN ResponseType /\ r.type = ResponseType[q.type]

(* The broker answers the requests of a connection one by one, in the order  *)
(* they were sent, and the client calls the handler of a request at most     *)
(* once, with the response to that very request or with a failure            *)
(* (PLAN.md 178: multiple requests on one connection by correlation id).     *)
AnsweredInKind ==
  /\ Len(answers) <= Len(Framed)
  /\ \A k \in DOMAIN answers : AnswersTo(answers[k], Framed[k])
  /\ \A n \in DOMAIN handled :
       /\ Len(handled[n]) <= 1
       /\ \A i \in DOMAIN handled[n] :
            handled[n][i] # Failure => AnswersTo(handled[n][i], sent[n])

(* Behind a configured token, no call on the broker's runtime is made for a  *)
(* connection before a request with that token was answered on it: every     *)
(* handler's require_auth.                                                   *)
TokenFirst ==
  \A k \in DOMAIN answers :
    answers[k].called /\ setup.auth_required =>
      \E j \in 1..(k - 1) :
        /\ answers[j].type = "AuthResponse"
        /\ Framed[j].payload = Write(encode_auth_request, [token |-> Token])

(* The last metadata request answered before the k-th answer. *)
LastMetadata(k) ==
  {j \in 1..(k - 1) : /\ answers[j].type = "MetadataResponse"
                      /\ \A i \in (j + 1)..(k - 1) :
                           answers[i].type # "MetadataResponse"}

(* Compressed records reach a client, and are taken from one, only when the  *)
(* last metadata request answered on the connection advertised zstd, and     *)
(* only in version 5 (fetch_or_wait, handle_produce_batch).                  *)
ZstdOnlyIfAsked ==
  \A k \in DOMAIN answers :
    \/ answers[k].packed
    \/ /\ answers[k].called /\ Framed[k].type = "ProduceBatchRequest"
       /\ Decode(decode_produce_batch_request, Framed[k].payload).out.codec = 1
    => \E j \in LastMetadata(k) :
         /\ Framed[j].version = 5 /\ Framed[k].version = 5
         /\ Masks(decode_metadata_request(Framed[j].payload).out.supported_codecs,
                  kZstdMask)

(* The payloads that every connection exchanges are written and read by      *)
(* codecs that agree.  It does not depend on the state: one is enough.       *)
PayloadsAgree ==
  sent = <<>> /\ stage = "accept" /\ setup = (CHOOSE s \in Setups : TRUE)
    => CodecAgrees

(* A request made while the client is reading gets its handler called: with  *)
(* a response, or with a failure once the connection is gone.  (One made     *)
(* after a failed read, on a socket still open, may wait for ever.)          *)
MaxScript == Max({Len(s.script) : s \in Setups})

RequestsAnswered ==
  \A n \in 1..MaxScript :
    (n \in DOMAIN sent /\ sent[n].id # 0 /\ sent[n].armed) ~>
      (n \in DOMAIN handled /\ handled[n] # <<>>)
=============================================================================
