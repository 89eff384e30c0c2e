--------------------------------- MODULE Calls ----------------------------------
(***************************************************************************)
(* Remote calls over a connection: rpc and ensure_runtime of the client    *)
(* (src/corex_remote_cuda.c) and serve_session and the accept loop of the  *)
(* server (server/runtime_server.c), with every message of Messages in the *)
(* bytes of Wire. The client's mutex lets one call run at a time, and the  *)
(* server serves one connection at a time. Connections break, either side  *)
(* runs out of memory, and a server may be of an older version. Calls made *)
(* while a stream is captured are the subject of GraphCapture.             *)
(***************************************************************************)
EXTENDS Samples

CONSTANTS
    g_memory_pools_supported,
    MaxConns,       \* how many connections the client opens
    MaxRequests     \* how many requests it sends

VARIABLES
    pc,             \* "idle", waiting for the reply to "hello" or to a "call", or "done"
    g_fd,           \* the connection in use; 0 is none
    g_hello,        \* [state, capabilities]
    g_next_req_id,
    call,           \* the opcode of the call in progress
    args,           \* its arguments
    result,         \* what it returns
    link,           \* the connections, see Link
    server,         \* [conn, phase, header]: what serve_session does
    offers,         \* the version of the server
    served          \* the server's side of the call in progress, see Nothing

caller == <<pc, g_fd, g_hello, g_next_req_id, call, args, result>>

vars == <<pc, g_fd, g_hello, g_next_req_id, call, args, result, link, server, offers, served>>

NoValues == [x \in {} |-> 0]

NoHello == [state |-> "UNDETERMINED", capabilities |-> {}]

NoResult == [error |-> "none", vals |-> NoValues]

\* A connection: the bytes on their way to the server and to the client, the ends
\* that are open, and whether the network still carries anything.
Link(up) == [up |-> up, down |-> <<>>, client |-> TRUE, server |-> TRUE, cut |-> FALSE]

\* ran: a handler ran; understood: it got past its checks of the payload.
Nothing == [id |-> 0, ran |-> FALSE, understood |-> FALSE, vals |-> NoValues,
            status |-> ST_OK, answer |-> NoValues]

NoHeader == [opcode |-> 0, request_id |-> 0, payload_length |-> 0]

Init ==
    /\ pc = "idle" /\ g_fd = 0 /\ g_hello = NoHello /\ g_next_req_id = 1
    /\ call = 0 /\ args = NoValues /\ result = NoResult
    /\ link = <<>>
    /\ server = [conn |-> 0, phase |-> "accept", header |-> NoHeader]
    /\ offers \in {"legacy", "current"}
    /\ served = Nothing

Alive(c) == link[c].client /\ link[c].server /\ ~link[c].cut

---------------------------------------------------------------------------------
(* Messages as bytes.                                                       *)

CRX_REQUEST_HEADER_BYTES == 20
CRX_RESPONSE_HEADER_BYTES == 24

encode_request_header(opcode, id, length) ==
    Encode(RequestHeader, [magic |-> CRX_PROTOCOL_MAGIC, version |-> CRX_PROTOCOL_VERSION,
                           opcode |-> opcode, request_id |-> id, payload_length |-> length])

encode_response_header(opcode, id, status, length) ==
    Encode(ResponseHeader, [magic |-> CRX_PROTOCOL_MAGIC, version |-> CRX_PROTOCOL_VERSION,
                            opcode |-> opcode, request_id |-> id, status |-> status,
                            payload_length |-> length])

Request(opcode, id, payload) == encode_request_header(opcode, id, Len(payload)) \o payload

Response(header, status, payload) ==
    encode_response_header(header.opcode, header.request_id, status, Len(payload)) \o payload

Before(s, n) == SubSeq(s, 1, n)
Behind(s, n) == SubSeq(s, n + 1, Len(s))

---------------------------------------------------------------------------------
(* The client.                                                              *)

Waiting == pc \in {"hello", "call"}

\* What is left of a connection one end of which is closed. Closing it with bytes
\* unread resets the connection, which may take away what the other end has not
\* read yet.
ClosedByClient(l) ==
    {[l EXCEPT !.client = FALSE, !.down = <<>>, !.up = up] :
        up \in IF l.down = <<>> THEN {l.up} ELSE {l.up, <<>>}}

ClosedByServer(l) ==
    {[l EXCEPT !.server = FALSE, !.up = <<>>, !.down = down] :
        down \in IF l.up = <<>> THEN {l.down} ELSE {l.down, <<>>}}

\* The bytes of a request, if the connection still takes them.
Send(c, bytes) ==
    link' = IF Alive(c) THEN [link EXCEPT ![c].up = @ \o bytes] ELSE link

\* ensure_runtime connects and says HELLO.
Connect ==
    /\ pc = "idle" /\ g_fd = 0
    /\ Len(link) < MaxConns /\ g_next_req_id <= MaxRequests
    /\ link' = Append(link, Link(Request(OP_HELLO, g_next_req_id, <<>>)))
    /\ pc' = "hello" /\ g_fd' = Len(link') /\ g_hello' = NoHello
    /\ call' = OP_HELLO /\ args' = NoValues /\ g_next_req_id' = g_next_req_id + 1
    /\ UNCHANGED <<result, server, offers, served>>

CRX_CAP_MEMORY_POOLS == 8
CRX_CAP_GRAPHS == 9
CRX_CAP_FUNCTION_INFO == 10

\* pool_runtime_locked, graph_runtime_locked and remote_function_attributes ask for
\* the capability first.
Announced(op) ==
    /\ op \in 75 .. 87 => CRX_CAP_MEMORY_POOLS \in g_hello.capabilities
    /\ op \in 88 .. 91 => CRX_CAP_GRAPHS \in g_hello.capabilities
    /\ op = 92 => CRX_CAP_FUNCTION_INFO \in g_hello.capabilities
    /\ op = 37 => CRX_CAP_FUNCTION_INFO \notin g_hello.capabilities

Issue ==
    /\ pc = "idle" /\ g_fd # 0 /\ g_next_req_id <= MaxRequests
    /\ \E op \in DOMAIN call_of :
        /\ Announced(op)
        /\ \E vals \in ArgumentsOf[op] :
            /\ pc' = "call" /\ call' = op /\ args' = vals
            /\ g_next_req_id' = g_next_req_id + 1
            /\ Send(g_fd, Request(op, g_next_req_id, Encode(call_of[op].request, vals)))
    /\ UNCHANGED <<g_fd, g_hello, result, server, offers, served>>

\* mark_session_failed_locked: the connection is given up. The close at the end of
\* corexRemoteRuntimeShutdown_locked does the same to it.
mark_session_failed ==
    /\ g_fd' = 0 /\ g_hello' = NoHello
    /\ \E l \in ClosedByClient(link[g_fd]) : link' = [link EXCEPT ![g_fd] = l]

Finish(error, vals) ==
    /\ pc' = "done" /\ result' = [error |-> error, vals |-> vals]
    /\ UNCHANGED <<g_next_req_id, call, args, server, offers, served>>

TransportError ==
    /\ mark_session_failed
    /\ Finish(IF pc = "hello" THEN "InitializationError" ELSE "Unknown", NoValues)

map_last_rpc_error(status) ==
    CASE status \in {ST_BAD_REQUEST, ST_ABI_MISMATCH, ST_METADATA_ERROR} -> "InvalidValue"
      [] status = ST_NOT_FOUND -> "InvalidResourceHandle"
      [] status = ST_INVALID_DEVICE -> "InvalidDevice"
      [] status = ST_SYMBOL_NOT_FOUND -> "SymbolNotFound"
      [] status = ST_NOT_SUPPORTED -> "NotSupported"
      [] status = ST_NO_RESOURCE -> "MemoryAllocation"
      [] OTHER -> "fallback"

Down == link[g_fd].down

ReplyHeader == Decode(ResponseHeader, Before(Down, CRX_RESPONSE_HEADER_BYTES), NoValues)

HasHeader == Waiting /\ Len(Down) >= CRX_RESPONSE_HEADER_BYTES

HasReply ==
    /\ HasHeader
    /\ Len(Down) >= CRX_RESPONSE_HEADER_BYTES + ReplyHeader.vals.payload_length

CRX_HELLO_MAX_BYTES == (11 + 32) * 4

Matches(h) ==
    /\ h.ok
    /\ h.vals.opcode = call /\ h.vals.request_id = g_next_req_id - 1
    /\ call = OP_HELLO => /\ h.vals.payload_length <= CRX_HELLO_MAX_BYTES
                          /\ h.vals.status = ST_OK \/ h.vals.payload_length = 0

Consumed(n) == link' = [link EXCEPT ![g_fd].down = Behind(@, n)]

\* The reply to HELLO: negotiated, or a server that does not know it, or a failure.
ReceiveHello(h, payload) ==
    LET hello_out == Decode(HelloReply, payload, NoValues)
    IN  IF h.status = ST_BAD_REQUEST \/ (h.status = ST_OK /\ hello_out.ok)
        THEN /\ g_hello' = IF h.status = ST_OK
                          THEN [state |-> "NEGOTIATED",
                                capabilities |-> Range(hello_out.vals.capabilities)]
                          ELSE [state |-> "LEGACY_V3", capabilities |-> {}]
             /\ pc' = "idle" /\ call' = 0 /\ served' = Nothing
             /\ Consumed(CRX_RESPONSE_HEADER_BYTES + h.payload_length)
             /\ UNCHANGED <<g_fd, g_next_req_id, args, result, server, offers>>
        ELSE TransportError

\* Fault: a reply without a payload is taken for success whatever its status.
StatusIgnored(h, payload) ==
    LET out == Decode(call_of[call].response, payload, args)
    IN  /\ Consumed(CRX_RESPONSE_HEADER_BYTES + h.payload_length)
        /\ IF out.ok THEN Finish("Success", out.vals)
           ELSE Finish(map_last_rpc_error(h.status), NoValues)
        /\ UNCHANGED <<g_fd, g_hello>>

\* The reply to any other call. The one to CLOSE is followed by the close of the
\* socket.
ReceiveReply(h, payload) ==
    LET out == Decode(call_of[call].response, payload, args)
    IN  /\ IF call = OP_CLOSE THEN mark_session_failed
           ELSE /\ Consumed(CRX_RESPONSE_HEADER_BYTES + h.payload_length)
                /\ UNCHANGED <<g_fd, g_hello>>
        /\ IF h.status # ST_OK THEN Finish(map_last_rpc_error(h.status), NoValues)
           ELSE IF out.ok THEN Finish("Success", out.vals)
           ELSE Finish("fallback", NoValues)

Receive ==
    /\ HasReply
    /\ LET h == ReplyHeader
           payload == Before(Behind(Down, CRX_RESPONSE_HEADER_BYTES), h.vals.payload_length)
       IN  IF ~Matches(h) THEN TransportError
           ELSE IF pc = "hello" THEN ReceiveHello(h.vals, payload)
           ELSE ReceiveReply(h.vals, payload)

\* There is no memory for the payload of the reply.
ResponseAllocationFails ==
    /\ HasHeader
    /\ ReplyHeader.vals.payload_length > 0
    /\ TransportError

\* The request cannot be sent, or the connection ends before the reply is there.
TransportFails ==
    /\ Waiting
    /\ ~Alive(g_fd)
    /\ ~HasReply
    /\ TransportError

\* The call returns to the application.
Return ==
    /\ pc = "done"
    /\ pc' = "idle" /\ call' = 0 /\ args' = NoValues /\ result' = NoResult /\ served' = Nothing
    /\ UNCHANGED <<g_fd, g_hello, g_next_req_id, link, server, offers>>

---------------------------------------------------------------------------------
(* The server.                                                              *)

Up == link[server.conn].up

Accept ==
    /\ server.phase = "accept" /\ server.conn < Len(link)
    /\ server' = [server EXCEPT !.conn = @ + 1, !.phase = "header"]
    /\ UNCHANGED <<caller, link, offers, served>>

\* There is no memory for the session: the connection is closed at once.
SessionAllocFails ==
    /\ server.phase = "accept" /\ server.conn < Len(link)
    /\ server' = [server EXCEPT !.conn = @ + 1]
    /\ \E l \in ClosedByServer(link[server.conn + 1]) :
           link' = [link EXCEPT ![server.conn + 1] = l]
    /\ UNCHANGED <<caller, offers, served>>

\* Fault: the session ends but its socket stays open.
SocketLeftOpen(l) ==
    /\ link' = [link EXCEPT ![server.conn] = l]
    /\ server' = [server EXCEPT !.phase = "accept", !.header = NoHeader]

\* serve_session returns and main closes the socket; l is the connection as the
\* session leaves it.
EndSession(l) ==
    /\ \E closed \in ClosedByServer(l) : link' = [link EXCEPT ![server.conn] = closed]
    /\ server' = [server EXCEPT !.phase = "accept", !.header = NoHeader]

\* How many bytes serve_session waits for.
Wanted == IF server.phase = "header" THEN CRX_REQUEST_HEADER_BYTES ELSE server.header.payload_length

\* The connection ends before a whole header or payload is there.
NoMoreInput ==
    /\ server.phase # "accept"
    /\ ~Alive(server.conn)
    /\ Len(Up) < Wanted
    /\ EndSession(link[server.conn])
    /\ UNCHANGED <<caller, offers, served>>

\* A header that is not one, or announces too long a payload, ends the session.
ReadHeader ==
    LET h == Decode(RequestHeader, Before(Up, CRX_REQUEST_HEADER_BYTES), NoValues)
        rest == [link[server.conn] EXCEPT !.up = Behind(@, CRX_REQUEST_HEADER_BYTES)]
    IN  /\ server.phase = "header"
        /\ Len(Up) >= Wanted
        /\ IF ~h.ok \/ h.vals.payload_length > MAX_PAYLOAD THEN EndSession(rest)
           ELSE /\ server' = [server EXCEPT !.phase = "payload",
                                  !.header = [x \in DOMAIN NoHeader |-> h.vals[x]]]
                /\ link' = [link EXCEPT ![server.conn] = rest]
        /\ UNCHANGED <<caller, offers, served>>

\* The connection with a response on its way.
Sent(l, bytes) == IF l.client /\ ~l.cut THEN [l EXCEPT !.down = @ \o bytes] ELSE l

\* The server's side of the call in progress is remembered.
Remember(s) ==
    served' = IF Waiting /\ s.id = g_next_req_id - 1 THEN s ELSE served

\* Fault: the session goes on after the refusal, in the middle of the request.
RefuseAndGoOn ==
    /\ server.phase = "payload" /\ server.header.payload_length > 0
    /\ link' = [link EXCEPT ![server.conn] = Sent(@, Response(server.header, ST_INTERNAL, <<>>))]
    /\ server' = [server EXCEPT !.phase = "header", !.header = NoHeader]
    /\ Remember([Nothing EXCEPT !.id = server.header.request_id, !.status = ST_INTERNAL])
    /\ UNCHANGED <<caller, offers>>

\* There is no memory for the payload: the request is refused, and the session ends
\* with the payload unread.
PayloadAllocFails ==
    /\ server.phase = "payload" /\ server.header.payload_length > 0
    /\ EndSession(Sent(link[server.conn], Response(server.header, ST_INTERNAL, <<>>)))
    /\ Remember([Nothing EXCEPT !.id = server.header.request_id, !.status = ST_INTERNAL])
    /\ UNCHANGED <<caller, offers>>

\* The opcodes that have a handler. An older server is taken to be this one without
\* HELLO and without the calls that ask for a capability.
Handlers == IF offers = "legacy" THEN {op \in DOMAIN g_handlers : op < 75 /\ op # OP_HELLO}
            ELSE DOMAIN g_handlers

\* The handlers' own checks of the region: of decode_2d,
AdmitsCopy2D(v) ==
    /\ v.width # 0 /\ v.height # 0 /\ v.dst_pitch # 0 /\ v.src_pitch # 0
    /\ v.width <= v.dst_pitch /\ v.width <= v.src_pitch
    /\ v.mode \in {1, 3} => v.dst # 0
    /\ v.mode \in {2, 3} => v.src # 0
    /\ v.dst # 0 => decode_2d_dst(alloc_size(v.dst), v.dst_offset, v.dst_pitch, v.width, v.height)
    /\ v.src # 0 => decode_2d_src(alloc_size(v.src), v.src_offset, v.src_pitch, v.width, v.height)

\* of handle_memset_2d,
AdmitsFill2D(v) == valid_2d_rows(alloc_size(v.allocation), v.offset, v.pitch, v.width, v.height)

\* of handle_memcpy_2d_host_async,
AdmitsTransfer2D(v) ==
    /\ valid_2d_rows(alloc_size(v.allocation), v.offset, v.pitch, v.width, v.height)
    /\ v.width <= U64_MAX \div v.height
    /\ v.width * v.height <= U32_MAX

\* of handle_memcpy_3d,
AdmitsCopy3D(v) ==
    /\ v.width # 0 /\ v.height # 0 /\ v.depth # 0
    /\ v.width <= U64_MAX \div v.height /\ v.width * v.height <= U64_MAX \div v.depth
    /\ v.width * v.height * v.depth <= U32_MAX
    /\ v.mode \in {1, 3, 4} =>
           /\ v.dst # 0
           /\ valid_3d_allocation(alloc_size(v.dst), v.dst_offset, v.dst_pitch, v.dst_slice,
                                  v.width, v.height, v.depth)
    /\ v.mode \in {2, 3, 5} =>
           /\ v.src # 0
           /\ valid_3d_allocation(alloc_size(v.src), v.src_offset, v.src_pitch, v.src_slice,
                                  v.width, v.height, v.depth)

\* and of handle_memset_3d.
AdmitsFill3D(v) ==
    /\ v.value < Radix
    /\ v.width # 0 /\ v.height # 0 /\ v.depth # 0
    /\ valid_3d_allocation(alloc_size(v.allocation), v.offset, v.pitch, v.slice,
                           v.width, v.height, v.depth)

Admits(check, v) ==
    CASE check = "copy_2d" -> AdmitsCopy2D(v)
      [] check = "fill_2d" -> AdmitsFill2D(v)
      [] check = "transfer_2d" -> AdmitsTransfer2D(v)
      [] check = "copy_3d" -> AdmitsCopy3D(v)
      [] check = "fill_3d" -> AdmitsFill3D(v)
      [] OTHER -> TRUE

\* What handle_hello announces.
hello_values ==
    [magic |-> CRX_PROTOCOL_MAGIC, version |-> CRX_PROTOCOL_VERSION,
     schema |-> CRX_HELLO_SCHEMA_VERSION, server_major |-> 1, server_minor |-> 1,
     server_patch |-> 0, backend_id |-> 1, backend_version |-> 3, device_count |-> 1,
     device_profile_id |-> 1,
     capabilities |-> <<1, 2, 3, 4, 5, 6, 7, CRX_CAP_GRAPHS, CRX_CAP_FUNCTION_INFO>>
                      \o IF g_memory_pools_supported THEN <<CRX_CAP_MEMORY_POOLS>> ELSE <<>>]

\* The values a handler may answer with. A transfer has the bytes it was submitted
\* with, which need not be what the client expects.
Answers(handler, v) ==
    LET layout == handler.response
        needed == {"mode"} \union {f.name : f \in {f \in Range(layout) : f.echo}}
                  \union UNION {Range(f.dims) : f \in Range(layout)}
        Given(seed) == [x \in needed \intersect DOMAIN v |-> v[x]]
                       @@ [entry_bytes |-> <<3, 0>>[seed + 1]]
    IN  IF handler.op = OP_HELLO THEN {hello_values}
        ELSE IF handler.check # "none" THEN {Filled(layout, 0, Given(0))}
        ELSE {Filled(layout, seed, Given(seed)) : seed \in IF layout = <<>> THEN {0} ELSE Seeds}

\* The request is answered: by the length check of the schema, for want of a
\* handler, or by the handler.
Serve ==
    LET h == server.header
        op == h.opcode
        payload == Before(Up, h.payload_length)
        rest == [link[server.conn] EXCEPT !.up = Behind(@, h.payload_length)]
        known == op \in Handlers /\ corex_generated_validate_payload(op, h.payload_length)
        in == Decode(g_handlers[op].request, payload, NoValues)
        understood == known /\ in.ok /\ Admits(g_handlers[op].check, in.vals)
        Reply(status, bytes, s) ==
            /\ IF op = OP_CLOSE /\ h.payload_length = 0
               THEN EndSession(Sent(rest, Response(h, status, bytes)))
               ELSE /\ link' = [link EXCEPT ![server.conn] = Sent(rest, Response(h, status, bytes))]
                    /\ server' = [server EXCEPT !.phase = "header", !.header = NoHeader]
            /\ Remember([s EXCEPT !.id = h.request_id, !.ran = known, !.status = status])
    IN  /\ server.phase = "payload"
        /\ Len(Up) >= Wanted
        /\ IF ~understood THEN Reply(ST_BAD_REQUEST, <<>>, Nothing)
           ELSE \/ \E status \in g_handlers[op].refuses :
                      Reply(status, <<>>, [Nothing EXCEPT !.understood = TRUE, !.vals = in.vals])
                \/ \E answer \in Answers(g_handlers[op], in.vals) :
                      Reply(ST_OK, Encode(g_handlers[op].response, answer @@ in.vals),
                            [Nothing EXCEPT !.understood = TRUE, !.vals = in.vals,
                                            !.answer = answer])
        /\ UNCHANGED <<caller, offers>>

---------------------------------------------------------------------------------
(* The network. Of a request there still arrives nothing, the header or the *)
(* whole; of a reply nothing or the whole, since the client gives up alike  *)
(* on a part of it.                                                         *)

Cut ==
    /\ \E c \in DOMAIN link :
        /\ Alive(c)
        /\ \E n \in {0, CRX_REQUEST_HEADER_BYTES, Len(link[c].up)},
              m \in {0, Len(link[c].down)} :
            /\ n <= Len(link[c].up)
            /\ link' = [link EXCEPT ![c].cut = TRUE, ![c].up = Before(@, n),
                                                      ![c].down = Before(@, m)]
    /\ UNCHANGED <<caller, server, offers, served>>

---------------------------------------------------------------------------------

Application == Connect \/ Issue \/ Return

Client == Receive \/ ResponseAllocationFails \/ TransportFails

Server == Accept \/ SessionAllocFails \/ NoMoreInput \/ ReadHeader \/ PayloadAllocFails \/ Serve

Next == Application \/ Client \/ Server \/ Cut

Spec == Init /\ [][Next]_vars

---------------------------------------------------------------------------------
(* Properties.                                                              *)

\* The fields that are there, of a message with these values.
FieldsOf(layout, vals) ==
    {f.name : f \in {f \in Range(layout) : f.type # "rest" /\ Present(f, vals)}}

\* What the client's checks let through and the server's do not: a single row whose
\* pitch and width together are beyond a u64, at the destination of a copy, and a
\* three-dimensional copy or a two-dimensional transfer to the host of more bytes
\* than a u32 can count.
ServerIsStricter(op, v) ==
    \/ op \in {50, 51} /\ v.dst # 0 /\ v.height = 1 /\ v.dst_pitch > U64_MAX - v.width
    \/ op \in {55, 56, 58} /\ RegionBytes(v) > U32_MAX

\* The handler of every call sees the very values the application's call passed:
\* what the client's encoders write is what the server's decoders read, field by
\* field. The server never turns such a request away as malformed or unknown, nor
\* does it, for a two- or three-dimensional copy or fill, refuse a region that the
\* client's own check found to be inside the allocation, except in the cases of
\* ServerIsStricter. In those cases it always refuses.
RequestArrives ==
    (call \in DOMAIN call_of /\ (served.ran \/ served.status = ST_BAD_REQUEST)) =>
        IF call \in RegionCalls /\ ServerIsStricter(call, args)
        THEN ~served.understood /\ served.status = ST_BAD_REQUEST
        ELSE /\ served.understood
             /\ served.vals = [x \in FieldsOf(call_of[call].request, args) |-> args[x]]

\* A call returns what the server did for it and nothing else: on success the values
\* of the handler's answer to this very request, after a refusal the error for the
\* status of that refusal. A reply that cannot be used is an error only when a
\* transfer has not the length the client expects. A call that cannot know has
\* given up the session.
ReplyMatches ==
    pc = "done" =>
        CASE result.error = "Success" ->
                /\ served.ran /\ served.status = ST_OK
                /\ \A x \in FieldsOf(call_of[call].response, args) :
                       result.vals[x] = (served.answer @@ served.vals)[x]
          [] result.error \in {"Unknown", "InitializationError"} -> g_fd = 0
          [] OTHER ->
                /\ served.id = g_next_req_id - 1
                /\ IF served.status # ST_OK THEN result.error = map_last_rpc_error(served.status)
                   ELSE args.expected_bytes # served.answer.entry_bytes

\* Between calls nothing is left over on a connection that is still up: no byte is
\* on its way in either direction, and the server is about to read a header. This
\* is what lets the next reply belong to the next request, after refusals, replies
\* of an unexpected length and failed allocations alike.
StreamInSync ==
    (pc = "idle" /\ g_fd # 0 /\ Alive(g_fd)) =>
        /\ link[g_fd].up = <<>> /\ link[g_fd].down = <<>>
        /\ server.conn = g_fd => server.phase = "header"

\* Client and server never wait for each other: while a call waits, one of the two
\* can go on, because the reply is there, or the request is, or the end of the
\* connection can be seen. That holds too when the session has ended on the
\* server's side, and when the server is still busy with the connection before this
\* one. Every such step takes bytes away or ends a session, so the call returns.
NobodyStuck ==
    Waiting =>
        \/ HasReply \/ ~Alive(g_fd)
        \/ IF server.phase = "accept" THEN server.conn < Len(link)
           ELSE ~Alive(server.conn) \/ Len(Up) >= Wanted

=================================================================================
