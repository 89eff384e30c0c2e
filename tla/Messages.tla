-------------------------------- MODULE Messages --------------------------------
(***************************************************************************)
(* The messages of the protocol, each side taken from its own source: what *)
(* a remote_* function of the client sends and what it makes of the reply  *)
(* (src/corex_remote_cuda.c), and what a handle_* function of the server   *)
(* takes apart, with what it may refuse the request and what it answers    *)
(* (server/runtime_server.c). Only the names of the fields are shared;     *)
(* order, widths and lengths are those of either side. What the handlers   *)
(* do to the session is the subject of the other modules.                  *)
(***************************************************************************)
EXTENDS ApiSchema

ST_OK == 0
ST_BAD_REQUEST == 1
ST_NOT_FOUND == 2
ST_CUDA_ERROR == 3
ST_INTERNAL == 4
ST_NO_RESOURCE == 5
ST_ABI_MISMATCH == 6
ST_METADATA_ERROR == 7
ST_INVALID_DEVICE == 8
ST_SYMBOL_NOT_FOUND == 9
ST_NOT_SUPPORTED == 10

OP_CLOSE == 7
OP_HELLO == 27

\* The magic word "CRX9", as a number that four bytes of the model hold.
CRX_PROTOCOL_MAGIC == U32_MAX - 9
CRX_PROTOCOL_VERSION == 3
CRX_HELLO_SCHEMA_VERSION == 1

\* Fields of one type in a row.
All(Type(_), names) == [i \in DOMAIN names |-> Type(names[i])]

Preamble == <<Only(U32("magic"), {CRX_PROTOCOL_MAGIC}),
              Only(U32("version"), {CRX_PROTOCOL_VERSION})>>

RequestHeader == Preamble \o All(U32, <<"opcode", "request_id", "payload_length">>)
ResponseHeader == Preamble \o All(U32, <<"opcode", "request_id", "status", "payload_length">>)

HelloReply ==
    Preamble
    \o <<Only(U32("schema"), {CRX_HELLO_SCHEMA_VERSION})>>
    \o All(U32, <<"server_major", "server_minor", "server_patch", "backend_id", "backend_version">>)
    \o <<AtLeast(U32("device_count"), 1), U32("device_profile_id"), Words("capabilities", 32)>>

---------------------------------------------------------------------------------
(* The client's calls.                                                      *)

Rpc(op, request, response) == [op |-> op, request |-> request, response |-> response]

\* A call that does not look at the payload of the reply.
Quiet(op, request) == Rpc(op, request, <<Rest>>)

\* A call through corex_generated_call_*.
generated_rpc_call(api) == Rpc(api.opcode, api.request, api.response)

hello == Rpc(OP_HELLO, <<>>, HelloReply)

remote_alloc == Rpc(1, <<AtLeast(U64("bytes"), 1)>>, <<U64("allocation")>>)

remote_alloc_pitched ==
    Rpc(49, <<AtLeast(U64("width"), 1), AtLeast(U64("height"), 1)>>,
        <<U64("allocation"), U64("pitch"), U64("bytes")>>)

Rectangle(modes) ==
    <<Only(U32("mode"), modes)>>
    \o All(U64, <<"dst", "dst_offset", "dst_pitch", "src", "src_offset", "src_pitch",
                  "width", "height">>)

remote_memcpy2d ==
    Rpc(50, Rectangle({1, 2, 3}) \o <<When(Data("data", <<"width", "height">>), {1})>>,
        <<When(Data("out", <<"width", "height">>), {2}), When(Rest, {1, 3})>>)

remote_memcpy2d_async_d2d == Quiet(51, Rectangle({3}) \o <<U64("stream")>>)

Rows == All(U64, <<"allocation", "offset", "pitch", "width", "height">>)

remote_memset2d == Quiet(52, Rows \o <<Only(U32("value"), 0 .. Radix - 1)>>)

remote_memcpy2d_h2d_async ==
    Rpc(57, Rows \o <<U64("stream"), Data("data", <<"width", "height">>)>>, <<U64("transfer")>>)

remote_memcpy2d_d2h_async == Rpc(58, Rows \o <<U64("stream")>>, <<U64("transfer")>>)

Box == All(U64, <<"dst", "dst_offset", "dst_pitch", "dst_slice",
                  "src", "src_offset", "src_pitch", "src_slice", "width", "height", "depth">>)

Volume == <<"width", "height", "depth">>

\* An asynchronous copy from or to the host has the modes CRX_MEMCPY3D_H2D_SUBMIT
\* (4) and CRX_MEMCPY3D_D2H_SUBMIT (5); its reply names the transfer.
remote_memcpy3d(async) ==
    Rpc(IF async THEN 56 ELSE 55,
        <<Only(U32("mode"), IF async THEN {3, 4, 5} ELSE {1, 2, 3})>> \o Box
            \o (IF async THEN <<U64("stream")>> ELSE <<>>)
            \o <<When(Data("data", Volume), {1, 4})>>,
        <<When(AtLeast(U64("transfer"), 1), {4, 5}), When(Data("out", Volume), {2})>>)

remote_free == Quiet(6, <<U64("allocation")>>)

remote_version_query(op) == Rpc(op, <<>>, <<I32("version")>>)

\* The answer of servers without FUNCTION_INFO: three sizes and four ints.
remote_function_attributes ==
    Rpc(37, <<U64("kernel")>>,
        All(U32, <<"shared_bytes", "const_bytes", "local_bytes">>)
        \o All(I32, <<"registers", "ptx_version", "binary_version", "max_threads">>))

remote_occupancy ==
    Rpc(38, <<U64("kernel"), I32("block_size"), U64("dynamic_shared")>>, <<I32("blocks")>>)

Linear == All(U64, <<"allocation", "offset", "bytes">>)

remote_h2d == Quiet(2, Linear \o <<Data("data", <<"bytes">>)>>)

remote_d2h == Rpc(5, Linear, <<Data("out", <<"bytes">>)>>)

Pair == All(U64, <<"dst", "dst_offset", "src", "src_offset", "bytes">>)

remote_d2d == Quiet(28, Pair)

remote_d2d_async == Quiet(54, Pair \o <<U64("stream")>>)

Fill == <<U64("allocation"), U64("offset"), Only(U32("value"), 0 .. Radix - 1), U64("bytes")>>

remote_memset == Quiet(29, Fill)

remote_memset_async == Quiet(30, Fill \o <<U64("stream")>>)

remote_upload_module_bytes(op) ==
    Rpc(op, <<AtLeast(Bytes("name", 127), 1), AtLeast(U64("image_size"), 1),
              Data("image", <<"image_size">>)>>,
        <<U64("module")>>)

remote_get_kernel == Rpc(9, <<U64("module"), AtLeast(Bytes("name", 127), 1)>>, <<U64("kernel")>>)

remote_unload_module == Quiet(10, <<U64("module")>>)

remote_create_stream_flags == Rpc(12, <<U32("flags")>>, <<U64("stream")>>)

remote_create_stream_priority == Rpc(32, <<U32("flags"), I32("priority")>>, <<U64("stream")>>)

remote_stream_get_flags == Rpc(31, <<U64("stream")>>, <<U32("flags")>>)

remote_stream_get_priority == Rpc(33, <<U64("stream")>>, <<I32("priority")>>)

remote_destroy_stream == Quiet(13, <<U64("stream")>>)

remote_stream_sync == Quiet(15, <<U64("stream")>>)

\* remote_create_event asks for flags 0, remote_create_event_flags for 0, 1 or 2.
remote_create_event_flags == Rpc(16, <<Only(U32("flags"), {0, 1, 2})>>, <<U64("event")>>)

remote_event_elapsed == Rpc(34, <<U64("start"), U64("end")>>, <<U32("bits")>>)

remote_destroy_event == Quiet(17, <<U64("event")>>)

remote_event_record == Quiet(18, <<U64("event"), U64("stream")>>)

remote_event_sync == Quiet(20, <<U64("event")>>)

remote_stream_wait_event == Quiet(21, <<U64("stream"), U64("event"), Only(U32("flags"), {0})>>)

Submitted == <<U64("allocation"), U64("offset"), U64("stream"), AtLeast(U64("bytes"), 1)>>

remote_h2d_async_submit == Rpc(22, Submitted \o <<Data("data", <<"bytes">>)>>, <<U64("transfer")>>)

remote_d2h_async_submit == Rpc(23, Submitted, <<U64("transfer")>>)

remote_transfer_query == Rpc(24, <<U64("transfer")>>, <<U32("state")>>)

\* The caller knows how many bytes the transfer has; they are not sent.
remote_transfer_wait == Rpc(25, <<U64("transfer")>>, <<Data("out", <<"expected_bytes">>)>>)

remote_get_device_info ==
    Rpc(26, <<U32("device")>>,
        <<Only(U32("dto_version"), {1}), Echo(U32("device")), Array("name", 256)>>
        \o All(U64, <<"total_global_mem", "free_mem", "shared_mem_per_block">>)
        \o <<U32("regs_per_block"), U32("warp_size"), U64("mem_pitch"),
             U32("max_threads_per_block")>>
        \o All(U32, <<"max_threads_dim_x", "max_threads_dim_y", "max_threads_dim_z",
                      "max_grid_size_x", "max_grid_size_y", "max_grid_size_z", "clock_rate">>)
        \o <<U64("total_const_mem"), U32("major"), U32("minor"), U64("texture_alignment")>>
        \o All(U32, <<"device_overlap", "multi_processor_count", "kernel_exec_timeout",
                      "integrated", "can_map_host_memory", "compute_mode", "concurrent_kernels",
                      "ecc_enabled", "pci_bus_id", "pci_device_id", "tcc_driver",
                      "memory_clock_rate", "memory_bus_width", "l2_cache_size",
                      "max_threads_per_mp", "async_engine_count", "unified_addressing">>))

Dimensions == <<"grid_x", "grid_y", "grid_z", "block_x", "block_y", "block_z">>

serialize_kernel_launch ==
    Quiet(11, <<U64("kernel"), U64("stream")>> \o All(LAMBDA n : AtLeast(U32(n), 1), Dimensions)
              \o <<U32("shared_mem"), Arguments("args", 32)>>)

close_request == Quiet(OP_CLOSE, <<>>)

\* The calls through the generated wrappers; two versions and one occupancy call
\* of the schema are asked for by functions of their own.
generated_calls ==
    {generated_rpc_call(api) : api \in {a \in corex_generated_apis : a.opcode \notin {35, 36, 38}}}

client_calls ==
    {remote_alloc, remote_alloc_pitched, remote_memcpy2d, remote_memcpy2d_async_d2d,
     remote_memset2d, remote_memcpy2d_h2d_async, remote_memcpy2d_d2h_async,
     remote_memcpy3d(FALSE), remote_memcpy3d(TRUE), remote_free, remote_version_query(35),
     remote_version_query(36), remote_function_attributes, remote_occupancy, remote_h2d,
     remote_d2h, remote_d2d, remote_d2d_async, remote_memset, remote_memset_async,
     remote_upload_module_bytes(8), remote_upload_module_bytes(70), remote_get_kernel,
     remote_unload_module, remote_create_stream_flags, remote_create_stream_priority,
     remote_stream_get_flags, remote_stream_get_priority, remote_destroy_stream,
     remote_stream_sync, remote_create_event_flags, remote_event_elapsed,
     remote_destroy_event, remote_event_record, remote_event_sync,
     remote_stream_wait_event, remote_h2d_async_submit, remote_d2h_async_submit,
     remote_transfer_query, remote_transfer_wait, remote_get_device_info,
     serialize_kernel_launch, close_request}
    \union generated_calls

\* The call an opcode stands for: no two calls share one.
call_of == [op \in {c.op : c \in client_calls} |-> CHOOSE c \in client_calls : c.op = op]

---------------------------------------------------------------------------------
(* The server's handlers. Every one of them answers ST_BAD_REQUEST to a     *)
(* payload it cannot take apart and, where there are any, to values it does *)
(* not take; "refuses" has the statuses it may answer to a payload it can   *)
(* take apart. "check" names the test of a region it makes.                 *)

Handler(op, request, response, refuses) ==
    [op |-> op, request |-> request, response |-> response,
     refuses |-> refuses \union (IF request = <<>> THEN {} ELSE {ST_BAD_REQUEST}),
     check |-> "none"]

Checking(check, handler) == [handler EXCEPT !.check = check]

\* A handler that uses the decoder and the encoder generated for the API.
Serves(api, refuses) == Handler(api.opcode, api.request, api.response, refuses)

\* What pool_status makes of a driver's result.
pool_status == {ST_NOT_SUPPORTED, ST_NO_RESOURCE, ST_CUDA_ERROR}

handle_hello == Handler(OP_HELLO, <<>>, HelloReply, {ST_INTERNAL})

handle_alloc ==
    Handler(1, <<AtLeast(U64("bytes"), 1)>>,
            <<U64("allocation")>>, {ST_CUDA_ERROR, ST_NO_RESOURCE})

handle_alloc_pitched ==
    Handler(49, <<AtLeast(U64("width"), 1), AtLeast(U64("height"), 1)>>,
            <<U64("allocation"), U64("pitch"), U64("bytes")>>, {ST_CUDA_ERROR, ST_NO_RESOURCE})

decode_2d ==
    <<U32("mode")>>
    \o All(U64, <<"dst", "dst_offset", "dst_pitch", "src", "src_offset", "src_pitch",
                  "width", "height">>)

handle_memcpy_2d_sync_entry ==
    Checking("copy_2d",
        Handler(50, decode_2d \o <<When(Data("data", <<"width", "height">>), {1})>>,
                <<When(Data("out", <<"width", "height">>), {2})>>, {ST_CUDA_ERROR, ST_INTERNAL}))

handle_memcpy_2d_async ==
    Checking("copy_2d",
        Handler(51, decode_2d \o <<U64("stream"), When(Data("data", <<"width", "height">>), {1})>>,
                <<When(Data("out", <<"width", "height">>), {2})>>, {ST_CUDA_ERROR, ST_INTERNAL}))

decode_rows == All(U64, <<"allocation", "offset", "pitch", "width", "height">>)

handle_memset_2d_sync_entry ==
    Checking("fill_2d", Handler(52, decode_rows \o <<U32("value")>>, <<>>, {ST_CUDA_ERROR}))

handle_memset_2d_async ==
    Checking("fill_2d",
        Handler(53, decode_rows \o <<U32("value"), U64("stream")>>,
                <<>>, {ST_CUDA_ERROR}))

decode_3d(modes) ==
    <<Only(U32("mode"), modes)>>
    \o All(U64, <<"dst", "dst_offset", "dst_pitch", "dst_slice",
                  "src", "src_offset", "src_pitch", "src_slice", "width", "height", "depth">>)

handle_memcpy_3d_sync_entry ==
    Checking("copy_3d",
        Handler(55, decode_3d({1, 2, 3}) \o <<When(Data("data", Volume), {1})>>,
                <<When(Data("out", Volume), {2})>>,
                {ST_NO_RESOURCE, ST_CUDA_ERROR, ST_INTERNAL}))

handle_memcpy_3d_async_entry ==
    Checking("copy_3d",
        Handler(56, decode_3d(1 .. 5) \o <<U64("stream"), When(Data("data", Volume), {1, 4})>>,
                <<When(U64("transfer"), {4, 5}), When(Data("out", Volume), {2})>>,
                {ST_NO_RESOURCE, ST_CUDA_ERROR, ST_INTERNAL}))

handle_memcpy_2d_h2d_async ==
    Checking("transfer_2d",
        Handler(57, decode_rows \o <<U64("stream"), Data("data", <<"width", "height">>)>>,
                <<U64("transfer")>>, {ST_NO_RESOURCE, ST_CUDA_ERROR}))

handle_memcpy_2d_d2h_async ==
    Checking("transfer_2d",
        Handler(58, decode_rows \o <<U64("stream")>>,
                <<U64("transfer")>>, {ST_NO_RESOURCE, ST_CUDA_ERROR}))

handle_h2d ==
    Handler(2, <<U64("allocation"), U64("offset"), U64("bytes"), Data("data", <<"bytes">>)>>,
            <<>>, {ST_CUDA_ERROR, ST_NOT_FOUND})

handle_d2h ==
    Handler(5, <<U64("allocation"), U64("offset"), U64("bytes")>>,
            <<Data("out", <<"bytes">>)>>, {ST_CUDA_ERROR, ST_INTERNAL, ST_NOT_FOUND})

handle_d2d ==
    Handler(28, All(U64, <<"dst", "dst_offset", "src", "src_offset", "bytes">>),
            <<>>, {ST_CUDA_ERROR, ST_NOT_FOUND})

handle_d2d_async ==
    Handler(54, All(U64, <<"dst", "dst_offset", "src", "src_offset", "bytes", "stream">>),
            <<>>, {ST_CUDA_ERROR})

decode_memset_payload ==
    <<U64("allocation"), U64("offset"), Only(U32("value"), 0 .. Radix - 1), U64("bytes")>>

handle_memset == Handler(29, decode_memset_payload, <<>>, {ST_CUDA_ERROR})

handle_memset_async ==
    Handler(30, decode_memset_payload \o <<U64("stream")>>, <<>>, {ST_CUDA_ERROR})

handle_free == Handler(6, <<U64("allocation")>>, <<>>, {ST_CUDA_ERROR, ST_NOT_FOUND})

handle_close == Handler(OP_CLOSE, <<>>, <<>>, {})

handle_upload_image(op) ==
    Handler(op, <<AtLeast(Bytes("name", 127), 1), AtLeast(U64("image_size"), 1),
                  Data("image", <<"image_size">>)>>,
            <<U64("module")>>, {ST_INTERNAL, ST_METADATA_ERROR, ST_CUDA_ERROR, ST_NO_RESOURCE})

handle_get_kernel ==
    Handler(9, <<U64("module"), AtLeast(Bytes("name", 127), 1)>>,
            <<U64("kernel")>>,
            {ST_METADATA_ERROR, ST_NOT_FOUND, ST_NO_RESOURCE, ST_SYMBOL_NOT_FOUND})

handle_unload_module == Handler(10, <<U64("module")>>, <<>>, {ST_CUDA_ERROR, ST_NOT_FOUND})

handle_create_stream ==
    Handler(12, <<U32("flags")>>, <<U64("stream")>>, {ST_CUDA_ERROR, ST_NO_RESOURCE})

handle_create_stream_priority ==
    Handler(32, <<U32("flags"), I32("priority")>>,
            <<U64("stream")>>, {ST_CUDA_ERROR, ST_NO_RESOURCE})

handle_stream_get_flags ==
    Handler(31, <<U64("stream")>>, <<U32("flags")>>, {ST_CUDA_ERROR, ST_NOT_FOUND})

handle_stream_get_priority ==
    Handler(33, <<U64("stream")>>, <<I32("priority")>>, {ST_CUDA_ERROR, ST_NOT_FOUND})

handle_stream_sync == Handler(15, <<U64("stream")>>, <<>>, {ST_CUDA_ERROR, ST_NOT_FOUND})

handle_destroy_stream == Handler(13, <<U64("stream")>>, <<>>, {ST_CUDA_ERROR, ST_NOT_FOUND})

handle_create_event ==
    Handler(16, <<Only(U32("flags"), {0, 1, 2})>>,
            <<U64("event")>>, {ST_CUDA_ERROR, ST_NO_RESOURCE})

handle_event_record ==
    Handler(18, <<U64("event"), U64("stream")>>, <<>>, {ST_CUDA_ERROR, ST_NOT_FOUND})

handle_event_sync == Handler(20, <<U64("event")>>, <<>>, {ST_CUDA_ERROR, ST_NOT_FOUND})

handle_event_elapsed ==
    Handler(34, <<U64("start"), U64("end")>>, <<U32("bits")>>, {ST_CUDA_ERROR, ST_NOT_FOUND})

handle_destroy_event == Handler(17, <<U64("event")>>, <<>>, {ST_CUDA_ERROR, ST_NOT_FOUND})

handle_driver_version == Handler(35, <<>>, <<AtLeast(I32("version"), 0)>>, {ST_CUDA_ERROR})

handle_runtime_version == Handler(36, <<>>, <<Only(I32("version"), {11000})>>, {})

handle_function_attributes ==
    Handler(37, <<U64("kernel")>>,
            All(LAMBDA n : AtLeast(I32(n), 0), <<"shared_bytes", "const_bytes", "local_bytes">>)
                \o All(I32, <<"registers", "ptx_version", "binary_version", "max_threads">>),
            {ST_CUDA_ERROR, ST_NOT_FOUND})

handle_occupancy ==
    Handler(38, <<U64("kernel"), I32("block_size"), U64("dynamic_shared")>>,
            <<I32("blocks")>>, {ST_CUDA_ERROR})

handle_stream_wait_event ==
    Handler(21, <<U64("stream"), U64("event"), Only(U32("flags"), {0})>>,
            <<>>, {ST_CUDA_ERROR, ST_NOT_FOUND})

handle_h2d_async_submit ==
    Handler(22, All(U64, <<"allocation", "offset", "stream">>)
                \o <<AtLeast(U64("bytes"), 1), Data("data", <<"bytes">>)>>,
            <<U64("transfer")>>, {ST_CUDA_ERROR, ST_NOT_FOUND, ST_NO_RESOURCE})

handle_d2h_async_submit ==
    Handler(23, All(U64, <<"allocation", "offset", "stream">>) \o <<AtLeast(U64("bytes"), 1)>>,
            <<U64("transfer")>>, {ST_CUDA_ERROR, ST_NOT_FOUND, ST_NO_RESOURCE})

handle_transfer_query ==
    Handler(24, <<U64("transfer")>>, <<U32("state")>>, {ST_CUDA_ERROR, ST_NOT_FOUND})

handle_transfer_wait ==
    Handler(25, <<U64("transfer")>>,
            <<Data("out", <<"entry_bytes">>)>>, {ST_CUDA_ERROR, ST_NOT_FOUND})

\* The encoding at the end of the handler, after the attributes have been read.
handle_get_device_info ==
    Handler(26, <<U32("device")>>,
        <<Only(U32("dto_version"), {1}), Echo(U32("device")), Array("name", 256)>>
        \o All(U64, <<"total_global_mem", "free_mem", "shared_mem_per_block">>)
        \o <<U32("regs_per_block"), U32("warp_size"), U64("mem_pitch"),
             U32("max_threads_per_block")>>
        \o All(U32, <<"max_threads_dim_x", "max_threads_dim_y", "max_threads_dim_z",
                      "max_grid_size_x", "max_grid_size_y", "max_grid_size_z", "clock_rate">>)
        \o <<U64("total_const_mem"), U32("major"), U32("minor"), U64("texture_alignment")>>
        \o All(U32, <<"device_overlap", "multi_processor_count", "kernel_exec_timeout",
                      "integrated", "can_map_host_memory", "compute_mode", "concurrent_kernels",
                      "ecc_enabled", "pci_bus_id", "pci_device_id", "tcc_driver",
                      "memory_clock_rate", "memory_bus_width", "l2_cache_size",
                      "max_threads_per_mp", "async_engine_count", "unified_addressing">>),
        {ST_CUDA_ERROR, ST_NOT_FOUND})

decode_kernel_launch ==
    All(U64, <<"kernel", "stream">>)
    \o All(LAMBDA n : AtLeast(U32(n), 1),
           <<"grid_x", "grid_y", "grid_z", "block_x", "block_y", "block_z">>)
    \o <<U32("shared_mem"), Arguments("args", 32)>>

handle_launch_generic ==
    Handler(11, decode_kernel_launch,
            <<>>, {ST_NOT_FOUND, ST_METADATA_ERROR, ST_ABI_MISMATCH, ST_INTERNAL, ST_CUDA_ERROR})

handle_sync == Serves(cudaDeviceSynchronize, {ST_CUDA_ERROR})

handle_stream_query == Serves(cudaStreamQuery, {ST_CUDA_ERROR, ST_INTERNAL, ST_NOT_FOUND})

handle_event_query == Serves(cudaEventQuery, {ST_CUDA_ERROR, ST_INTERNAL, ST_NOT_FOUND})

handle_device_get_attribute ==
    Serves(cudaDeviceGetAttribute, {ST_CUDA_ERROR, ST_INTERNAL, ST_INVALID_DEVICE})

handle_get_device_flags == Serves(cudaGetDeviceFlags, {ST_CUDA_ERROR, ST_INTERNAL})

handle_get_priority_range ==
    Serves(cudaDeviceGetStreamPriorityRange, {ST_CUDA_ERROR, ST_INTERNAL})

handle_get_limit == Serves(cudaDeviceGetLimit, {ST_CUDA_ERROR, ST_INTERNAL})

handle_get_cache_config == Serves(cudaDeviceGetCacheConfig, {ST_CUDA_ERROR, ST_INTERNAL})

handle_get_shared_mem_config == Serves(cudaDeviceGetSharedMemConfig, {ST_CUDA_ERROR, ST_INTERNAL})

handle_function_set_attribute == Serves(cudaFuncSetAttribute, {ST_CUDA_ERROR, ST_NOT_FOUND})

handle_function_set_cache_config == Serves(cudaFuncSetCacheConfig, {ST_CUDA_ERROR, ST_NOT_FOUND})

handle_device_get_pci_bus_id ==
    Serves(cudaDeviceGetPCIBusId, {ST_CUDA_ERROR, ST_INTERNAL, ST_INVALID_DEVICE})

handle_device_get_by_pci_bus_id ==
    Serves(cudaDeviceGetByPCIBusId, {ST_CUDA_ERROR, ST_INTERNAL, ST_INVALID_DEVICE})

handle_set_limit == Serves(cudaDeviceSetLimit, {ST_CUDA_ERROR})

handle_set_cache_config == Serves(cudaDeviceSetCacheConfig, {ST_CUDA_ERROR})

handle_set_shared_mem_config == Serves(cudaDeviceSetSharedMemConfig, {ST_CUDA_ERROR})

handle_stream_copy_attributes == Serves(cudaStreamCopyAttributes, {ST_CUDA_ERROR, ST_NOT_FOUND})

handle_stream_get_attribute ==
    Serves(cudaStreamGetAttribute, {ST_CUDA_ERROR, ST_INTERNAL, ST_NOT_FOUND})

handle_stream_set_attribute == Serves(cudaStreamSetAttribute, {ST_CUDA_ERROR, ST_NOT_FOUND})

handle_memset_3d_sync == Checking("fill_3d", Serves(cudaMemset3D, {ST_CUDA_ERROR}))

handle_memset_3d_async == Checking("fill_3d", Serves(cudaMemset3DAsync, {ST_CUDA_ERROR}))

handle_function_set_shared_config ==
    Serves(cudaFuncSetSharedMemConfig, {ST_CUDA_ERROR, ST_NOT_FOUND})

handle_occupancy_flags ==
    Serves(cudaOccupancyMaxActiveBlocksPerMultiprocessorWithFlags, {ST_CUDA_ERROR, ST_NOT_FOUND})

handle_occupancy_potential ==
    Serves(cudaOccupancyMaxPotentialBlockSize, {ST_CUDA_ERROR, ST_NOT_FOUND})

handle_library_count == Serves(cudaLibraryGetKernelCount, {ST_NOT_FOUND})

handle_library_kernel_name == Serves(cudaLibraryEnumerateKernels, {ST_INTERNAL, ST_NOT_FOUND})

handle_module_global ==
    Serves(cudaGetSymbolAddress, {ST_CUDA_ERROR, ST_NOT_FOUND, ST_NO_RESOURCE, ST_SYMBOL_NOT_FOUND})

handle_set_device_flags == Serves(cudaSetDeviceFlags, {ST_CUDA_ERROR, ST_NOT_SUPPORTED})

handle_device_default_pool ==
    Serves(cudaDeviceGetDefaultMemPool, pool_status \union {ST_INVALID_DEVICE})

handle_device_get_pool == Serves(cudaDeviceGetMemPool, pool_status \union {ST_INVALID_DEVICE})

handle_device_set_pool ==
    Serves(cudaDeviceSetMemPool, pool_status \union {ST_INVALID_DEVICE, ST_NOT_FOUND})

handle_pool_create == Serves(cudaMemPoolCreate, pool_status \union {ST_INVALID_DEVICE})

handle_pool_destroy == Serves(cudaMemPoolDestroy, pool_status \union {ST_NOT_FOUND})

handle_pool_trim == Serves(cudaMemPoolTrimTo, pool_status \union {ST_NOT_FOUND})

handle_pool_get_attribute == Serves(cudaMemPoolGetAttribute, pool_status \union {ST_NOT_FOUND})

handle_pool_set_attribute == Serves(cudaMemPoolSetAttribute, pool_status \union {ST_NOT_FOUND})

handle_pool_get_access ==
    Serves(cudaMemPoolGetAccess, pool_status \union {ST_INVALID_DEVICE, ST_NOT_FOUND})

handle_pool_set_access ==
    Serves(cudaMemPoolSetAccess, pool_status \union {ST_INVALID_DEVICE, ST_NOT_FOUND})

handle_alloc_async == Serves(cudaMallocAsync, pool_status \union {ST_NOT_FOUND})

\* The reply is written by the encoder of cudaMallocAsync.
handle_alloc_from_pool_async ==
    Handler(86, cudaMallocFromPoolAsync.request, cudaMallocAsync.response,
            pool_status \union {ST_NOT_FOUND})

handle_free_async == Serves(cudaFreeAsync, pool_status \union {ST_NOT_FOUND})

handle_graph ==
    Serves(cudaGraphCreate, {ST_CUDA_ERROR, ST_INTERNAL, ST_NOT_FOUND, ST_NOT_SUPPORTED,
                             ST_NO_RESOURCE})

handle_graph_mem_get ==
    Serves(cudaDeviceGetGraphMemAttribute, {ST_INVALID_DEVICE, ST_CUDA_ERROR, ST_NOT_SUPPORTED})

handle_graph_mem_set ==
    Serves(cudaDeviceSetGraphMemAttribute, {ST_INVALID_DEVICE, ST_CUDA_ERROR, ST_NOT_SUPPORTED})

handle_graph_mem_trim ==
    Serves(cudaDeviceGraphMemTrim, {ST_INVALID_DEVICE, ST_CUDA_ERROR, ST_NOT_SUPPORTED})

handle_function_info ==
    Serves(cudaFuncGetAttributes, pool_status \union {ST_INTERNAL, ST_NOT_FOUND})

SERVER_HANDLER_REGISTRY ==
    {handle_hello, handle_alloc, handle_alloc_pitched, handle_memcpy_2d_sync_entry,
     handle_memcpy_2d_async, handle_memset_2d_sync_entry, handle_memset_2d_async,
     handle_memcpy_3d_sync_entry, handle_memcpy_3d_async_entry, handle_memcpy_2d_h2d_async,
     handle_memcpy_2d_d2h_async, handle_h2d, handle_d2h, handle_d2d, handle_d2d_async,
     handle_memset, handle_memset_async, handle_free, handle_close, handle_get_kernel,
     handle_unload_module, handle_create_stream, handle_create_stream_priority,
     handle_stream_get_flags, handle_stream_get_priority, handle_stream_sync,
     handle_destroy_stream, handle_create_event, handle_event_record, handle_event_sync,
     handle_event_elapsed, handle_destroy_event, handle_driver_version,
     handle_runtime_version, handle_function_attributes, handle_occupancy,
     handle_stream_wait_event, handle_h2d_async_submit, handle_d2h_async_submit,
     handle_transfer_query, handle_transfer_wait, handle_launch_generic,
     handle_get_device_info, handle_sync, handle_stream_query, handle_event_query,
     handle_device_get_attribute, handle_get_device_flags, handle_get_priority_range,
     handle_get_limit, handle_get_cache_config, handle_get_shared_mem_config,
     handle_function_set_attribute, handle_function_set_cache_config,
     handle_device_get_pci_bus_id, handle_device_get_by_pci_bus_id, handle_set_limit,
     handle_set_cache_config, handle_set_shared_mem_config, handle_stream_copy_attributes,
     handle_stream_get_attribute, handle_stream_set_attribute, handle_memset_3d_sync,
     handle_memset_3d_async, handle_function_set_shared_config, handle_occupancy_flags,
     handle_occupancy_potential, handle_library_count, handle_library_kernel_name,
     handle_module_global, handle_set_device_flags, handle_device_default_pool,
     handle_device_get_pool, handle_device_set_pool, handle_pool_create, handle_pool_destroy,
     handle_pool_trim, handle_pool_get_attribute, handle_pool_set_attribute,
     handle_pool_get_access, handle_pool_set_access, handle_alloc_async,
     handle_alloc_from_pool_async, handle_free_async, handle_graph, handle_graph_mem_get,
     handle_graph_mem_set, handle_graph_mem_trim, handle_function_info,
     handle_upload_image(8), handle_upload_image(70)}

\* The handler of an opcode. handle_legacy_launch, which refuses every request, is
\* left out.
g_handlers ==
    [op \in {h.op : h \in SERVER_HANDLER_REGISTRY} |->
        CHOOSE h \in SERVER_HANDLER_REGISTRY : h.op = op]

=================================================================================
