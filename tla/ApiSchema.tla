------------------------------- MODULE ApiSchema --------------------------------
(***************************************************************************)
(* The calls whose codecs are generated from the API schema                *)
(* (include/generated/corex_api_schema.h): for each of them the opcode,    *)
(* the capability that announces it, the least and greatest length of a    *)
(* request the server lets through, and the fields of its request and of   *)
(* its response in the order in which the encoder writes and the decoder   *)
(* reads them. An empty request or response has no fields.                 *)
(***************************************************************************)
EXTENDS Wire

Api(opcode, capability, least, most, request, response) ==
    [opcode |-> opcode, capability |-> capability, least |-> least, most |-> most,
     request |-> request, response |-> response]

cudaDeviceSynchronize ==
    Api(4, "STREAM_EVENT", 0, 0, <<>>, <<>>)

cudaStreamQuery ==
    Api(14, "STREAM_EVENT", 8, 8, <<U64("stream")>>, <<U32("state")>>)

cudaEventQuery ==
    Api(19, "STREAM_EVENT", 8, 8, <<U64("event")>>, <<U32("state")>>)

cudaDriverGetVersion ==
    Api(35, "DEVICE_INFO", 0, 0, <<>>, <<U32("version")>>)

cudaRuntimeGetVersion ==
    Api(36, "DEVICE_INFO", 0, 0, <<>>, <<U32("version")>>)

cudaDeviceGetAttribute ==
    Api(39, "DEVICE_INFO", 8, 8, <<I32("attribute"), I32("device")>>, <<I32("value")>>)

cudaGetDeviceFlags ==
    Api(40, "DEVICE_INFO", 0, 0, <<>>, <<U32("flags")>>)

cudaDeviceGetStreamPriorityRange ==
    Api(41, "STREAM_EVENT", 0, 0, <<>>, <<I32("least_priority"), I32("greatest_priority")>>)

cudaDeviceGetLimit ==
    Api(42, "DEVICE_INFO", 4, 4, <<I32("limit")>>, <<U64("value")>>)

cudaDeviceGetCacheConfig ==
    Api(43, "DEVICE_INFO", 0, 0, <<>>, <<I32("config")>>)

cudaDeviceGetSharedMemConfig ==
    Api(44, "DEVICE_INFO", 0, 0, <<>>, <<I32("config")>>)

cudaFuncSetAttribute ==
    Api(45, "MODULE_KERNEL", 16, 16,
        <<U64("kernel"), I32("attribute"), I32("value")>>,
        <<>>)

cudaFuncSetCacheConfig ==
    Api(46, "MODULE_KERNEL", 12, 12, <<U64("kernel"), I32("config")>>, <<>>)

cudaOccupancyMaxActiveBlocksPerMultiprocessor ==
    Api(38, "MODULE_KERNEL", 20, 20,
        <<U64("kernel"), U32("block_size"), U64("dynamic_shared")>>,
        <<I32("blocks")>>)

cudaDeviceGetPCIBusId ==
    Api(47, "DEVICE_INFO", 4, 4, <<I32("device")>>, <<Name("pci_bus_id", 32)>>)

cudaDeviceGetByPCIBusId ==
    Api(48, "DEVICE_INFO", 4, 36, <<Name("pci_bus_id", 32)>>, <<I32("device")>>)

cudaDeviceSetLimit ==
    Api(59, "DEVICE_INFO", 12, 12, <<I32("limit"), U64("value")>>, <<>>)

cudaDeviceSetCacheConfig ==
    Api(60, "DEVICE_INFO", 4, 4, <<I32("config")>>, <<>>)

cudaDeviceSetSharedMemConfig ==
    Api(61, "DEVICE_INFO", 4, 4, <<I32("config")>>, <<>>)

cudaStreamCopyAttributes ==
    Api(62, "STREAM_EVENT", 16, 16, <<U64("dst"), U64("src")>>, <<>>)

cudaStreamGetAttribute ==
    Api(63, "STREAM_EVENT", 12, 12,
        <<U64("stream"), I32("attribute")>>,
        <<U64("allocation"), U64("offset"), U64("bytes"), U32("hit_ratio_bits"),
          I32("hit_property"), I32("miss_property"), I32("sync_policy")>>)

cudaStreamSetAttribute ==
    Api(64, "STREAM_EVENT", 52, 52,
        <<U64("stream"), I32("attribute"), U64("allocation"), U64("offset"), U64("bytes"),
          U32("hit_ratio_bits"), I32("hit_property"), I32("miss_property"),
          I32("sync_policy")>>,
        <<>>)

cudaMemset3D ==
    Api(65, "LAYOUT_TRANSFER", 60, 60,
        <<U64("allocation"), U64("offset"), U64("pitch"), U64("slice"), U64("width"),
          U64("height"), U64("depth"), U32("value")>>,
        <<>>)

cudaMemset3DAsync ==
    Api(66, "LAYOUT_TRANSFER", 68, 68,
        <<U64("allocation"), U64("offset"), U64("pitch"), U64("slice"), U64("width"),
          U64("height"), U64("depth"), U32("value"), U64("stream")>>,
        <<>>)

cudaFuncSetSharedMemConfig ==
    Api(67, "MODULE_KERNEL", 12, 12, <<U64("kernel"), I32("config")>>, <<>>)

cudaOccupancyMaxActiveBlocksPerMultiprocessorWithFlags ==
    Api(68, "MODULE_KERNEL", 24, 24,
        <<U64("kernel"), I32("block_size"), U64("dynamic_shared"), U32("flags")>>,
        <<I32("blocks")>>)

cudaOccupancyMaxPotentialBlockSize ==
    Api(69, "MODULE_KERNEL", 20, 20,
        <<U64("kernel"), U64("dynamic_shared"), I32("block_limit")>>,
        <<I32("grid"), I32("block")>>)

cudaLibraryGetKernelCount ==
    Api(71, "MODULE_KERNEL", 8, 8, <<U64("module")>>, <<U32("count")>>)

cudaLibraryEnumerateKernels ==
    Api(72, "MODULE_KERNEL", 12, 12, <<U64("module"), U32("index")>>, <<Name("name", 127)>>)

cudaGetSymbolAddress ==
    Api(73, "MODULE_KERNEL", 12, 139,
        <<U64("module"), Name("name", 127)>>,
        <<U64("allocation"), U64("bytes")>>)

cudaSetDeviceFlags ==
    Api(74, "DEVICE_INFO", 4, 4, <<U32("flags")>>, <<>>)

cudaDeviceGetDefaultMemPool ==
    Api(75, "MEMORY_POOLS", 4, 4, <<I32("device")>>, <<U64("pool")>>)

cudaDeviceGetMemPool ==
    Api(76, "MEMORY_POOLS", 4, 4, <<I32("device")>>, <<U64("pool")>>)

cudaDeviceSetMemPool ==
    Api(77, "MEMORY_POOLS", 12, 12, <<I32("device"), U64("pool")>>, <<>>)

cudaMemPoolCreate ==
    Api(78, "MEMORY_POOLS", 12, 12,
        <<U32("allocation_type"), U32("location_type"), I32("device")>>,
        <<U64("pool")>>)

cudaMemPoolDestroy ==
    Api(79, "MEMORY_POOLS", 8, 8, <<U64("pool")>>, <<>>)

cudaMemPoolTrimTo ==
    Api(80, "MEMORY_POOLS", 16, 16, <<U64("pool"), U64("bytes")>>, <<>>)

cudaMemPoolGetAttribute ==
    Api(81, "MEMORY_POOLS", 12, 12, <<U64("pool"), U32("attribute")>>, <<U64("value")>>)

cudaMemPoolSetAttribute ==
    Api(82, "MEMORY_POOLS", 20, 20, <<U64("pool"), U32("attribute"), U64("value")>>, <<>>)

cudaMemPoolGetAccess ==
    Api(83, "MEMORY_POOLS", 16, 16,
        <<U64("pool"), U32("location_type"), I32("device")>>,
        <<U32("flags")>>)

cudaMemPoolSetAccess ==
    Api(84, "MEMORY_POOLS", 24, 24,
        <<U64("pool"), U32("count"), U32("location_type"), I32("device"), U32("flags")>>,
        <<>>)

cudaMallocAsync ==
    Api(85, "MEMORY_POOLS", 16, 16, <<U64("bytes"), U64("stream")>>, <<U64("allocation")>>)

cudaMallocFromPoolAsync ==
    Api(86, "MEMORY_POOLS", 24, 24,
        <<U64("bytes"), U64("pool"), U64("stream")>>,
        <<U64("allocation")>>)

cudaFreeAsync ==
    Api(87, "MEMORY_POOLS", 16, 16, <<U64("allocation"), U64("stream")>>, <<>>)

cudaGraphCreate ==
    Api(88, "GRAPHS", 52, 8244,
        <<U32("action"), U64("graph"), U64("node"), U64("exec"), U64("stream"),
          U32("kind"), U64("value"), Bytes("data", 8192)>>,
        <<U64("object"), U32("value"), Bytes("data", 65535)>>)

cudaDeviceGetGraphMemAttribute ==
    Api(89, "GRAPHS", 8, 8, <<I32("device"), U32("attribute")>>, <<U64("value")>>)

cudaDeviceSetGraphMemAttribute ==
    Api(90, "GRAPHS", 16, 16, <<I32("device"), U32("attribute"), U64("value")>>, <<>>)

cudaDeviceGraphMemTrim ==
    Api(91, "GRAPHS", 4, 4, <<I32("device")>>, <<>>)

cudaFuncGetAttributes ==
    Api(92, "FUNCTION_INFO", 8, 8,
        <<U64("kernel")>>,
        <<I32("shared_bytes"), I32("const_bytes"), I32("local_bytes"), I32("registers"),
          I32("ptx_version"), I32("binary_version"), I32("max_threads"),
          I32("cache_mode_ca"), I32("max_dynamic_shared")>>)

corex_generated_apis == {cudaDeviceSynchronize, cudaStreamQuery, cudaEventQuery,
                          cudaDriverGetVersion, cudaRuntimeGetVersion,
                          cudaDeviceGetAttribute, cudaGetDeviceFlags,
                          cudaDeviceGetStreamPriorityRange, cudaDeviceGetLimit,
                          cudaDeviceGetCacheConfig, cudaDeviceGetSharedMemConfig,
                          cudaFuncSetAttribute, cudaFuncSetCacheConfig,
                          cudaOccupancyMaxActiveBlocksPerMultiprocessor,
                          cudaDeviceGetPCIBusId, cudaDeviceGetByPCIBusId,
                          cudaDeviceSetLimit, cudaDeviceSetCacheConfig,
                          cudaDeviceSetSharedMemConfig, cudaStreamCopyAttributes,
                          cudaStreamGetAttribute, cudaStreamSetAttribute, cudaMemset3D,
                          cudaMemset3DAsync, cudaFuncSetSharedMemConfig,
                          cudaOccupancyMaxActiveBlocksPerMultiprocessorWithFlags,
                          cudaOccupancyMaxPotentialBlockSize, cudaLibraryGetKernelCount,
                          cudaLibraryEnumerateKernels, cudaGetSymbolAddress,
                          cudaSetDeviceFlags, cudaDeviceGetDefaultMemPool,
                          cudaDeviceGetMemPool, cudaDeviceSetMemPool, cudaMemPoolCreate,
                          cudaMemPoolDestroy, cudaMemPoolTrimTo, cudaMemPoolGetAttribute,
                          cudaMemPoolSetAttribute, cudaMemPoolGetAccess,
                          cudaMemPoolSetAccess, cudaMallocAsync, cudaMallocFromPoolAsync,
                          cudaFreeAsync, cudaGraphCreate, cudaDeviceGetGraphMemAttribute,
                          cudaDeviceSetGraphMemAttribute, cudaDeviceGraphMemTrim,
                          cudaFuncGetAttributes}

\* The length of a request to a schema opcode is checked before its handler runs.
corex_generated_validate_payload(opcode, length) ==
    \A api \in corex_generated_apis :
        api.opcode = opcode => length \in api.least .. api.most

=================================================================================
