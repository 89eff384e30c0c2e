---------------------------- MODULE Registration ----------------------------
(***************************************************************************)
(* Fat-binary registrations, modules, kernels and module globals: the      *)
(* identities the client runtime keeps for code images loaded on the       *)
(* server (src/src/corex_remote_cuda.c) and the tables of the connection's *)
(* ServerSession they stand for (src/server/runtime_server.c).             *)
(*                                                                         *)
(* Every call runs under the RuntimeContext mutex; the only state that is  *)
(* visible between two steps of one call is that of corexRemoteRuntime-    *)
(* Shutdown, which unloads one registration per RPC and may lose the       *)
(* session between two of them.  Handles live in tables that are never     *)
(* reused, so a handle is its index; the server numbers modules and        *)
(* kernels from 1 again in every session, so the same id names different   *)
(* images in different sessions.                                           *)
(*                                                                         *)
(* An image is named after the module handle its upload produced.          *)
(***************************************************************************)
EXTENDS Integers, Sequences, FiniteSets

CONSTANTS Funs,         \* host stubs the compiler registers (hostFun)
          Names,        \* kernel names of an image (deviceName)
          Vars,         \* host shadows of device globals (host_var)
          NoFun,        \* a kernel handle without a host stub
          MaxRegs,      \* G7C_MAX_FATBIN_REGISTRATIONS
          MaxModules,   \* G6D_MAX_MODULE_HANDLES
          MaxKernels,   \* G6D_MAX_KERNEL_HANDLES
          MaxGen        \* bound on the sessions of a behaviour

ASSUME BoundAssumption ==
    /\ NoFun \notin Funs
    /\ {MaxRegs, MaxModules, MaxKernels, MaxGen} \subseteq Nat

VARIABLES gen,       \* g_active_session_generation, 0 without a session
          nextGen,   \* g_next_session_generation
          regs,      \* g_g7c_registrations; the index is the generation
          mods,      \* g_module_handles
          kernels,   \* g_kernel_handles
          syms,      \* the live entries of g_allocs that have a host_symbol
          sess,      \* module, kernel and global tables of the ServerSession
          call,      \* shutdown in progress: the next registration, else 0
          broken     \* history: modules whose unload failed in the backend

vars == <<gen, nextGen, regs, mods, kernels, syms, sess, call, broken>>

States == {"REMOTE_READY", "LIVE", "FAILED", "UNLOAD_FAILED", "DEAD"}
Kinds == {"fatbin", "loaded", "library"}

\* server_session_init, which also ends cleanup_session.
SessionInit == [mods |-> {}, kernels |-> {}, globals |-> {},
                nextMid |-> 1, nextKid |-> 1]

Init ==
    /\ gen = 0 /\ nextGen = 1
    /\ regs = <<>> /\ mods = <<>> /\ kernels = <<>>
    /\ syms = {}
    /\ sess = SessionInit
    /\ call = 0
    /\ broken = {}

Idle == call = 0
Active == gen # 0

(***************************************************************************)
(* Resolution of handles                                                   *)
(***************************************************************************)
\* resolve_module_handle
ModuleLive(m) == mods[m].live /\ mods[m].sgen = gen

\* resolve_kernel_reference
KernelLive(k) == kernels[k].live /\ kernels[k].sgen = gen

\* g7c_resolve_registration
Resolves(r) == regs[r].sgen \in {0, gen}

\* find_live_compiler_kernel_by_host_fun
BoundTo(f) == {k \in DOMAIN kernels : KernelLive(k) /\ kernels[k].fun = f}

(***************************************************************************)
(* The end of a session.  mark_session_failed_locked tombstones what       *)
(* belongs to the failed generation; the server sees the connection close, *)
(* runs cleanup_session and only then accepts another one.                 *)
(***************************************************************************)
LostModules == [m \in DOMAIN mods |->
    IF mods[m].sgen = gen THEN [mods[m] EXCEPT !.live = FALSE, !.id = 0]
    ELSE mods[m]]

LostKernels == [k \in DOMAIN kernels |->
    IF kernels[k].sgen = gen
    THEN [kernels[k] EXCEPT !.live = FALSE, !.id = 0, !.mid = 0]
    ELSE kernels[k]]

LostRegistration(r) ==
    IF regs[r].sgen # gen THEN regs[r]
    ELSE [regs[r] EXCEPT !.module = 0,
                         !.state = IF @ = "FAILED" THEN @ ELSE "DEAD"]

LostRegs == [r \in DOMAIN regs |-> LostRegistration(r)]

\* mark_session_failed_locked, except for what the call does to regs.
MarkSessionFailed ==
    /\ gen' = 0
    /\ mods' = LostModules
    /\ kernels' = LostKernels
    /\ syms' = {s \in syms : s.sgen # gen}
    /\ sess' = SessionInit
    /\ broken' = {}
    /\ UNCHANGED nextGen

\* ensure_runtime: the first part of every call below that needs a session.
EnsureRuntime ==
    /\ Idle /\ ~Active /\ nextGen <= MaxGen
    /\ gen' = nextGen
    /\ nextGen' = nextGen + 1
    /\ UNCHANGED <<regs, mods, kernels, syms, sess, call, broken>>

\* An RPC of any call is lost: send, receive or decoding fails.
TransportFailure ==
    /\ Idle /\ Active
    /\ MarkSessionFailed
    /\ regs' = LostRegs
    /\ UNCHANGED call

(***************************************************************************)
(* Loading an image                                                        *)
(***************************************************************************)
\* module_load_bytes_after_runtime and handle_upload_image, both succeeding.
Upload(kind) ==
    /\ Active /\ Len(mods) < MaxModules
    /\ mods' = Append(mods, [live |-> TRUE, sgen |-> gen,
                             id |-> sess.nextMid, kind |-> kind])
    /\ sess' = [sess EXCEPT
                  !.mods = @ \cup {[id |-> sess.nextMid,
                                    image |-> Len(mods) + 1]},
                  !.nextMid = @ + 1]

FailedRegistration == [state |-> "FAILED", module |-> 0, sgen |-> 0, mid |-> 0]

\* __cudaRegisterFatBinary
RegisterFatBinary ==
    /\ Idle /\ Len(regs) < MaxRegs
    /\ Upload("fatbin")
    /\ regs' = Append(regs, [state |-> "REMOTE_READY", module |-> Len(mods) + 1,
                             sgen |-> gen, mid |-> sess.nextMid])
    /\ UNCHANGED <<gen, nextGen, kernels, syms, call, broken>>

\* Extraction fails, there is no session, no handle, or the server refuses.
RegisterFatBinaryFails ==
    /\ Idle /\ Len(regs) < MaxRegs
    /\ regs' = Append(regs, FailedRegistration)
    /\ UNCHANGED <<gen, nextGen, mods, kernels, syms, sess, call, broken>>

\* The upload itself loses the session.
RegisterFatBinaryLost ==
    /\ Idle /\ Active /\ Len(regs) < MaxRegs
    /\ MarkSessionFailed
    /\ regs' = Append(LostRegs, FailedRegistration)
    /\ UNCHANGED call

\* corexRemoteModuleLoad and cudaLibraryLoadData
ModuleLoad(kind) ==
    /\ Idle
    /\ Upload(kind)
    /\ UNCHANGED <<gen, nextGen, regs, kernels, syms, call, broken>>

\* __cudaRegisterFatBinaryEnd
RegisterFatBinaryEnd(r) ==
    /\ Idle /\ Resolves(r)
    /\ regs[r].state = "REMOTE_READY"
    /\ regs' = [regs EXCEPT ![r].state = "LIVE"]
    /\ UNCHANGED <<gen, nextGen, mods, kernels, syms, sess, call, broken>>

(***************************************************************************)
(* Binding a kernel                                                        *)
(***************************************************************************)
\* handle_get_kernel: the module is loaded and its metadata has the name.
ServerHas(id) == \E s \in sess.mods : s.id = id

\* The part of bind_kernel_identity_after_runtime that makes a new handle.
NewKernel(m, fun, r, name, live, abi, abiOf) ==
    /\ Len(kernels) < MaxKernels
    /\ ServerHas(mods[m].id)
    /\ kernels' = Append(kernels,
                    [live |-> live, sgen |-> gen, id |-> sess.nextKid,
                     mid |-> mods[m].id, fun |-> fun, reg |-> r,
                     name |-> name, abi |-> abi, abiOf |-> abiOf])
    /\ sess' = [sess EXCEPT
                  !.kernels = @ \cup {[id |-> sess.nextKid, mid |-> mods[m].id,
                                       name |-> name]},
                  !.nextKid = @ + 1]

\* Fault: a bound host stub is taken for the requested kernel.
AnyIdentity(k, r, name) == TRUE

\* The existing handle is the requested one (otherwise a conflict is reported).
SameIdentity(k, r, name) ==
    /\ kernels[k].mid = mods[regs[r].module].id
    /\ kernels[k].name = name
    /\ kernels[k].reg = r

\* g7e_attach_compiler_abi_from_metadata: READY is kept, anything else is read
\* again from the image of the registration.
AttachAbi(k, r, ok) ==
    IF kernels[k].abi = "READY" THEN kernels[k]
    ELSE [kernels[k] EXCEPT !.abi = IF ok THEN "READY" ELSE "FAILED",
                            !.abiOf = IF ok THEN regs[r].module ELSE @]

\* __cudaRegisterFunction
RegisterFunction(r, f, name, ok) ==
    /\ Idle /\ Resolves(r)
    /\ regs[r].state \in {"REMOTE_READY", "LIVE"}
    /\ regs[r].module # 0
    /\ ModuleLive(regs[r].module)
    /\ \/ /\ BoundTo(f) = {}
          /\ NewKernel(regs[r].module, f, r, name, TRUE,
                       IF ok THEN "READY" ELSE "FAILED",
                       IF ok THEN regs[r].module ELSE 0)
       \/ \E k \in BoundTo(f) :
            /\ SameIdentity(k, r, name)
            /\ kernels' = [kernels EXCEPT ![k] = AttachAbi(k, r, ok)]
            /\ UNCHANGED sess
    /\ UNCHANGED <<gen, nextGen, regs, mods, syms, call, broken>>

\* corexRemoteRegisterKernel: the program supplies the ABI itself.
RegisterKernel(m, name) ==
    /\ Idle /\ Active
    /\ mods[m].kind = "loaded" /\ ModuleLive(m)
    /\ NewKernel(m, NoFun, 0, name, TRUE, "READY", m)
    /\ UNCHANGED <<gen, nextGen, regs, mods, syms, call, broken>>

\* cudaLibraryGetKernel: reuses a live handle of the module and name; a handle
\* whose ABI cannot be read is dropped, its server kernel stays.
LibraryGetKernel(m, name, ok) ==
    /\ Idle /\ Active
    /\ mods[m].kind = "library" /\ ModuleLive(m)
    /\ ~\E k \in DOMAIN kernels :
          KernelLive(k) /\ kernels[k].mid = mods[m].id /\ kernels[k].name = name
    /\ NewKernel(m, NoFun, 0, name, ok, IF ok THEN "READY" ELSE "FAILED",
                 IF ok THEN m ELSE 0)
    /\ UNCHANGED <<gen, nextGen, regs, mods, syms, call, broken>>

\* find_registered_symbol
Registered(v) == \E s \in syms : s.var = v /\ s.sgen = gen

\* __cudaRegisterVar and handle_module_global.  A global of another size than the
\* host shadow is refused by the client only (fits is FALSE).
RegisterVar(r, v, fits) ==
    /\ Idle /\ Resolves(r)
    /\ regs[r].state \in {"REMOTE_READY", "LIVE"}
    /\ regs[r].module # 0
    /\ ~Registered(v)
    /\ ServerHas(regs[r].mid)
    /\ syms' = IF fits
               THEN syms \cup {[var |-> v, sgen |-> gen, mid |-> regs[r].mid]}
               ELSE syms
    /\ sess' = [sess EXCEPT !.globals = @ \cup {regs[r].mid}]
    /\ UNCHANGED <<gen, nextGen, regs, mods, kernels, call, broken>>

(***************************************************************************)
(* Unloading an image: module_unload_after_runtime against                 *)
(* handle_unload_module, with its four outcomes.                           *)
(***************************************************************************)
\* invalidate_module_kernels
ServerKernelsWithout(id) == {k \in sess.kernels : k.mid # id}

\* Fault: the client does not invalidate the kernels of an unloaded module.
KeptLocalKernels(id) == kernels

\* invalidate_local_module_kernels
LocalKernelsWithout(id) == [k \in DOMAIN kernels |->
    IF kernels[k].live /\ kernels[k].mid = id
    THEN [kernels[k] EXCEPT !.live = FALSE, !.id = 0] ELSE kernels[k]]

\* Fault: the symbols of an unloaded module stay registered.
KeptSymbols(id) == syms

SymbolsWithout(id) == {s \in syms : ~(s.sgen = gen /\ s.mid = id)}

UnloadDone(m) ==
    LET id == mods[m].id IN
    /\ ModuleLive(m)
    /\ sess' = [sess EXCEPT !.mods = {s \in @ : s.id # id},
                            !.kernels = ServerKernelsWithout(id),
                            !.globals = @ \ {id}]
    /\ kernels' = LocalKernelsWithout(id)
    /\ syms' = SymbolsWithout(id)
    /\ mods' = [mods EXCEPT ![m].live = FALSE, ![m].id = 0]
    /\ UNCHANGED <<gen, nextGen, broken>>

\* A drain of the module's globals or the server's barrier fails first.
UnloadRefused(m) ==
    /\ ModuleLive(m)
    /\ UNCHANGED <<gen, nextGen, mods, kernels, syms, sess, broken>>

\* The backend fails after the server has dropped the kernels.
UnloadBreaks(m) ==
    /\ ModuleLive(m)
    /\ sess' = [sess EXCEPT !.kernels = ServerKernelsWithout(mods[m].id)]
    /\ broken' = broken \cup {mods[m].id}
    /\ UNCHANGED <<gen, nextGen, mods, kernels, syms>>

\* corexRemoteModuleUnload and cudaLibraryUnload
ModuleUnload(m) ==
    /\ Idle /\ mods[m].kind \in {"loaded", "library"}
    /\ UnloadDone(m) \/ UnloadBreaks(m)
    /\ UNCHANGED <<regs, call>>

HoldsModule(r) ==
    /\ regs[r].state \in {"LIVE", "REMOTE_READY", "UNLOAD_FAILED"}
    /\ regs[r].module # 0

\* Fault: a failed unload gives up the module handle.
ForgottenUnload(r) == [regs[r] EXCEPT !.state = "UNLOAD_FAILED", !.module = 0]

UnloadFailed(r) == [regs[r] EXCEPT !.state = "UNLOAD_FAILED"]

\* The body that unregistration and shutdown share.  A transport failure first
\* makes the registration DEAD, then its error path overwrites the state.
Retire(r) ==
    \/ /\ HoldsModule(r)
       /\ UnloadDone(regs[r].module)
       /\ regs' = [regs EXCEPT ![r].module = 0, ![r].state = "DEAD"]
    \/ /\ HoldsModule(r)
       /\ UnloadRefused(regs[r].module) \/ UnloadBreaks(regs[r].module)
       /\ regs' = [regs EXCEPT ![r] = UnloadFailed(r)]
    \/ /\ HoldsModule(r)
       /\ MarkSessionFailed
       /\ regs' = [LostRegs EXCEPT ![r].state = "UNLOAD_FAILED"]
    \/ /\ regs[r].state = "FAILED"
       /\ regs' = [regs EXCEPT ![r].state = "DEAD"]
       /\ UNCHANGED <<gen, nextGen, mods, kernels, syms, sess, broken>>

\* __cudaUnregisterFatBinary
UnregisterFatBinary(r) ==
    /\ Idle /\ Resolves(r)
    /\ Retire(r)
    /\ UNCHANGED call

(***************************************************************************)
(* corexRemoteRuntimeShutdown (also cudaDeviceReset and the exit handler)  *)
(***************************************************************************)
ShutdownBegin ==
    /\ Idle /\ Active
    /\ call' = 1
    /\ UNCHANGED <<gen, nextGen, regs, mods, kernels, syms, sess, broken>>

\* g7c_cleanup_registrations_before_runtime_shutdown, one registration
ShutdownStep ==
    /\ call \in DOMAIN regs
    /\ \/ Retire(call)
       \/ /\ ~HoldsModule(call) /\ regs[call].state # "FAILED"
          /\ UNCHANGED <<gen, nextGen, regs, mods, kernels, syms, sess, broken>>
    /\ call' = call + 1

\* Fault: finalization looks at the state instead of the module handle.
FinalizedByState(r) ==
    IF regs[r].state = "LIVE" THEN [regs[r] EXCEPT !.module = 0, !.state = "DEAD"]
    ELSE regs[r]

\* g7c_finalize_registrations_after_session_close
Finalized(r) ==
    IF regs[r].module # 0 THEN [regs[r] EXCEPT !.module = 0, !.state = "DEAD"]
    ELSE regs[r]

\* The tables are tombstoned, OP_CLOSE ends the session (lost or not, the
\* server cleans up), the registrations are finalized.
ShutdownEnd ==
    /\ call = Len(regs) + 1
    /\ gen' = 0
    /\ regs' = [r \in DOMAIN regs |-> Finalized(r)]
    /\ mods' = [m \in DOMAIN mods |-> [mods[m] EXCEPT !.live = FALSE, !.id = 0]]
    /\ kernels' = [k \in DOMAIN kernels |->
                     [kernels[k] EXCEPT !.live = FALSE, !.id = 0, !.mid = 0]]
    /\ syms' = {}
    /\ sess' = SessionInit
    /\ call' = 0
    /\ broken' = {}
    /\ UNCHANGED nextGen

Next ==
    \/ EnsureRuntime \/ TransportFailure
    \/ RegisterFatBinary \/ RegisterFatBinaryFails \/ RegisterFatBinaryLost
    \/ \E kind \in {"loaded", "library"} : ModuleLoad(kind)
    \/ \E r \in DOMAIN regs :
          \/ RegisterFatBinaryEnd(r) \/ UnregisterFatBinary(r)
          \/ \E f \in Funs, n \in Names, ok \in BOOLEAN :
                RegisterFunction(r, f, n, ok)
          \/ \E v \in Vars, fits \in BOOLEAN : RegisterVar(r, v, fits)
    \/ \E m \in DOMAIN mods :
          \/ ModuleUnload(m)
          \/ \E n \in Names :
                \/ RegisterKernel(m, n)
                \/ \E ok \in BOOLEAN : LibraryGetKernel(m, n, ok)
    \/ ShutdownBegin \/ ShutdownStep \/ ShutdownEnd

Spec == Init /\ [][Next]_vars

(***************************************************************************)
(* Properties                                                              *)
(***************************************************************************)
\* The tables hold values of their types, indices stay within the tables and
\* server identities are positive (0 is "none" on the wire and in handles).
TypeOK ==
    /\ gen \in 0..MaxGen /\ nextGen \in (gen + 1)..(MaxGen + 1)
    /\ regs \in Seq([state : States, module : 0..MaxModules, sgen : 0..MaxGen,
                     mid : Nat])
    /\ mods \in Seq([live : BOOLEAN, sgen : 1..MaxGen, id : Nat, kind : Kinds])
    /\ kernels \in Seq([live : BOOLEAN, sgen : 1..MaxGen, id : Nat, mid : Nat,
                        fun : Funs \cup {NoFun}, reg : 0..MaxRegs, name : Names,
                        abi : {"READY", "FAILED"}, abiOf : 0..MaxModules])
    /\ Len(regs) <= MaxRegs /\ Len(mods) <= MaxModules /\ Len(kernels) <= MaxKernels
    /\ syms \subseteq [var : Vars, sgen : 1..MaxGen, mid : Nat]
    /\ sess.mods \subseteq [id : Nat, image : 1..MaxModules]
    /\ sess.kernels \subseteq [id : Nat, mid : Nat, name : Names]
    /\ sess.globals \subseteq Nat /\ broken \subseteq Nat
    /\ sess.nextMid \in Nat \ {0} /\ sess.nextKid \in Nat \ {0}
    /\ call \in 0..(Len(regs) + 1)

\* A module of the server session always has exactly one live client handle, and
\* one the program can still unload: whatever uploads, failed unloads, lost
\* sessions and shutdowns came before, the image of a fat binary is still held
\* by its registration (__cudaUnregisterFatBinary keeps remote_module on failure).
NoLeakedModule ==
    /\ {[id |-> mods[m].id, image |-> m] : m \in {x \in DOMAIN mods : mods[x].live}}
          = sess.mods
    /\ \A m \in DOMAIN mods :
          mods[m].live /\ mods[m].kind = "fatbin" =>
             \E r \in DOMAIN regs : regs[r].module = m /\ Resolves(r)

\* A registration never chases a module handle that was reset (the comment in
\* corexRemoteRuntimeShutdown_locked): the handle it holds is live, of the
\* active session and names the module the registration uploaded; one that says
\* it is usable holds a handle.
NoChasedHandle ==
    \A r \in DOMAIN regs :
       /\ regs[r].module # 0 =>
             /\ HoldsModule(r) /\ regs[r].sgen = gen
             /\ ModuleLive(regs[r].module)
             /\ mods[regs[r].module].id = regs[r].mid
       /\ regs[r].state \in {"REMOTE_READY", "LIVE"} => regs[r].module # 0

\* cudaLaunchKernel sends the kernel id of a live handle: the server session has
\* that kernel under the bound name, in the image the handle was bound in, and a
\* host stub has one meaning.  Ids restart in every session, so a stale handle
\* would launch other code.  The exception is a module whose unload failed in the
\* backend, whose kernels the server dropped first.
LaunchesRightKernel ==
    \A k \in DOMAIN kernels : KernelLive(k) =>
       /\ kernels[k].fun # NoFun =>
             /\ BoundTo(kernels[k].fun) = {k}
             /\ regs[kernels[k].reg].mid = kernels[k].mid
             /\ regs[kernels[k].reg].module # 0
       /\ ServerHas(kernels[k].mid)
       /\ \/ kernels[k].mid \in broken
          \/ [id |-> kernels[k].id, mid |-> kernels[k].mid,
              name |-> kernels[k].name] \in sess.kernels

\* The argument layout a launch is packed with (abi_state READY) was read from
\* the image the server runs the kernel from.
AbiOfOwnImage ==
    \A k \in DOMAIN kernels : KernelLive(k) /\ kernels[k].abi = "READY" =>
       [id |-> kernels[k].mid, image |-> kernels[k].abiOf] \in sess.mods

\* A registered device global belongs to a module that is still loaded and held,
\* and a host shadow names one global: module_unload_after_runtime retires the
\* globals with the image that owns their storage.
SymbolsOwned ==
    \A s \in syms :
       /\ s.sgen = gen /\ s.mid \in sess.globals /\ ServerHas(s.mid)
       /\ \E r \in DOMAIN regs : regs[r].module # 0 /\ regs[r].mid = s.mid
       /\ \A t \in syms : t.var = s.var => t = s

=============================================================================
