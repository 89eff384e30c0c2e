------------------------- MODULE RegistrationProofs -------------------------
(***************************************************************************)
(* Proofs about Registration, for every set of stubs, names and shadows    *)
(* and every size of the tables: no module of the server is leaked, no     *)
(* registration chases a module handle that was reset, a launch reaches    *)
(* the kernel that was bound with the layout of its own image, and device  *)
(* globals belong to loaded images.                                        *)
(*                                                                         *)
(* The effects on the tables are few and shared by the actions: an upload, *)
(* a new kernel handle, an unload, a failed unload, and the loss of        *)
(* everything with the session.                                            *)
(***************************************************************************)
EXTENDS Registration, TLAPS

Registrations == [state : States, module : 0..MaxModules, sgen : 0..MaxGen, mid : Nat]
Modules == [live : BOOLEAN, sgen : 1..MaxGen, id : Nat, kind : Kinds]
Kernels == [live : BOOLEAN, sgen : 1..MaxGen, id : Nat, mid : Nat,
            fun : Funs \cup {NoFun}, reg : 0..MaxRegs, name : Names,
            abi : {"READY", "FAILED"}, abiOf : 0..MaxModules]
Sessions == [mods : SUBSET [id : Nat, image : 1..MaxModules],
             kernels : SUBSET [id : Nat, mid : Nat, name : Names],
             globals : SUBSET Nat, nextMid : Nat \ {0}, nextKid : Nat \ {0}]

GensTyped == gen \in 0..MaxGen /\ nextGen \in (gen + 1)..(MaxGen + 1)
RegsTyped == regs \in Seq(Registrations) /\ Len(regs) <= MaxRegs
ModsTyped == mods \in Seq(Modules) /\ Len(mods) <= MaxModules
KernelsTyped == kernels \in Seq(Kernels) /\ Len(kernels) <= MaxKernels
SymsTyped == syms \subseteq [var : Vars, sgen : 1..MaxGen, mid : Nat]
SessTyped == sess \in Sessions /\ broken \subseteq Nat
CallTyped == call \in 0..(Len(regs) + 1)

Typed == /\ GensTyped /\ RegsTyped /\ ModsTyped /\ KernelsTyped
         /\ SymsTyped /\ SessTyped /\ CallTyped

\* A live module handle stands for an entry of the server's table under an
\* identity of its own, and the other way round; a fat binary's is held by a
\* registration.
ModulesOk ==
    /\ \A m \in DOMAIN mods : mods[m].live =>
          /\ gen # 0 /\ mods[m].sgen = gen /\ mods[m].id < sess.nextMid
          /\ [id |-> mods[m].id, image |-> m] \in sess.mods
          /\ mods[m].kind = "fatbin" => \E r \in DOMAIN regs : regs[r].module = m
    /\ \A m, n \in DOMAIN mods :
          mods[m].live /\ mods[n].live /\ mods[m].id = mods[n].id => m = n
    /\ \A x \in sess.mods :
          x.image \in DOMAIN mods /\ mods[x.image].live /\ mods[x.image].id = x.id

\* A registration that holds a handle holds a live one of the session, which
\* no other registration holds.
Holds(r) ==
    /\ regs[r].module \in DOMAIN mods
    /\ mods[regs[r].module].live /\ mods[regs[r].module].kind = "fatbin"
    /\ mods[regs[r].module].id = regs[r].mid
    /\ regs[r].sgen = gen
    /\ regs[r].state \in {"LIVE", "REMOTE_READY", "UNLOAD_FAILED"}

RegsOk ==
    /\ \A r \in DOMAIN regs :
          /\ regs[r].module # 0 => Holds(r)
          /\ regs[r].state \in {"LIVE", "REMOTE_READY"} => regs[r].module # 0
    /\ \A q, r \in DOMAIN regs :
          regs[q].module # 0 /\ regs[q].module = regs[r].module => q = r

\* What a live kernel handle k relies on.
KernelOk(k) ==
    /\ gen # 0 /\ kernels[k].sgen = gen
    /\ ServerHas(kernels[k].mid)
    /\ \/ kernels[k].mid \in broken
       \/ [id |-> kernels[k].id, mid |-> kernels[k].mid,
           name |-> kernels[k].name] \in sess.kernels
    /\ kernels[k].abi = "READY" =>
          [id |-> kernels[k].mid, image |-> kernels[k].abiOf] \in sess.mods
    /\ kernels[k].fun # NoFun =>
          /\ kernels[k].reg \in DOMAIN regs
          /\ regs[kernels[k].reg].mid = kernels[k].mid
          /\ regs[kernels[k].reg].module # 0

KernelsOk ==
    /\ \A k \in DOMAIN kernels : kernels[k].live => KernelOk(k)
    /\ \A j, k \in DOMAIN kernels :
          /\ kernels[j].live /\ kernels[k].live
          /\ kernels[j].fun # NoFun /\ kernels[j].fun = kernels[k].fun
          => j = k

IInv == Typed /\ ModulesOk /\ RegsOk /\ KernelsOk /\ SymbolsOwned

-----------------------------------------------------------------------------
(* Tables as sequences                                                     *)

\* A new entry at the end of a table.
LEMMA AppendView ==
    ASSUME NEW S, NEW s \in Seq(S), NEW e \in S
    PROVE  /\ Append(s, e) \in Seq(S) /\ Len(Append(s, e)) = Len(s) + 1
           /\ Len(s) \in Nat /\ DOMAIN s = 1..Len(s)
           /\ DOMAIN Append(s, e) = DOMAIN s \cup {Len(s) + 1}
           /\ Len(s) + 1 \notin DOMAIN s
           /\ Append(s, e)[Len(s) + 1] = e
           /\ \A i \in DOMAIN s : Append(s, e)[i] = s[i]
OBVIOUS

\* A table with the same indices.
LEMMA SameLength ==
    ASSUME NEW S, NEW T, NEW s \in Seq(S), NEW f \in [DOMAIN s -> T]
    PROVE  f \in Seq(T) /\ Len(f) = Len(s) /\ DOMAIN f = DOMAIN s
OBVIOUS

\* The same for the registrations.
LEMMA SameRegistrations ==
    \A s \in Seq(Registrations) : \A f \in [DOMAIN s -> Registrations] :
       f \in Seq(Registrations) /\ Len(f) = Len(s) /\ DOMAIN f = DOMAIN s
BY SameLength

\* The entries of the tables and their indices.
LEMMA Entries ==
    ASSUME Typed
    PROVE  /\ \A r \in DOMAIN regs : regs[r] \in Registrations /\ r \in 1..MaxRegs
           /\ \A m \in DOMAIN mods : mods[m] \in Modules /\ m \in 1..MaxModules
           /\ \A k \in DOMAIN kernels : kernels[k] \in Kernels
           /\ Len(regs) \in Nat /\ DOMAIN regs = 1..Len(regs)
           /\ Len(mods) \in Nat /\ DOMAIN mods = 1..Len(mods)
           /\ Len(kernels) \in Nat /\ DOMAIN kernels = 1..Len(kernels)
<1>1. \A r \in DOMAIN regs : regs[r] \in Registrations
  BY DEF Typed, RegsTyped
<1>2. \A m \in DOMAIN mods : mods[m] \in Modules
  BY DEF Typed, ModsTyped
<1>3. \A k \in DOMAIN kernels : kernels[k] \in Kernels
  BY DEF Typed, KernelsTyped
<1>4. Len(regs) \in Nat /\ DOMAIN regs = 1..Len(regs) /\ Len(regs) <= MaxRegs
  BY DEF Typed, RegsTyped
<1>5. Len(mods) \in Nat /\ DOMAIN mods = 1..Len(mods) /\ Len(mods) <= MaxModules
  BY DEF Typed, ModsTyped
<1>6. Len(kernels) \in Nat /\ DOMAIN kernels = 1..Len(kernels)
  BY DEF Typed, KernelsTyped
<1>7. /\ \A r \in DOMAIN regs : r \in 1..MaxRegs
      /\ \A m \in DOMAIN mods : m \in 1..MaxModules
  BY <1>4, <1>5, BoundAssumption
<1> QED
  BY Zenon, <1>1, <1>2, <1>3, <1>4, <1>5, <1>6, <1>7

\* The fields of an entry.
LEMMA Fields ==
    /\ \A x \in Registrations : /\ x.state \in States /\ x.module \in 0..MaxModules
                                /\ x.sgen \in 0..MaxGen /\ x.mid \in Nat
    /\ \A x \in Modules : /\ x.live \in BOOLEAN /\ x.sgen \in 1..MaxGen
                          /\ x.id \in Nat /\ x.kind \in Kinds
    /\ \A x \in Kernels : /\ x.live \in BOOLEAN /\ x.sgen \in 1..MaxGen
                          /\ x.id \in Nat /\ x.mid \in Nat
BY Zenon DEF Registrations, Modules, Kernels

-----------------------------------------------------------------------------
(* The invariant implies the properties                                    *)

\* What the runtime does to single entries keeps their types.
LEMMA EntryUpdates ==
    /\ \A x \in Kernels : /\ [x EXCEPT !.live = FALSE, !.id = 0] \in Kernels
                          /\ ~[x EXCEPT !.live = FALSE, !.id = 0].live
    /\ \A x \in Registrations :
          [x EXCEPT !.state = "UNLOAD_FAILED"] \in Registrations
<1>1. ASSUME NEW x \in Kernels
      PROVE  /\ [x EXCEPT !.live = FALSE, !.id = 0] \in Kernels
             /\ ~[x EXCEPT !.live = FALSE, !.id = 0].live
  BY DEF Kernels
<1>2. ASSUME NEW x \in Registrations
      PROVE  [x EXCEPT !.state = "UNLOAD_FAILED"] \in Registrations
  BY DEF Registrations, States
<1> QED
  BY Zenon, <1>1, <1>2

LEMMA InvImplies ==
    ASSUME IInv
    PROVE  /\ TypeOK /\ NoLeakedModule /\ NoChasedHandle
           /\ LaunchesRightKernel /\ AbiOfOwnImage /\ SymbolsOwned
<1>1. TypeOK
  BY Zenon DEF IInv, Typed, GensTyped, RegsTyped, ModsTyped, KernelsTyped, SymsTyped, SessTyped,
         CallTyped, TypeOK, Registrations, Modules, Kernels, Sessions
<1>2. {[id |-> mods[m].id, image |-> m] : m \in {x \in DOMAIN mods : mods[x].live}} = sess.mods
  <2> DEFINE L == {[id |-> mods[m].id, image |-> m] : m \in {x \in DOMAIN mods : mods[x].live}}
  <2>1. \A y \in L : y \in sess.mods
    BY DEF IInv, ModulesOk
  <2>2. \A y \in sess.mods : y \in L
    <3> SUFFICES ASSUME NEW y \in sess.mods PROVE y \in L
      OBVIOUS
    <3>1. y.image \in DOMAIN mods /\ mods[y.image].live /\ mods[y.image].id = y.id
      BY Zenon DEF IInv, ModulesOk
    <3>2. y = [id |-> y.id, image |-> y.image]
      BY Zenon DEF IInv, Typed, SessTyped, Sessions
    <3>3. y = [id |-> mods[y.image].id, image |-> y.image]
      BY Zenon, <3>1, <3>2
    <3> QED
      BY Zenon, <3>1, <3>3
  <2> HIDE DEF L
  <2>3. L = sess.mods
    BY Zenon, <2>1, <2>2
  <2> QED
    BY Zenon, <2>3 DEF L
<1>3. NoLeakedModule
  <2>1. ASSUME NEW m \in DOMAIN mods, mods[m].live, mods[m].kind = "fatbin"
        PROVE  \E r \in DOMAIN regs : regs[r].module = m /\ Resolves(r)
    <3>1. PICK r \in DOMAIN regs : regs[r].module = m
      BY Zenon, <2>1 DEF IInv, ModulesOk
    <3>2. m # 0
      BY Entries DEF IInv
    <3>3. regs[r].sgen = gen
      BY Zenon, <3>1, <3>2 DEF IInv, RegsOk, Holds
    <3> QED
      BY Zenon, <3>1, <3>3 DEF Resolves
  <2> QED
    BY Zenon, <1>2, <2>1 DEF NoLeakedModule
<1>4. NoChasedHandle
  <2> SUFFICES ASSUME NEW r \in DOMAIN regs
               PROVE  /\ regs[r].module # 0 =>
                           /\ HoldsModule(r) /\ regs[r].sgen = gen
                           /\ ModuleLive(regs[r].module)
                           /\ mods[regs[r].module].id = regs[r].mid
                      /\ regs[r].state \in {"REMOTE_READY", "LIVE"} => regs[r].module # 0
    BY Zenon DEF NoChasedHandle
  <2>1. regs[r].state \in {"REMOTE_READY", "LIVE"} => regs[r].module # 0
    BY Zenon DEF IInv, RegsOk
  <2>2. ASSUME regs[r].module # 0
        PROVE  /\ HoldsModule(r) /\ regs[r].sgen = gen
               /\ ModuleLive(regs[r].module)
               /\ mods[regs[r].module].id = regs[r].mid
    <3>1. Holds(r)
      BY Zenon, <2>2 DEF IInv, RegsOk
    <3>2. mods[regs[r].module].sgen = gen
      BY Zenon, <3>1 DEF Holds, IInv, ModulesOk
    <3> QED
      BY Zenon, <2>2, <3>1, <3>2 DEF Holds, HoldsModule, ModuleLive
  <2> QED
    BY Zenon, <2>1, <2>2
<1>5. \A k \in DOMAIN kernels : KernelLive(k) => kernels[k].live /\ KernelOk(k)
  BY Zenon DEF IInv, KernelsOk, KernelLive
<1>6. LaunchesRightKernel
  <2> SUFFICES ASSUME NEW k \in DOMAIN kernels, KernelLive(k), kernels[k].fun # NoFun
               PROVE  BoundTo(kernels[k].fun) = {k}
    BY Zenon, <1>5 DEF LaunchesRightKernel, KernelOk
  <2>1. \A j \in BoundTo(kernels[k].fun) : j = k
    BY Zenon DEF BoundTo, KernelLive, IInv, KernelsOk
  <2>2. k \in BoundTo(kernels[k].fun)
    BY Zenon DEF BoundTo
  <2> QED
    BY Zenon, <2>1, <2>2
<1>7. AbiOfOwnImage
  BY Zenon, <1>5 DEF AbiOfOwnImage, KernelOk
<1> QED
  BY Zenon, <1>1, <1>3, <1>4, <1>6, <1>7 DEF IInv

-----------------------------------------------------------------------------
(* The end of a session                                                    *)

\* Nothing live is left on either side.
LEMMA AllGone ==
    ASSUME Typed',
           \A m \in DOMAIN mods' : ~mods'[m].live,
           \A k \in DOMAIN kernels' : ~kernels'[k].live,
           \A r \in DOMAIN regs' : regs'[r].module = 0
                                   /\ regs'[r].state \notin {"LIVE", "REMOTE_READY"},
           syms' = {}, sess'.mods = {}
    PROVE  IInv'
<1>1. ModulesOk'
  BY Zenon DEF ModulesOk
<1>2. RegsOk'
  BY Zenon DEF RegsOk
<1>3. KernelsOk'
  BY Zenon DEF KernelsOk
<1>4. SymbolsOwned'
  BY Zenon DEF SymbolsOwned
<1> QED
  BY Zenon, <1>1, <1>2, <1>3, <1>4 DEF IInv

LEMMA InvInit == Init => IInv
<1> SUFFICES ASSUME Init PROVE IInv
  OBVIOUS
<1>1. Typed
  BY BoundAssumption DEF Init, Typed, GensTyped, RegsTyped, ModsTyped, KernelsTyped, SymsTyped,
     SessTyped, CallTyped, SessionInit, Sessions
<1>2. ModulesOk /\ RegsOk /\ KernelsOk /\ SymbolsOwned
  BY DEF Init, ModulesOk, RegsOk, KernelsOk, SymbolsOwned, SessionInit
<1> QED
  BY Zenon, <1>1, <1>2 DEF IInv

\* mark_session_failed_locked leaves no live handle and no symbol.
LEMMA SessionFailed ==
    ASSUME IInv, MarkSessionFailed
    PROVE  /\ GensTyped' /\ ModsTyped' /\ KernelsTyped' /\ SymsTyped' /\ SessTyped'
           /\ \A m \in DOMAIN mods' : ~mods'[m].live
           /\ \A k \in DOMAIN kernels' : ~kernels'[k].live
           /\ syms' = {} /\ sess'.mods = {}
<1> USE DEF MarkSessionFailed
<1>1. GensTyped'
  BY BoundAssumption DEF GensTyped, IInv, Typed
<1>2. SessTyped' /\ sess'.mods = {}
  BY DEF SessTyped, Sessions, SessionInit
<1>3. syms' = {} /\ SymsTyped'
  BY Zenon DEF IInv, SymbolsOwned, SymsTyped
<1>4. ModsTyped' /\ \A m \in DOMAIN mods' : ~mods'[m].live
  <2>1. \A m \in DOMAIN mods : mods[m] \in Modules
    BY Zenon, Entries DEF IInv
  <2>2. \A m \in DOMAIN mods : mods[m].sgen # gen => ~mods[m].live
    BY Zenon DEF IInv, ModulesOk
  <2>3. \A m \in DOMAIN mods : LostModules[m] \in Modules /\ ~LostModules[m].live
    BY Zenon, <2>1, <2>2 DEF LostModules, Modules
  <2>4. LostModules \in [DOMAIN mods -> Modules]
    BY Zenon, <2>3 DEF LostModules
  <2>5. mods' = LostModules /\ mods \in Seq(Modules) /\ Len(mods) <= MaxModules
    BY Zenon DEF IInv, Typed, ModsTyped
  <2>6. mods' \in Seq(Modules) /\ Len(mods') = Len(mods) /\ DOMAIN mods' = DOMAIN mods
    BY Zenon, <2>4, <2>5, SameLength
  <2> QED
    BY Zenon, <2>3, <2>5, <2>6 DEF ModsTyped
<1>5. KernelsTyped' /\ \A k \in DOMAIN kernels' : ~kernels'[k].live
  <2>1. \A k \in DOMAIN kernels : kernels[k] \in Kernels
    BY Zenon, Entries DEF IInv
  <2>2. \A k \in DOMAIN kernels : kernels[k].sgen # gen => ~kernels[k].live
    BY Zenon DEF IInv, KernelsOk, KernelOk
  <2>3. \A k \in DOMAIN kernels : LostKernels[k] \in Kernels /\ ~LostKernels[k].live
    BY <2>1, <2>2 DEF LostKernels, Kernels
  <2>4. LostKernels \in [DOMAIN kernels -> Kernels]
    BY Zenon, <2>3 DEF LostKernels
  <2>5. kernels' = LostKernels /\ kernels \in Seq(Kernels) /\ Len(kernels) <= MaxKernels
    BY Zenon DEF IInv, Typed, KernelsTyped
  <2>6. kernels' \in Seq(Kernels) /\ Len(kernels') = Len(kernels)
        /\ DOMAIN kernels' = DOMAIN kernels
    BY Zenon, <2>4, <2>5, SameLength
  <2> QED
    BY Zenon, <2>3, <2>5, <2>6 DEF KernelsTyped
<1> QED
  BY Zenon, <1>1, <1>2, <1>3, <1>4, <1>5

\* and the registrations without their handles.
LEMMA RegistrationsLost ==
    ASSUME IInv
    PROVE  /\ LostRegs \in Seq(Registrations)
           /\ Len(LostRegs) = Len(regs) /\ DOMAIN LostRegs = DOMAIN regs
           /\ \A r \in DOMAIN regs : /\ LostRegs[r].module = 0
                                     /\ LostRegs[r].state \notin {"LIVE", "REMOTE_READY"}
<1>1. \A r \in DOMAIN regs : regs[r] \in Registrations
  BY Zenon, Entries DEF IInv
<1>2. \A r \in DOMAIN regs : regs[r].sgen # gen =>
          regs[r].module = 0 /\ regs[r].state \notin {"LIVE", "REMOTE_READY"}
  BY Zenon DEF IInv, RegsOk, Holds
<1>3. \A r \in DOMAIN regs : /\ LostRegs[r] \in Registrations
                             /\ LostRegs[r].module = 0
                             /\ LostRegs[r].state \notin {"LIVE", "REMOTE_READY"}
  <2> SUFFICES ASSUME NEW r \in DOMAIN regs
               PROVE  /\ LostRegistration(r) \in Registrations
                      /\ LostRegistration(r).module = 0
                      /\ LostRegistration(r).state \notin {"LIVE", "REMOTE_READY"}
    BY Zenon DEF LostRegs
  <2>1. CASE regs[r].sgen # gen
    BY Zenon, <2>1, <1>1, <1>2 DEF LostRegistration
  <2>2. CASE regs[r].sgen = gen
    <3>1. LostRegistration(r) = [regs[r] EXCEPT !.module = 0,
                                   !.state = IF @ = "FAILED" THEN @ ELSE "DEAD"]
      BY Zenon, <2>2 DEF LostRegistration
    <3>2. 0 \in 0..MaxModules
      BY BoundAssumption
    <3> QED
      BY Zenon, <1>1, <3>1, <3>2 DEF Registrations, States
  <2> QED
    BY Zenon, <2>1, <2>2
<1>4. LostRegs \in [DOMAIN regs -> Registrations]
  BY Zenon, <1>3 DEF LostRegs
<1>5. regs \in Seq(Registrations)
  BY Zenon DEF IInv, Typed, RegsTyped
<1> QED
  BY <1>3, <1>4, <1>5, SameLength

LEMMA InvTransportFailure == IInv /\ TransportFailure => IInv'
<1> SUFFICES ASSUME IInv, TransportFailure PROVE IInv'
  OBVIOUS
<1>1. MarkSessionFailed /\ regs' = LostRegs /\ call' = call
  BY Zenon DEF TransportFailure
<1>2. RegsTyped' /\ CallTyped'
  BY Zenon, <1>1, RegistrationsLost DEF RegsTyped, CallTyped, IInv, Typed
<1>3. Typed'
  BY Zenon, <1>1, <1>2, SessionFailed DEF Typed
<1>4. \A r \in DOMAIN regs' : regs'[r].module = 0
                              /\ regs'[r].state \notin {"LIVE", "REMOTE_READY"}
  BY Zenon, <1>1, RegistrationsLost
<1> QED
  BY Zenon, <1>1, <1>3, <1>4, SessionFailed, AllGone

LEMMA FailedRegistrationTyped ==
    /\ FailedRegistration \in Registrations /\ FailedRegistration.module = 0
    /\ FailedRegistration.state = "FAILED"
BY BoundAssumption DEF FailedRegistration, Registrations, States

LEMMA InvRegisterFatBinaryLost == IInv /\ RegisterFatBinaryLost => IInv'
<1> SUFFICES ASSUME IInv, RegisterFatBinaryLost PROVE IInv'
  OBVIOUS
<1>1. /\ MarkSessionFailed /\ regs' = Append(LostRegs, FailedRegistration) /\ call' = call
      /\ Len(regs) < MaxRegs
  BY Zenon DEF RegisterFatBinaryLost
<1> DEFINE n == Len(LostRegs) + 1
<1>2. /\ regs' \in Seq(Registrations) /\ Len(regs') = n
      /\ DOMAIN regs' = DOMAIN LostRegs \cup {n}
      /\ regs'[n] = FailedRegistration
      /\ \A i \in DOMAIN LostRegs : regs'[i] = LostRegs[i]
  <2>1. LostRegs \in Seq(Registrations) /\ FailedRegistration \in Registrations
    BY Zenon, RegistrationsLost, FailedRegistrationTyped
  <2> QED
    BY <1>1, <2>1, AppendView
<1>3. n = Len(regs) + 1 /\ Len(regs) \in Nat
  BY Zenon, RegistrationsLost, Entries DEF IInv
<1>4. RegsTyped' /\ CallTyped'
  BY <1>1, <1>2, <1>3, BoundAssumption DEF RegsTyped, CallTyped, IInv, Typed
<1>5. Typed'
  BY Zenon, <1>1, <1>4, SessionFailed DEF Typed
<1> HIDE DEF n
<1>6. \A r \in DOMAIN regs' : regs'[r].module = 0
                              /\ regs'[r].state \notin {"LIVE", "REMOTE_READY"}
  BY Zenon, <1>2, RegistrationsLost, FailedRegistrationTyped
<1> QED
  BY Zenon, <1>1, <1>5, <1>6, SessionFailed, AllGone

LEMMA InvShutdownEnd == IInv /\ ShutdownEnd => IInv'
<1> SUFFICES ASSUME IInv, ShutdownEnd PROVE IInv'
  OBVIOUS
<1>1. GensTyped' /\ SymsTyped' /\ syms' = {}
  <2>1. gen' = 0 /\ nextGen' = nextGen /\ syms' = {}
    BY Zenon DEF ShutdownEnd
  <2> QED
    BY <2>1, BoundAssumption DEF GensTyped, SymsTyped, IInv, Typed
<1>2. SessTyped' /\ sess'.mods = {}
  <2>1. sess' = SessionInit /\ broken' = {}
    BY Zenon DEF ShutdownEnd
  <2> QED
    BY <2>1 DEF SessTyped, Sessions, SessionInit
<1>3. ModsTyped' /\ \A m \in DOMAIN mods' : ~mods'[m].live
  <2>1. \A m \in DOMAIN mods : mods[m] \in Modules
    BY Zenon, Entries DEF IInv
  <2>2. mods' = [m \in DOMAIN mods |-> [mods[m] EXCEPT !.live = FALSE, !.id = 0]]
    BY Zenon DEF ShutdownEnd
  <2>3. \A m \in DOMAIN mods : mods'[m] \in Modules /\ ~mods'[m].live
    BY Zenon, <2>1, <2>2 DEF Modules
  <2>4. mods' \in [DOMAIN mods -> Modules]
    BY Zenon, <2>2, <2>3
  <2>5. mods \in Seq(Modules) /\ Len(mods) <= MaxModules
    BY Zenon DEF IInv, Typed, ModsTyped
  <2>6. mods' \in Seq(Modules) /\ Len(mods') = Len(mods) /\ DOMAIN mods' = DOMAIN mods
    BY Zenon, <2>4, <2>5, SameLength
  <2> QED
    BY Zenon, <2>3, <2>5, <2>6 DEF ModsTyped
<1>4. KernelsTyped' /\ \A k \in DOMAIN kernels' : ~kernels'[k].live
  <2>1. \A k \in DOMAIN kernels : kernels[k] \in Kernels
    BY Zenon, Entries DEF IInv
  <2>2. kernels' = [k \in DOMAIN kernels |->
                      [kernels[k] EXCEPT !.live = FALSE, !.id = 0, !.mid = 0]]
    BY Zenon DEF ShutdownEnd
  <2>3. \A k \in DOMAIN kernels : kernels'[k] \in Kernels /\ ~kernels'[k].live
    BY <2>1, <2>2 DEF Kernels
  <2>4. kernels' \in [DOMAIN kernels -> Kernels]
    BY Zenon, <2>2, <2>3
  <2>5. kernels \in Seq(Kernels) /\ Len(kernels) <= MaxKernels
    BY Zenon DEF IInv, Typed, KernelsTyped
  <2>6. kernels' \in Seq(Kernels) /\ Len(kernels') = Len(kernels)
        /\ DOMAIN kernels' = DOMAIN kernels
    BY Zenon, <2>4, <2>5, SameLength
  <2> QED
    BY Zenon, <2>3, <2>5, <2>6 DEF KernelsTyped
<1>5. /\ RegsTyped' /\ CallTyped'
      /\ \A r \in DOMAIN regs' : regs'[r].module = 0
                                 /\ regs'[r].state \notin {"LIVE", "REMOTE_READY"}
  <2>1. regs' = [r \in DOMAIN regs |-> Finalized(r)] /\ call' = 0
    BY Zenon DEF ShutdownEnd
  <2>2. \A r \in DOMAIN regs : /\ Finalized(r) \in Registrations
                               /\ Finalized(r).module = 0
                               /\ Finalized(r).state \notin {"LIVE", "REMOTE_READY"}
    <3> SUFFICES ASSUME NEW r \in DOMAIN regs
                 PROVE  /\ Finalized(r) \in Registrations
                        /\ Finalized(r).module = 0
                        /\ Finalized(r).state \notin {"LIVE", "REMOTE_READY"}
      OBVIOUS
    <3>1. regs[r] \in Registrations
      BY Zenon, Entries DEF IInv
    <3>2. regs[r].state \in {"LIVE", "REMOTE_READY"} => regs[r].module # 0
      BY Zenon DEF IInv, RegsOk
    <3>3. CASE regs[r].module # 0
      <4>1. Finalized(r) = [regs[r] EXCEPT !.module = 0, !.state = "DEAD"]
        BY Zenon, <3>3 DEF Finalized
      <4>2. 0 \in 0..MaxModules
        BY BoundAssumption
      <4> QED
        BY Zenon, <3>1, <4>1, <4>2 DEF Registrations, States
    <3>4. CASE regs[r].module = 0
      BY Zenon, <3>1, <3>2, <3>4 DEF Finalized
    <3> QED
      BY Zenon, <3>3, <3>4
  <2>3. regs' \in [DOMAIN regs -> Registrations]
    BY Zenon, <2>1, <2>2
  <2>4. regs \in Seq(Registrations) /\ Len(regs) <= MaxRegs /\ Len(regs) \in Nat
    BY DEF IInv, Typed, RegsTyped
  <2>5. regs' \in Seq(Registrations) /\ Len(regs') = Len(regs) /\ DOMAIN regs' = DOMAIN regs
    BY Zenon, <2>3, <2>4, SameLength
  <2> QED
    BY <2>1, <2>2, <2>4, <2>5 DEF RegsTyped, CallTyped
<1>6. Typed'
  BY Zenon, <1>1, <1>2, <1>3, <1>4, <1>5 DEF Typed
<1> QED
  BY Zenon, <1>1, <1>2, <1>3, <1>4, <1>5, <1>6, AllGone

\* A session begins when nothing of an earlier one is live.
LEMMA InvEnsureRuntime == IInv /\ EnsureRuntime => IInv'
<1> SUFFICES ASSUME IInv, EnsureRuntime PROVE IInv'
  OBVIOUS
<1>1. /\ gen = 0 /\ nextGen <= MaxGen /\ gen' = nextGen /\ nextGen' = nextGen + 1
      /\ UNCHANGED <<regs, mods, kernels, syms, sess, call, broken>>
  BY Zenon DEF EnsureRuntime, Active
<1>2. Typed'
  <2>1. GensTyped'
    BY <1>1, BoundAssumption DEF GensTyped, IInv, Typed
  <2> QED
    BY Zenon, <1>1, <2>1 DEF IInv, Typed, RegsTyped, ModsTyped, KernelsTyped, SymsTyped, SessTyped,
       CallTyped
<1>3. \A m \in DOMAIN mods : ~mods[m].live
  BY Zenon, <1>1 DEF IInv, ModulesOk
<1>4. \A k \in DOMAIN kernels : ~kernels[k].live
  BY Zenon, <1>1 DEF IInv, KernelsOk, KernelOk
<1>5. \A r \in DOMAIN regs : regs[r].module = 0 /\ regs[r].state \notin {"LIVE", "REMOTE_READY"}
  BY Zenon, <1>3 DEF IInv, RegsOk, Holds
<1>6. syms = {}
  <2> SUFFICES ASSUME NEW x \in syms PROVE FALSE
    BY Zenon
  <2>1. x.sgen = gen
    BY Zenon DEF IInv, SymbolsOwned
  <2>2. x.sgen \in 1..MaxGen
    BY Zenon DEF IInv, Typed, SymsTyped
  <2> QED
    BY <1>1, <2>1, <2>2
<1>7. sess.mods = {}
  BY Zenon, <1>3 DEF IInv, ModulesOk
<1> QED
  BY Zenon, <1>1, <1>2, <1>3, <1>4, <1>5, <1>6, <1>7, AllGone

-----------------------------------------------------------------------------
(* Registrations change their state                                        *)

\* The handles stay as they are: registrations may change their state, failed
\* ones may be added, and the server may lose kernels of broken modules.
LEMMA HandlesKept ==
    ASSUME IInv, Typed', UNCHANGED <<gen, mods, kernels, syms>>,
           sess'.mods = sess.mods, sess'.globals = sess.globals, sess'.nextMid = sess.nextMid,
           \A k \in DOMAIN kernels : kernels[k].live =>
              \/ kernels[k].mid \in broken'
              \/ [id |-> kernels[k].id, mid |-> kernels[k].mid,
                  name |-> kernels[k].name] \in sess'.kernels,
           DOMAIN regs \subseteq DOMAIN regs',
           \A r \in DOMAIN regs : /\ regs'[r].module = regs[r].module
                                  /\ regs'[r].sgen = regs[r].sgen
                                  /\ regs'[r].mid = regs[r].mid,
           \A r \in DOMAIN regs' :
              /\ regs'[r].module # 0 =>
                    /\ r \in DOMAIN regs
                    /\ regs'[r].state \in {"LIVE", "REMOTE_READY", "UNLOAD_FAILED"}
              /\ regs'[r].state \in {"LIVE", "REMOTE_READY"} => regs'[r].module # 0
    PROVE  IInv'
<1>1. ModulesOk'
  <2>1. \A m \in DOMAIN mods : mods[m].live /\ mods[m].kind = "fatbin" =>
            \E r \in DOMAIN regs' : regs'[r].module = m
    <3> SUFFICES ASSUME NEW m \in DOMAIN mods, mods[m].live, mods[m].kind = "fatbin"
                 PROVE  \E r \in DOMAIN regs' : regs'[r].module = m
      OBVIOUS
    <3>1. PICK r \in DOMAIN regs : regs[r].module = m
      BY Zenon DEF IInv, ModulesOk
    <3>2. r \in DOMAIN regs' /\ regs'[r].module = m
      BY Zenon, <3>1
    <3> QED
      BY Zenon, <3>2
  <2>2. /\ \A m \in DOMAIN mods : mods[m].live =>
             /\ gen # 0 /\ mods[m].sgen = gen /\ mods[m].id < sess.nextMid
             /\ [id |-> mods[m].id, image |-> m] \in sess.mods
        /\ \A m, n \in DOMAIN mods :
             mods[m].live /\ mods[n].live /\ mods[m].id = mods[n].id => m = n
        /\ \A x \in sess.mods :
             x.image \in DOMAIN mods /\ mods[x.image].live /\ mods[x.image].id = x.id
    BY Zenon DEF IInv, ModulesOk
  <2> QED
    BY Zenon, <2>1, <2>2 DEF ModulesOk
<1>2. RegsOk'
  <2>1. ASSUME NEW r \in DOMAIN regs', regs'[r].module # 0 PROVE Holds(r)'
    <3>1. r \in DOMAIN regs /\ regs[r].module # 0
      BY Zenon, <2>1
    <3>2. Holds(r)
      BY Zenon, <3>1 DEF IInv, RegsOk
    <3> QED
      BY Zenon, <2>1, <3>1, <3>2 DEF Holds
  <2>2. ASSUME NEW q \in DOMAIN regs', NEW r \in DOMAIN regs',
               regs'[q].module # 0, regs'[q].module = regs'[r].module
        PROVE  q = r
    <3>1. /\ q \in DOMAIN regs /\ r \in DOMAIN regs
          /\ regs[q].module # 0 /\ regs[q].module = regs[r].module
      BY Zenon, <2>2
    <3> QED
      BY Zenon, <3>1 DEF IInv, RegsOk
  <2> QED
    BY Zenon, <2>1, <2>2 DEF RegsOk
<1>3. KernelsOk'
  <2>1. ASSUME NEW k \in DOMAIN kernels, kernels[k].live PROVE KernelOk(k)'
    <3>1. KernelOk(k)
      BY Zenon, <2>1 DEF IInv, KernelsOk
    <3>2. kernels[k].fun # NoFun =>
              /\ kernels[k].reg \in DOMAIN regs'
              /\ regs'[kernels[k].reg].mid = kernels[k].mid
              /\ regs'[kernels[k].reg].module # 0
      BY Zenon, <3>1 DEF KernelOk
    <3> QED
      BY Zenon, <2>1, <3>1, <3>2 DEF KernelOk, ServerHas
  <2>2. \A j, k \in DOMAIN kernels :
          /\ kernels[j].live /\ kernels[k].live
          /\ kernels[j].fun # NoFun /\ kernels[j].fun = kernels[k].fun
          => j = k
    BY Zenon DEF IInv, KernelsOk
  <2> QED
    BY Zenon, <2>1, <2>2 DEF KernelsOk
<1>4. SymbolsOwned'
  <2> SUFFICES ASSUME NEW x \in syms
               PROVE  /\ x.sgen = gen /\ x.mid \in sess.globals /\ ServerHas(x.mid)'
                      /\ \E r \in DOMAIN regs' : regs'[r].module # 0 /\ regs'[r].mid = x.mid
                      /\ \A t \in syms : t.var = x.var => t = x
    BY Zenon DEF SymbolsOwned
  <2>1. /\ x.sgen = gen /\ x.mid \in sess.globals /\ ServerHas(x.mid)
        /\ \E r \in DOMAIN regs : regs[r].module # 0 /\ regs[r].mid = x.mid
        /\ \A t \in syms : t.var = x.var => t = x
    BY Zenon DEF IInv, SymbolsOwned
  <2>2. ServerHas(x.mid)'
    BY Zenon, <2>1 DEF ServerHas
  <2>3. \E r \in DOMAIN regs' : regs'[r].module # 0 /\ regs'[r].mid = x.mid
    BY Zenon, <2>1
  <2> QED
    BY Zenon, <2>1, <2>2, <2>3
<1> QED
  BY Zenon, <1>1, <1>2, <1>3, <1>4 DEF IInv

\* The server still has the kernel of a live handle, or its module is broken.
LEMMA KernelsThere ==
    ASSUME IInv, NEW k \in DOMAIN kernels, kernels[k].live
    PROVE  \/ kernels[k].mid \in broken
           \/ [id |-> kernels[k].id, mid |-> kernels[k].mid,
               name |-> kernels[k].name] \in sess.kernels
BY Zenon DEF IInv, KernelsOk, KernelOk

\* The steps of a shutdown that change no table, and a stuttering step.
LEMMA OnlyCall ==
    ASSUME IInv, call' \in 0..(Len(regs) + 1),
           UNCHANGED <<gen, nextGen, regs, mods, kernels, syms, sess, broken>>
    PROVE  IInv'
<1>1. Typed'
  BY Zenon DEF IInv, Typed, GensTyped, RegsTyped, ModsTyped, KernelsTyped, SymsTyped, SessTyped,
     CallTyped
<1>2. \A r \in DOMAIN regs' :
          /\ regs'[r].module # 0 =>
                regs'[r].state \in {"LIVE", "REMOTE_READY", "UNLOAD_FAILED"}
          /\ regs'[r].state \in {"LIVE", "REMOTE_READY"} => regs'[r].module # 0
  BY Zenon DEF IInv, RegsOk, Holds
<1> QED
  BY Zenon, <1>1, <1>2, KernelsThere, HandlesKept

LEMMA InvRegisterFatBinaryFails == IInv /\ RegisterFatBinaryFails => IInv'
<1> SUFFICES ASSUME IInv, RegisterFatBinaryFails PROVE IInv'
  OBVIOUS
<1>1. /\ regs' = Append(regs, FailedRegistration) /\ Len(regs) < MaxRegs
      /\ UNCHANGED <<gen, nextGen, mods, kernels, syms, sess, call, broken>>
  BY Zenon DEF RegisterFatBinaryFails
<1> DEFINE n == Len(regs) + 1
<1>2. /\ regs' \in Seq(Registrations) /\ Len(regs') = n /\ Len(regs) \in Nat
      /\ DOMAIN regs' = DOMAIN regs \cup {n}
      /\ regs'[n] = FailedRegistration
      /\ \A i \in DOMAIN regs : regs'[i] = regs[i]
  <2>1. regs \in Seq(Registrations) /\ FailedRegistration \in Registrations
    BY Zenon, FailedRegistrationTyped DEF IInv, Typed, RegsTyped
  <2> QED
    BY <1>1, <2>1, AppendView
<1>3. RegsTyped' /\ CallTyped'
  BY <1>1, <1>2, BoundAssumption DEF RegsTyped, CallTyped, IInv, Typed
<1>4. Typed'
  BY Zenon, <1>1, <1>3 DEF IInv, Typed, GensTyped, ModsTyped, KernelsTyped, SymsTyped, SessTyped
<1> HIDE DEF n
<1>5. \A r \in DOMAIN regs' :
          /\ regs'[r].module # 0 =>
                /\ r \in DOMAIN regs
                /\ regs'[r].state \in {"LIVE", "REMOTE_READY", "UNLOAD_FAILED"}
          /\ regs'[r].state \in {"LIVE", "REMOTE_READY"} => regs'[r].module # 0
  BY <1>2, FailedRegistrationTyped DEF IInv, RegsOk, Holds
<1> QED
  BY Zenon, <1>1, <1>2, <1>4, <1>5, KernelsThere, HandlesKept

\* One registration gets another state.
LEMMA StateChanges ==
    ASSUME IInv, NEW r \in DOMAIN regs, NEW st \in States,
           regs' = [regs EXCEPT ![r].state = st]
    PROVE  /\ RegsTyped' /\ Len(regs') = Len(regs) /\ DOMAIN regs' = DOMAIN regs
           /\ \A q \in DOMAIN regs : /\ regs'[q].module = regs[q].module
                                     /\ regs'[q].sgen = regs[q].sgen
                                     /\ regs'[q].mid = regs[q].mid
                                     /\ regs'[q].state = IF q = r THEN st ELSE regs[q].state
<1>1. regs \in Seq(Registrations) /\ Len(regs) <= MaxRegs
  BY Zenon DEF IInv, Typed, RegsTyped
<1>2. \A q \in DOMAIN regs : regs[q] \in Registrations
  BY Zenon, Entries DEF IInv
<1>3. regs' \in [DOMAIN regs -> Registrations]
  BY Zenon, <1>2 DEF Registrations
<1>4. regs' \in Seq(Registrations) /\ Len(regs') = Len(regs) /\ DOMAIN regs' = DOMAIN regs
  BY <1>1, <1>3, SameLength
<1>5. \A q \in DOMAIN regs : /\ regs'[q].module = regs[q].module
                             /\ regs'[q].sgen = regs[q].sgen
                             /\ regs'[q].mid = regs[q].mid
                             /\ regs'[q].state = IF q = r THEN st ELSE regs[q].state
  BY Zenon, <1>2 DEF Registrations
<1> QED
  BY Zenon, <1>1, <1>4, <1>5 DEF RegsTyped

LEMMA InvRegisterFatBinaryEnd ==
    ASSUME IInv, NEW r \in DOMAIN regs, RegisterFatBinaryEnd(r)
    PROVE  IInv'
<1>1. /\ regs[r].state = "REMOTE_READY" /\ regs' = [regs EXCEPT ![r].state = "LIVE"]
      /\ UNCHANGED <<gen, nextGen, mods, kernels, syms, sess, call, broken>>
  BY Zenon DEF RegisterFatBinaryEnd
<1>2. "LIVE" \in States
  BY Zenon DEF States
<1>3. /\ RegsTyped' /\ Len(regs') = Len(regs) /\ DOMAIN regs' = DOMAIN regs
      /\ \A q \in DOMAIN regs : /\ regs'[q].module = regs[q].module
                                /\ regs'[q].sgen = regs[q].sgen
                                /\ regs'[q].mid = regs[q].mid
                                /\ regs'[q].state = IF q = r THEN "LIVE" ELSE regs[q].state
  BY Zenon, <1>1, <1>2, StateChanges
<1>4. Typed'
  BY Zenon, <1>1, <1>3 DEF IInv, Typed, GensTyped, ModsTyped, KernelsTyped, SymsTyped, SessTyped,
     CallTyped
<1>5. \A q \in DOMAIN regs' :
          /\ regs'[q].module # 0 =>
                regs'[q].state \in {"LIVE", "REMOTE_READY", "UNLOAD_FAILED"}
          /\ regs'[q].state \in {"LIVE", "REMOTE_READY"} => regs'[q].module # 0
  BY <1>1, <1>3 DEF IInv, RegsOk, Holds
<1> QED
  BY Zenon, <1>1, <1>3, <1>4, <1>5, KernelsThere, HandlesKept

\* The backend fails to unload a module, or nothing happens to it: no handle
\* changes, and the server's kernels go only with a broken module.
LEMMA UnloadFails ==
    ASSUME IInv, NEW m \in DOMAIN mods, UnloadRefused(m) \/ UnloadBreaks(m)
    PROVE  /\ UNCHANGED <<gen, nextGen, mods, kernels, syms>> /\ SessTyped'
           /\ sess'.mods = sess.mods /\ sess'.globals = sess.globals
           /\ sess'.nextMid = sess.nextMid
           /\ \A k \in DOMAIN kernels : kernels[k].live =>
                 \/ kernels[k].mid \in broken'
                 \/ [id |-> kernels[k].id, mid |-> kernels[k].mid,
                     name |-> kernels[k].name] \in sess'.kernels
<1>1. CASE UnloadRefused(m)
  <2>1. UNCHANGED <<gen, nextGen, mods, kernels, syms, sess, broken>>
    BY Zenon, <1>1 DEF UnloadRefused
  <2> QED
    BY Zenon, <2>1, KernelsThere DEF IInv, Typed, SessTyped
<1>2. CASE UnloadBreaks(m)
  <2>1. /\ sess' = [sess EXCEPT !.kernels = ServerKernelsWithout(mods[m].id)]
        /\ broken' = broken \cup {mods[m].id}
        /\ UNCHANGED <<gen, nextGen, mods, kernels, syms>>
    BY Zenon, <1>2 DEF UnloadBreaks
  <2>2. sess \in Sessions /\ broken \subseteq Nat /\ mods[m].id \in Nat
    BY Zenon, Entries, Fields DEF IInv, Typed, SessTyped
  <2>3. /\ sess'.mods = sess.mods /\ sess'.globals = sess.globals
        /\ sess'.nextMid = sess.nextMid
        /\ sess'.kernels = ServerKernelsWithout(mods[m].id)
    BY Zenon, <2>1, <2>2 DEF Sessions
  <2>4. ServerKernelsWithout(mods[m].id) \subseteq sess.kernels
    BY Zenon DEF ServerKernelsWithout
  <2>5. SessTyped'
    BY Zenon, <2>1, <2>2, <2>4 DEF SessTyped, Sessions
  <2>6. ASSUME NEW k \in DOMAIN kernels, kernels[k].live
        PROVE  \/ kernels[k].mid \in broken'
               \/ [id |-> kernels[k].id, mid |-> kernels[k].mid,
                   name |-> kernels[k].name] \in sess'.kernels
    <3>1. CASE kernels[k].mid \in broken \/ kernels[k].mid = mods[m].id
      BY Zenon, <2>1, <3>1
    <3>2. CASE ~(kernels[k].mid \in broken \/ kernels[k].mid = mods[m].id)
      <4> DEFINE t == [id |-> kernels[k].id, mid |-> kernels[k].mid, name |-> kernels[k].name]
      <4>1. t \in sess.kernels
        BY Zenon, <2>6, <3>2, KernelsThere
      <4>2. t.mid # mods[m].id
        BY Zenon, <3>2
      <4> QED
        BY Zenon, <4>1, <4>2, <2>3 DEF ServerKernelsWithout
    <3> QED
      BY Zenon, <3>1, <3>2
  <2> QED
    BY Zenon, <2>1, <2>3, <2>5, <2>6
<1> QED
  BY Zenon, <1>1, <1>2

-----------------------------------------------------------------------------
(* An image is unloaded                                                    *)

\* What UnloadDone does to the tables.
LEMMA UnloadEffect ==
    ASSUME IInv, NEW m \in DOMAIN mods, UnloadDone(m)
    PROVE  /\ ModsTyped' /\ KernelsTyped' /\ SymsTyped' /\ SessTyped' /\ GensTyped'
           /\ DOMAIN mods' = DOMAIN mods /\ ~mods'[m].live
           /\ \A n \in DOMAIN mods : n # m => mods'[n] = mods[n]
           /\ DOMAIN kernels' = DOMAIN kernels
           /\ \A k \in DOMAIN kernels : kernels'[k].live =>
                 kernels'[k] = kernels[k] /\ kernels[k].mid # mods[m].id
           /\ sess'.mods = {x \in sess.mods : x.id # mods[m].id}
           /\ sess'.kernels = {x \in sess.kernels : x.mid # mods[m].id}
           /\ sess'.globals = sess.globals \ {mods[m].id}
           /\ sess'.nextMid = sess.nextMid
           /\ \A x \in syms' : x \in syms /\ x.mid # mods[m].id
           /\ gen' = gen /\ broken' = broken /\ mods[m].live
<1> DEFINE id == mods[m].id
<1>1. /\ sess' = [sess EXCEPT !.mods = {x \in sess.mods : x.id # id},
                              !.kernels = ServerKernelsWithout(id),
                              !.globals = sess.globals \ {id}]
      /\ kernels' = LocalKernelsWithout(id)
      /\ syms' = SymbolsWithout(id)
      /\ mods' = [mods EXCEPT ![m].live = FALSE, ![m].id = 0]
      /\ UNCHANGED <<gen, nextGen, broken>> /\ mods[m].live
  BY Zenon DEF UnloadDone, ModuleLive
<1>2. sess \in Sessions
  BY Zenon DEF IInv, Typed, SessTyped
<1>3. /\ sess'.mods = {x \in sess.mods : x.id # id}
      /\ sess'.kernels = {x \in sess.kernels : x.mid # id}
      /\ sess'.globals = sess.globals \ {id}
      /\ sess'.nextMid = sess.nextMid
  BY Zenon, <1>1, <1>2 DEF Sessions, ServerKernelsWithout
<1>4. SessTyped' /\ GensTyped'
  <2>1. /\ {x \in sess.mods : x.id # id} \subseteq sess.mods
        /\ ServerKernelsWithout(id) \subseteq sess.kernels
        /\ sess.globals \ {id} \subseteq sess.globals
    BY Zenon DEF ServerKernelsWithout
  <2>2. sess' \in Sessions
    BY Zenon, <1>1, <1>2, <2>1 DEF Sessions
  <2> QED
    BY Zenon, <1>1, <2>2 DEF SessTyped, GensTyped, IInv, Typed
<1>5. /\ ModsTyped' /\ DOMAIN mods' = DOMAIN mods /\ ~mods'[m].live
      /\ \A n \in DOMAIN mods : n # m => mods'[n] = mods[n]
  <2>1. \A n \in DOMAIN mods : mods[n] \in Modules
    BY Zenon, Entries DEF IInv
  <2>2. mods' \in [DOMAIN mods -> Modules]
    BY Zenon, <1>1, <2>1 DEF Modules
  <2>3. mods \in Seq(Modules) /\ Len(mods) <= MaxModules
    BY Zenon DEF IInv, Typed, ModsTyped
  <2>4. mods' \in Seq(Modules) /\ Len(mods') = Len(mods) /\ DOMAIN mods' = DOMAIN mods
    BY Zenon, <2>2, <2>3, SameLength
  <2>5. ~mods'[m].live /\ \A n \in DOMAIN mods : n # m => mods'[n] = mods[n]
    BY Zenon, <1>1, <2>1 DEF Modules
  <2> QED
    BY Zenon, <2>3, <2>4, <2>5 DEF ModsTyped
<1>6. /\ KernelsTyped' /\ DOMAIN kernels' = DOMAIN kernels
      /\ \A k \in DOMAIN kernels : kernels'[k].live =>
            kernels'[k] = kernels[k] /\ kernels[k].mid # id
  <2>1. \A k \in DOMAIN kernels : kernels[k] \in Kernels
    BY Zenon, Entries DEF IInv
  <2>2. \A k \in DOMAIN kernels :
            /\ kernels'[k] \in Kernels
            /\ kernels'[k].live => kernels'[k] = kernels[k] /\ kernels[k].mid # id
    <3> SUFFICES ASSUME NEW k \in DOMAIN kernels
                 PROVE  /\ kernels'[k] \in Kernels
                        /\ kernels'[k].live =>
                              kernels'[k] = kernels[k] /\ kernels[k].mid # id
      OBVIOUS
    <3> HIDE DEF id
    <3>1. kernels'[k] = IF kernels[k].live /\ kernels[k].mid = id
                        THEN [kernels[k] EXCEPT !.live = FALSE, !.id = 0] ELSE kernels[k]
      BY Zenon, <1>1 DEF LocalKernelsWithout
    <3>2. kernels[k] \in Kernels
      BY Zenon, <2>1
    <3>3. CASE kernels[k].live /\ kernels[k].mid = id
      <4>1. kernels'[k] = [kernels[k] EXCEPT !.live = FALSE, !.id = 0]
        BY Zenon, <3>1, <3>3
      <4>2. kernels'[k] \in Kernels /\ ~kernels'[k].live
        BY Zenon, <4>1, <3>2, EntryUpdates
      <4> QED
        BY Zenon, <4>2
    <3>4. CASE ~(kernels[k].live /\ kernels[k].mid = id)
      BY SMT, <3>1, <3>2, <3>4
    <3> QED
      BY Zenon, <3>3, <3>4
  <2>3. kernels' \in [DOMAIN kernels -> Kernels]
    BY Zenon, <1>1, <2>2 DEF LocalKernelsWithout
  <2>4. kernels \in Seq(Kernels) /\ Len(kernels) <= MaxKernels
    BY Zenon DEF IInv, Typed, KernelsTyped
  <2>5. kernels' \in Seq(Kernels) /\ Len(kernels') = Len(kernels)
        /\ DOMAIN kernels' = DOMAIN kernels
    BY Zenon, <2>3, <2>4, SameLength
  <2> QED
    BY Zenon, <2>2, <2>4, <2>5 DEF KernelsTyped
<1>7. SymsTyped' /\ \A x \in syms' : x \in syms /\ x.mid # id
  <2>1. \A x \in syms : x.sgen = gen
    BY Zenon DEF IInv, SymbolsOwned
  <2> QED
    BY Zenon, <1>1, <2>1 DEF SymbolsWithout, SymsTyped, IInv, Typed
<1> QED
  BY Zenon, <1>1, <1>3, <1>4, <1>5, <1>6, <1>7

\* An unload, of a module no registration holds or together with the
\* registration that does.
LEMMA InvUnload ==
    ASSUME IInv, NEW m \in DOMAIN mods, UnloadDone(m), RegsTyped', CallTyped',
           DOMAIN regs' = DOMAIN regs,
           \A r \in DOMAIN regs : regs[r].module # m => regs'[r] = regs[r],
           \A r \in DOMAIN regs : regs[r].module = m =>
              regs'[r].module = 0 /\ regs'[r].state \notin {"LIVE", "REMOTE_READY"}
    PROVE  IInv'
<1> DEFINE id == mods[m].id
<1>1. Typed'
  BY Zenon, UnloadEffect DEF Typed
<1>same. /\ DOMAIN mods' = DOMAIN mods /\ gen' = gen /\ broken' = broken
       /\ \A n \in DOMAIN mods : n # m => mods'[n] = mods[n]
  BY Zenon, UnloadEffect
<1>server. /\ sess'.mods = {x \in sess.mods : x.id # id}
       /\ sess'.kernels = {x \in sess.kernels : x.mid # id}
  BY Zenon, UnloadEffect
<1>2. \A n \in DOMAIN mods : mods'[n].live =>
          n # m /\ mods'[n] = mods[n] /\ mods[n].live /\ mods[n].id # id
  <2> SUFFICES ASSUME NEW n \in DOMAIN mods, mods'[n].live
               PROVE  n # m /\ mods'[n] = mods[n] /\ mods[n].live /\ mods[n].id # id
    OBVIOUS
  <2>1. n # m /\ mods'[n] = mods[n] /\ mods[n].live /\ mods[m].live
    BY Zenon, UnloadEffect
  <2> QED
    BY Zenon, <2>1 DEF IInv, ModulesOk
<1>3. \A r \in DOMAIN regs : regs[r].module # 0 /\ regs[r].mid # id =>
          regs'[r] = regs[r]
  BY Zenon DEF IInv, RegsOk, Holds
<1>4. \A x \in sess.mods : x.id # id => x \in sess'.mods
  BY Zenon, <1>server
<1>6. ModulesOk'
  <2>1. ASSUME NEW n \in DOMAIN mods, mods'[n].live
        PROVE  /\ gen' # 0 /\ mods'[n].sgen = gen' /\ mods'[n].id < sess'.nextMid
               /\ [id |-> mods'[n].id, image |-> n] \in sess'.mods
               /\ mods'[n].kind = "fatbin" => \E r \in DOMAIN regs' : regs'[r].module = n
    <3>1. n # m /\ mods'[n] = mods[n] /\ mods[n].live /\ mods[n].id # id
      BY Zenon, <2>1, <1>2
    <3>2. /\ gen # 0 /\ mods[n].sgen = gen /\ mods[n].id < sess.nextMid
          /\ [id |-> mods[n].id, image |-> n] \in sess.mods
          /\ mods[n].kind = "fatbin" => \E r \in DOMAIN regs : regs[r].module = n
      BY Zenon, <3>1 DEF IInv, ModulesOk
    <3>3. [id |-> mods[n].id, image |-> n].id # id
      BY Zenon, <3>1
    <3>4. [id |-> mods[n].id, image |-> n] \in sess'.mods
      BY Zenon, <3>2, <3>3, <1>4
    <3>5. mods[n].kind = "fatbin" => \E r \in DOMAIN regs' : regs'[r].module = n
      BY Zenon, <3>1, <3>2
    <3> QED
      BY Zenon, <3>1, <3>2, <3>4, <3>5, UnloadEffect
  <2>2. ASSUME NEW x \in DOMAIN mods, NEW y \in DOMAIN mods,
               mods'[x].live, mods'[y].live, mods'[x].id = mods'[y].id
        PROVE  x = y
    <3>1. mods[x].live /\ mods[y].live /\ mods[x].id = mods[y].id
      BY Zenon, <1>2, <2>2
    <3> QED
      BY Zenon, <3>1 DEF IInv, ModulesOk
  <2>3. ASSUME NEW x \in sess'.mods
        PROVE  x.image \in DOMAIN mods' /\ mods'[x.image].live /\ mods'[x.image].id = x.id
    <3>1. x \in sess.mods /\ x.id # id
      BY Zenon, <1>server
    <3>2. x.image \in DOMAIN mods /\ mods[x.image].live /\ mods[x.image].id = x.id
      BY Zenon, <3>1 DEF IInv, ModulesOk
    <3>3. x.image # m
      BY Zenon, <3>1, <3>2
    <3>4. mods'[x.image] = mods[x.image] /\ DOMAIN mods' = DOMAIN mods
      BY Zenon, <3>2, <3>3, <1>same
    <3> QED
      BY Zenon, <3>2, <3>4
  <2> QED
    BY Zenon, <1>same, <2>1, <2>2, <2>3 DEF ModulesOk
<1>7. RegsOk'
  <2>1. ASSUME NEW r \in DOMAIN regs, regs'[r].module # 0
        PROVE  regs[r].module # m /\ regs'[r] = regs[r] /\ Holds(r)'
    <3>1. regs[r].module # m /\ regs'[r] = regs[r]
      BY Zenon, <2>1
    <3>2. Holds(r)
      BY Zenon, <3>1, <2>1 DEF IInv, RegsOk
    <3>3. mods'[regs[r].module] = mods[regs[r].module] /\ DOMAIN mods' = DOMAIN mods /\ gen' = gen
      BY Zenon, <3>1, <3>2, <1>same DEF Holds
    <3> QED
      BY Zenon, <3>1, <3>2, <3>3 DEF Holds
  <2>2. \A r \in DOMAIN regs : regs'[r].state \in {"LIVE", "REMOTE_READY"} => regs'[r].module # 0
    BY Zenon DEF IInv, RegsOk
  <2>3. \A q, r \in DOMAIN regs :
            regs'[q].module # 0 /\ regs'[q].module = regs'[r].module => q = r
    BY Zenon, <2>1 DEF IInv, RegsOk
  <2> QED
    BY Zenon, <2>1, <2>2, <2>3 DEF RegsOk
<1>8. KernelsOk'
  <2>1. ASSUME NEW k \in DOMAIN kernels, kernels'[k].live
        PROVE  kernels'[k] = kernels[k] /\ kernels[k].live /\ KernelOk(k)'
    <3>1. kernels'[k] = kernels[k] /\ kernels[k].live /\ kernels[k].mid # id
      BY Zenon, <2>1, UnloadEffect
    <3>2. KernelOk(k)
      BY Zenon, <3>1 DEF IInv, KernelsOk
    <3>4. ServerHas(kernels[k].mid)'
      BY Zenon, <3>1, <3>2, <1>4 DEF KernelOk, ServerHas
    <3>5. \/ kernels[k].mid \in broken
          \/ [id |-> kernels[k].id, mid |-> kernels[k].mid,
              name |-> kernels[k].name] \in sess'.kernels
      <4>1. [id |-> kernels[k].id, mid |-> kernels[k].mid, name |-> kernels[k].name].mid # id
        BY Zenon, <3>1
      <4> QED
        BY Zenon, <4>1, <3>2, <1>server DEF KernelOk
    <3>6. kernels[k].abi = "READY" =>
              [id |-> kernels[k].mid, image |-> kernels[k].abiOf] \in sess'.mods
      <4>1. [id |-> kernels[k].mid, image |-> kernels[k].abiOf].id # id
        BY Zenon, <3>1
      <4> QED
        BY Zenon, <4>1, <3>2, <1>4 DEF KernelOk
    <3>7. kernels[k].fun # NoFun =>
              /\ kernels[k].reg \in DOMAIN regs'
              /\ regs'[kernels[k].reg].mid = kernels[k].mid
              /\ regs'[kernels[k].reg].module # 0
      BY Zenon, <3>1, <3>2, <1>3 DEF KernelOk
    <3>8. KernelOk(k)'
      BY Zenon, <1>same, <3>1, <3>2, <3>4, <3>5, <3>6, <3>7 DEF KernelOk, ServerHas
    <3> QED
      BY Zenon, <3>1, <3>8
  <2>2. \A j, k \in DOMAIN kernels :
          /\ kernels'[j].live /\ kernels'[k].live
          /\ kernels'[j].fun # NoFun /\ kernels'[j].fun = kernels'[k].fun
          => j = k
    BY Zenon, <2>1 DEF IInv, KernelsOk
  <2>3. DOMAIN kernels' = DOMAIN kernels
    BY Zenon, UnloadEffect
  <2> QED
    BY Zenon, <2>1, <2>2, <2>3 DEF KernelsOk
<1>9. SymbolsOwned'
  <2> SUFFICES ASSUME NEW x \in syms'
               PROVE  /\ x.sgen = gen' /\ x.mid \in sess'.globals /\ ServerHas(x.mid)'
                      /\ \E r \in DOMAIN regs' : regs'[r].module # 0 /\ regs'[r].mid = x.mid
                      /\ \A t \in syms' : t.var = x.var => t = x
    BY Zenon DEF SymbolsOwned
  <2>1. x \in syms /\ x.mid # id
    BY Zenon, UnloadEffect
  <2>2. /\ x.sgen = gen /\ x.mid \in sess.globals /\ ServerHas(x.mid)
        /\ \E r \in DOMAIN regs : regs[r].module # 0 /\ regs[r].mid = x.mid
        /\ \A t \in syms : t.var = x.var => t = x
    BY Zenon, <2>1 DEF IInv, SymbolsOwned
  <2>3. ServerHas(x.mid)'
    BY Zenon, <2>1, <2>2, <1>4 DEF ServerHas
  <2>4. \E r \in DOMAIN regs' : regs'[r].module # 0 /\ regs'[r].mid = x.mid
    BY Zenon, <2>1, <2>2, <1>3
  <2>5. x.sgen = gen' /\ x.mid \in sess'.globals /\ \A t \in syms' : t \in syms
    BY Zenon, <2>1, <2>2, UnloadEffect
  <2> QED
    BY Zenon, <2>2, <2>3, <2>4, <2>5
<1> QED
  BY Zenon, <1>1, <1>6, <1>7, <1>8, <1>9 DEF IInv

LEMMA InvModuleUnload ==
    ASSUME IInv, NEW m \in DOMAIN mods, ModuleUnload(m)
    PROVE  IInv'
<1>1. mods[m].kind \in {"loaded", "library"} /\ UNCHANGED <<regs, call>>
  BY Zenon DEF ModuleUnload
<1>2. RegsTyped' /\ CallTyped'
  BY Zenon, <1>1 DEF IInv, Typed, RegsTyped, CallTyped
<1>3. CASE UnloadDone(m)
  <2>1. m # 0
    BY Entries DEF IInv
  <2>2. \A r \in DOMAIN regs : regs[r].module # m
    BY Zenon, <1>1, <2>1 DEF IInv, RegsOk, Holds
  <2> QED
    BY Zenon, <1>1, <1>2, <1>3, <2>2, InvUnload
<1>4. CASE UnloadBreaks(m)
  <2>1. Typed'
    BY Zenon, <1>1, <1>2, <1>4, UnloadFails DEF IInv, Typed, GensTyped, ModsTyped, KernelsTyped,
       SymsTyped
  <2>2. \A r \in DOMAIN regs :
          /\ regs[r].module # 0 =>
                regs[r].state \in {"LIVE", "REMOTE_READY", "UNLOAD_FAILED"}
          /\ regs[r].state \in {"LIVE", "REMOTE_READY"} => regs[r].module # 0
    BY Zenon DEF IInv, RegsOk, Holds
  <2> QED
    BY Zenon, <1>1, <1>4, <2>1, <2>2, UnloadFails, HandlesKept
<1> QED
  BY Zenon, <1>3, <1>4 DEF ModuleUnload

\* __cudaUnregisterFatBinary and one step of a shutdown.
LEMMA InvRetire ==
    ASSUME IInv, NEW r \in DOMAIN regs, Retire(r), call' \in 0..(Len(regs) + 1)
    PROVE  IInv'
<1>1. regs \in Seq(Registrations) /\ Len(regs) <= MaxRegs
  BY Zenon DEF IInv, Typed, RegsTyped
<1>2. \A q \in DOMAIN regs : regs[q] \in Registrations
  BY Zenon, Entries DEF IInv
<1>3. HoldsModule(r) => regs[r].module \in DOMAIN mods /\ regs[r].module # 0
  BY Zenon DEF HoldsModule, IInv, RegsOk, Holds
<1>4. {"DEAD", "UNLOAD_FAILED"} \subseteq States
  BY Zenon DEF States
<1>5. CASE /\ HoldsModule(r)
           /\ UnloadDone(regs[r].module)
           /\ regs' = [regs EXCEPT ![r].module = 0, ![r].state = "DEAD"]
  <2>1. 0 \in 0..MaxModules
    BY BoundAssumption
  <2>2. regs' \in [DOMAIN regs -> Registrations]
    BY Zenon, <1>2, <1>4, <1>5, <2>1 DEF Registrations
  <2>3. regs' \in Seq(Registrations) /\ Len(regs') = Len(regs) /\ DOMAIN regs' = DOMAIN regs
    BY Zenon, <1>1, <2>2, SameLength
  <2>4. RegsTyped' /\ CallTyped'
    BY Zenon, <1>1, <2>3 DEF RegsTyped, CallTyped
  <2>5. \A q \in DOMAIN regs : q # r => regs'[q] = regs[q]
    BY Zenon, <1>5
  <2>6. regs'[r].module = 0 /\ regs'[r].state \notin {"LIVE", "REMOTE_READY"}
    BY Zenon, <1>2, <1>5 DEF Registrations
  <2>7. \A q \in DOMAIN regs : regs[q].module = regs[r].module => q = r
    BY Zenon, <1>3, <1>5 DEF IInv, RegsOk
  <2>8. \A q \in DOMAIN regs : regs[q].module # regs[r].module => regs'[q] = regs[q]
    BY Zenon, <2>5
  <2>9. \A q \in DOMAIN regs : regs[q].module = regs[r].module =>
           regs'[q].module = 0 /\ regs'[q].state \notin {"LIVE", "REMOTE_READY"}
    BY Zenon, <2>6, <2>7
  <2> QED
    BY Zenon, <1>3, <1>5, <2>3, <2>4, <2>8, <2>9, InvUnload
<1>6. CASE /\ HoldsModule(r)
           /\ UnloadRefused(regs[r].module) \/ UnloadBreaks(regs[r].module)
           /\ regs' = [regs EXCEPT ![r] = UnloadFailed(r)]
  <2>1. regs' = [regs EXCEPT ![r].state = "UNLOAD_FAILED"]
    BY Zenon, <1>6 DEF UnloadFailed
  <2>2. /\ RegsTyped' /\ Len(regs') = Len(regs) /\ DOMAIN regs' = DOMAIN regs
        /\ \A q \in DOMAIN regs :
              /\ regs'[q].module = regs[q].module
              /\ regs'[q].sgen = regs[q].sgen
              /\ regs'[q].mid = regs[q].mid
              /\ regs'[q].state = IF q = r THEN "UNLOAD_FAILED" ELSE regs[q].state
    BY Zenon, <1>4, <2>1, StateChanges
  <2>3. CallTyped'
    BY Zenon, <2>2 DEF CallTyped
  <2>4. Typed'
    BY Zenon, <1>3, <1>6, <2>2, <2>3, UnloadFails DEF IInv, Typed, GensTyped, ModsTyped,
       KernelsTyped, SymsTyped
  <2>5. \A q \in DOMAIN regs' :
          /\ regs'[q].module # 0 =>
                regs'[q].state \in {"LIVE", "REMOTE_READY", "UNLOAD_FAILED"}
          /\ regs'[q].state \in {"LIVE", "REMOTE_READY"} => regs'[q].module # 0
    BY <2>2 DEF IInv, RegsOk, Holds
  <2> QED
    BY Zenon, <1>3, <1>6, <2>2, <2>4, <2>5, UnloadFails, HandlesKept
<1>7. CASE /\ HoldsModule(r)
           /\ MarkSessionFailed
           /\ regs' = [LostRegs EXCEPT ![r].state = "UNLOAD_FAILED"]
  <2>1. /\ LostRegs \in Seq(Registrations) /\ Len(LostRegs) = Len(regs)
        /\ DOMAIN LostRegs = DOMAIN regs
        /\ \A q \in DOMAIN regs : /\ LostRegs[q].module = 0
                                  /\ LostRegs[q].state \notin {"LIVE", "REMOTE_READY"}
    BY Zenon, RegistrationsLost
  <2>2. \A q \in DOMAIN regs : LostRegs[q] \in Registrations
    BY <2>1
  <2> HIDE DEF LostRegs
  <2>e. [LostRegs[r] EXCEPT !.state = "UNLOAD_FAILED"] \in Registrations
    BY Zenon, <2>2, EntryUpdates
  <2>f. LostRegs \in [DOMAIN LostRegs -> Registrations]
    BY SMT, <2>1, <2>2
  <2>3. regs' \in [DOMAIN LostRegs -> Registrations]
    BY SMT, <1>7, <2>1, <2>e, <2>f
  <2>4. regs' \in Seq(Registrations) /\ Len(regs') = Len(regs) /\ DOMAIN regs' = DOMAIN regs
    BY Zenon, <2>1, <2>3, SameRegistrations
  <2>5. RegsTyped' /\ CallTyped'
    BY Zenon, <1>1, <2>4 DEF RegsTyped, CallTyped
  <2>6. Typed'
    BY Zenon, <1>7, <2>5, SessionFailed DEF Typed
  <2>7. \A q \in DOMAIN regs' : regs'[q].module = 0
                                /\ regs'[q].state \notin {"LIVE", "REMOTE_READY"}
    BY Zenon, <1>7, <2>1, <2>2, <2>4 DEF Registrations
  <2> QED
    BY Zenon, <1>7, <2>6, <2>7, SessionFailed, AllGone
<1>8. CASE /\ regs[r].state = "FAILED"
           /\ regs' = [regs EXCEPT ![r].state = "DEAD"]
           /\ UNCHANGED <<gen, nextGen, mods, kernels, syms, sess, broken>>
  <2>1. /\ RegsTyped' /\ Len(regs') = Len(regs) /\ DOMAIN regs' = DOMAIN regs
        /\ \A q \in DOMAIN regs :
              /\ regs'[q].module = regs[q].module
              /\ regs'[q].sgen = regs[q].sgen
              /\ regs'[q].mid = regs[q].mid
              /\ regs'[q].state = IF q = r THEN "DEAD" ELSE regs[q].state
    BY Zenon, <1>4, <1>8, StateChanges
  <2>2. CallTyped'
    BY Zenon, <2>1 DEF CallTyped
  <2>3. Typed'
    BY Zenon, <1>8, <2>1, <2>2 DEF IInv, Typed, GensTyped, ModsTyped, KernelsTyped, SymsTyped, SessTyped
  <2>4. regs[r].module = 0
    BY Zenon, <1>8 DEF IInv, RegsOk, Holds
  <2>5. \A q \in DOMAIN regs' :
          /\ regs'[q].module # 0 =>
                regs'[q].state \in {"LIVE", "REMOTE_READY", "UNLOAD_FAILED"}
          /\ regs'[q].state \in {"LIVE", "REMOTE_READY"} => regs'[q].module # 0
    BY <2>1, <2>4 DEF IInv, RegsOk, Holds
  <2> QED
    BY Zenon, <1>8, <2>1, <2>3, <2>5, KernelsThere, HandlesKept
<1> QED
  BY Zenon, <1>5, <1>6, <1>7, <1>8 DEF Retire

LEMMA InvUnregisterFatBinary ==
    ASSUME IInv, NEW r \in DOMAIN regs, UnregisterFatBinary(r)
    PROVE  IInv'
<1>1. Retire(r) /\ call' = call
  BY Zenon DEF UnregisterFatBinary
<1>2. call' \in 0..(Len(regs) + 1)
  BY Zenon, <1>1 DEF IInv, Typed, CallTyped
<1> QED
  BY Zenon, <1>1, <1>2, InvRetire

LEMMA InvShutdown == IInv /\ (ShutdownBegin \/ ShutdownStep) => IInv'
<1> SUFFICES ASSUME IInv, ShutdownBegin \/ ShutdownStep PROVE IInv'
  OBVIOUS
<1>1. Len(regs) \in Nat /\ DOMAIN regs = 1..Len(regs)
  BY Zenon, Entries DEF IInv
<1>2. CASE ShutdownBegin
  <2>1. call' \in 0..(Len(regs) + 1)
    BY <1>1, <1>2 DEF ShutdownBegin
  <2> QED
    BY Zenon, <1>2, <2>1, OnlyCall DEF ShutdownBegin
<1>3. CASE ShutdownStep
  <2>1. call \in DOMAIN regs /\ call' = call + 1
    BY Zenon, <1>3 DEF ShutdownStep
  <2>2. call' \in 0..(Len(regs) + 1)
    BY <1>1, <2>1
  <2>3. CASE Retire(call)
    BY Zenon, <2>1, <2>2, <2>3, InvRetire
  <2>4. CASE UNCHANGED <<gen, nextGen, regs, mods, kernels, syms, sess, broken>>
    BY Zenon, <2>2, <2>4, OnlyCall
  <2> QED
    BY Zenon, <1>3, <2>3, <2>4 DEF ShutdownStep
<1> QED
  BY Zenon, <1>2, <1>3

-----------------------------------------------------------------------------
(* An image is uploaded                                                    *)

\* What Upload does to the tables.
LEMMA UploadEffect ==
    ASSUME IInv, NEW kind \in Kinds, Upload(kind)
    PROVE  LET m == Len(mods) + 1
               new == [id |-> sess.nextMid, image |-> m]
           IN  /\ ModsTyped' /\ sess' \in Sessions
               /\ DOMAIN mods' = DOMAIN mods \cup {m} /\ m \notin DOMAIN mods /\ m \in 1..MaxModules
               /\ mods'[m] = [live |-> TRUE, sgen |-> gen, id |-> sess.nextMid, kind |-> kind]
               /\ \A n \in DOMAIN mods : mods'[n] = mods[n]
               /\ sess'.mods = sess.mods \cup {new}
               /\ sess'.kernels = sess.kernels /\ sess'.globals = sess.globals
               /\ sess'.nextMid = sess.nextMid + 1 /\ sess.nextMid \in Nat /\ gen # 0
<1> DEFINE m == Len(mods) + 1
           new == [id |-> sess.nextMid, image |-> m]
           e == [live |-> TRUE, sgen |-> gen, id |-> sess.nextMid, kind |-> kind]
<1>1. /\ gen # 0 /\ Len(mods) < MaxModules /\ mods' = Append(mods, e)
      /\ sess' = [sess EXCEPT !.mods = sess.mods \cup {new}, !.nextMid = sess.nextMid + 1]
  BY Zenon DEF Upload, Active
<1>2. sess \in Sessions /\ sess.nextMid \in Nat /\ sess.nextMid \in Nat \ {0}
  BY Zenon DEF IInv, Typed, SessTyped, Sessions
<1>3. gen \in 1..MaxGen
  BY <1>1, BoundAssumption DEF IInv, Typed, GensTyped
<1>4. mods \in Seq(Modules) /\ e \in Modules
  BY Zenon, <1>2, <1>3 DEF IInv, Typed, ModsTyped, Modules
<1> HIDE DEF e
<1>5. /\ mods' \in Seq(Modules) /\ Len(mods') = m /\ Len(mods) \in Nat
      /\ DOMAIN mods' = DOMAIN mods \cup {m} /\ m \notin DOMAIN mods
      /\ mods'[m] = e /\ \A n \in DOMAIN mods : mods'[n] = mods[n]
  BY <1>1, <1>4, AppendView
<1>6. m \in 1..MaxModules /\ m <= MaxModules
  BY <1>1, <1>5, BoundAssumption
<1>7. ModsTyped'
  BY Zenon, <1>5, <1>6 DEF ModsTyped
<1>8. new \in [id : Nat, image : 1..MaxModules]
  BY Zenon, <1>2, <1>6
<1> HIDE DEF new, m
<1>9. sess.nextMid + 1 \in Nat \ {0}
  BY <1>2
<1>10. sess' \in Sessions
  BY Zenon, <1>1, <1>2, <1>8, <1>9 DEF Sessions
<1>11. /\ sess'.mods = sess.mods \cup {new} /\ sess'.nextMid = sess.nextMid + 1
       /\ sess'.kernels = sess.kernels /\ sess'.globals = sess.globals
  BY Zenon, <1>1, <1>2 DEF Sessions
<1> QED
  BY Zenon, <1>1, <1>2, <1>5, <1>6, <1>7, <1>10, <1>11 DEF m, new, e

\* An upload, with the registration that holds the new handle if it is the
\* image of a fat binary.
LEMMA InvUpload ==
    ASSUME IInv, NEW kind \in Kinds, Upload(kind), RegsTyped', CallTyped',
           UNCHANGED <<gen, nextGen, kernels, syms, broken>>,
           DOMAIN regs \subseteq DOMAIN regs',
           \A r \in DOMAIN regs : regs'[r] = regs[r],
           \A r \in DOMAIN regs' \ DOMAIN regs :
              regs'[r] = [state |-> "REMOTE_READY", module |-> Len(mods) + 1,
                          sgen |-> gen, mid |-> sess.nextMid],
           \A q, r \in DOMAIN regs' \ DOMAIN regs : q = r,
           kind = "fatbin" <=> DOMAIN regs' \ DOMAIN regs # {}
    PROVE  IInv'
<1> DEFINE m == Len(mods) + 1
           new == [id |-> sess.nextMid, image |-> m]
           N == DOMAIN regs' \ DOMAIN regs
<1>1. /\ ModsTyped' /\ sess' \in Sessions
      /\ DOMAIN mods' = DOMAIN mods \cup {m} /\ m \notin DOMAIN mods /\ m \in 1..MaxModules
      /\ mods'[m] = [live |-> TRUE, sgen |-> gen, id |-> sess.nextMid, kind |-> kind]
      /\ \A n \in DOMAIN mods : mods'[n] = mods[n]
  BY Zenon, UploadEffect
<1>2. /\ sess'.mods = sess.mods \cup {new}
      /\ sess'.kernels = sess.kernels /\ sess'.globals = sess.globals
      /\ sess'.nextMid = sess.nextMid + 1 /\ sess.nextMid \in Nat /\ gen # 0
  BY Zenon, UploadEffect
<1>3. /\ mods'[m].live /\ mods'[m].sgen = gen /\ mods'[m].id = sess.nextMid
      /\ mods'[m].kind = kind
  BY <1>1
<1>4. new.id = sess.nextMid /\ new.image = m
  OBVIOUS
<1>5. \A r \in N : /\ regs'[r].module = m /\ regs'[r].sgen = gen /\ regs'[r].mid = sess.nextMid
                   /\ regs'[r].state = "REMOTE_READY"
  OBVIOUS
<1>6. m # 0
  BY <1>1
<1>7. \A n \in DOMAIN mods : mods[n].live => mods[n].id < sess.nextMid /\ mods[n].id \in Nat
  BY Zenon, Entries, Fields DEF IInv, ModulesOk
<1>8. \A n \in DOMAIN mods : mods[n].live => mods[n].id # sess.nextMid /\ mods[n].id < sess'.nextMid
  BY <1>2, <1>7
<1> HIDE DEF m, new, N
<1>9. \A r \in DOMAIN regs : r \in DOMAIN regs' /\ regs'[r] = regs[r] /\ regs[r].module # m
  <2>1. \A r \in DOMAIN regs : regs[r].module # 0 => regs[r].module \in DOMAIN mods
    BY Zenon DEF IInv, RegsOk, Holds
  <2> QED
    BY Zenon, <1>1, <1>6, <2>1
<1>10. Typed'
  BY Zenon, <1>1 DEF IInv, Typed, GensTyped, KernelsTyped, SymsTyped, SessTyped
<1>11. ModulesOk'
  <2>1. ASSUME NEW n \in DOMAIN mods', mods'[n].live
        PROVE  /\ gen' # 0 /\ mods'[n].sgen = gen' /\ mods'[n].id < sess'.nextMid
               /\ [id |-> mods'[n].id, image |-> n] \in sess'.mods
               /\ mods'[n].kind = "fatbin" => \E r \in DOMAIN regs' : regs'[r].module = n
    <3>1. CASE n = m
      <4>1. [id |-> mods'[n].id, image |-> n] \in sess'.mods
        BY Zenon, <1>2, <1>3, <3>1 DEF new
      <4>2. kind = "fatbin" => \E r \in DOMAIN regs' : regs'[r].module = n
        BY Zenon, <1>5, <3>1 DEF N
      <4>3. mods'[n].id < sess'.nextMid
        BY <1>2, <1>3, <3>1
      <4> QED
        BY Zenon, <1>2, <1>3, <3>1, <4>1, <4>2, <4>3
    <3>2. CASE n # m
      <4>1. n \in DOMAIN mods /\ mods'[n] = mods[n] /\ mods[n].live
        BY Zenon, <1>1, <2>1, <3>2
      <4>2. /\ gen # 0 /\ mods[n].sgen = gen
            /\ [id |-> mods[n].id, image |-> n] \in sess.mods
            /\ mods[n].kind = "fatbin" => \E r \in DOMAIN regs : regs[r].module = n
        BY Zenon, <4>1 DEF IInv, ModulesOk
      <4>3. mods[n].id < sess'.nextMid
        BY Zenon, <4>1, <1>8
      <4>4. mods[n].kind = "fatbin" => \E r \in DOMAIN regs' : regs'[r].module = n
        BY Zenon, <4>2, <1>9
      <4> QED
        BY Zenon, <1>2, <4>1, <4>2, <4>3, <4>4
    <3> QED
      BY Zenon, <3>1, <3>2
  <2>2. ASSUME NEW x \in DOMAIN mods', NEW y \in DOMAIN mods',
               mods'[x].live, mods'[y].live, mods'[x].id = mods'[y].id
        PROVE  x = y
    <3>1. \A n \in DOMAIN mods' : n # m => n \in DOMAIN mods /\ mods'[n] = mods[n]
      BY Zenon, <1>1
    <3>u. \A i, j \in DOMAIN mods :
            mods[i].live /\ mods[j].live /\ mods[i].id = mods[j].id => i = j
      BY Zenon DEF IInv, ModulesOk
    <3>2. x # m /\ y # m => x = y
      BY <2>2, <3>1, <3>u
    <3>3. x = m /\ y # m => FALSE
      BY <2>2, <3>1, <1>3, <1>8
    <3>4. x # m /\ y = m => FALSE
      BY Zenon, <2>2, <3>1, <1>3, <1>8
    <3> QED
      BY Zenon, <3>2, <3>3, <3>4
  <2>3. ASSUME NEW x \in sess'.mods
        PROVE  x.image \in DOMAIN mods' /\ mods'[x.image].live /\ mods'[x.image].id = x.id
    <3>1. CASE x = new
      BY Zenon, <3>1, <1>1, <1>3, <1>4
    <3>2. CASE x \in sess.mods
      <4>1. x.image \in DOMAIN mods /\ mods[x.image].live /\ mods[x.image].id = x.id
        BY Zenon, <3>2 DEF IInv, ModulesOk
      <4> QED
        BY Zenon, <4>1, <1>1
    <3> QED
      BY Zenon, <3>1, <3>2, <1>2
  <2> QED
    BY Zenon, <2>1, <2>2, <2>3 DEF ModulesOk
<1>12. RegsOk'
  <2>1. ASSUME NEW r \in DOMAIN regs', regs'[r].module # 0 PROVE Holds(r)'
    <3>1. CASE r \in N
      <4>1. kind = "fatbin"
        BY Zenon, <3>1 DEF N
      <4> QED
        BY Zenon, <3>1, <4>1, <1>1, <1>3, <1>5 DEF Holds
    <3>2. CASE r \in DOMAIN regs
      <4>1. Holds(r)
        BY Zenon, <2>1, <3>2 DEF IInv, RegsOk
      <4> QED
        BY <3>2, <4>1, <1>1 DEF Holds
    <3> QED
      BY Zenon, <3>1, <3>2 DEF N
  <2>2. ASSUME NEW r \in DOMAIN regs', regs'[r].state \in {"LIVE", "REMOTE_READY"}
        PROVE  regs'[r].module # 0
    <3>1. CASE r \in N
      BY Zenon, <3>1, <1>5, <1>6
    <3>2. CASE r \in DOMAIN regs
      BY Zenon, <2>2, <3>2 DEF IInv, RegsOk
    <3> QED
      BY Zenon, <3>1, <3>2 DEF N
  <2>3. ASSUME NEW q \in DOMAIN regs', NEW r \in DOMAIN regs',
               regs'[q].module # 0, regs'[q].module = regs'[r].module
        PROVE  q = r
    <3>1. CASE q \in N /\ r \in N
      BY Zenon, <3>1 DEF N
    <3>2. CASE q \in DOMAIN regs /\ r \in DOMAIN regs
      BY Zenon, <2>3, <3>2 DEF IInv, RegsOk
    <3>3. CASE q \in N /\ r \in DOMAIN regs
      BY Zenon, <2>3, <3>3, <1>5, <1>9
    <3>4. CASE q \in DOMAIN regs /\ r \in N
      BY Zenon, <2>3, <3>4, <1>5, <1>9
    <3> QED
      BY Zenon, <3>1, <3>2, <3>3, <3>4 DEF N
  <2> QED
    BY Zenon, <2>1, <2>2, <2>3 DEF RegsOk
<1>13. \A i : ServerHas(i) => ServerHas(i)'
  BY Zenon, <1>2 DEF ServerHas
<1>14. KernelsOk'
  <2>1. ASSUME NEW k \in DOMAIN kernels, kernels[k].live PROVE KernelOk(k)'
    <3>1. KernelOk(k)
      BY Zenon, <2>1 DEF IInv, KernelsOk
    <3>2. ServerHas(kernels[k].mid)'
      BY Zenon, <3>1, <1>2 DEF KernelOk, ServerHas
    <3>3. kernels[k].fun # NoFun =>
              /\ kernels[k].reg \in DOMAIN regs'
              /\ regs'[kernels[k].reg].mid = kernels[k].mid
              /\ regs'[kernels[k].reg].module # 0
      BY Zenon, <3>1, <1>9 DEF KernelOk
    <3> QED
      BY Zenon, <3>1, <3>2, <3>3, <1>2 DEF KernelOk, ServerHas
  <2>2. \A j, k \in DOMAIN kernels :
          /\ kernels[j].live /\ kernels[k].live
          /\ kernels[j].fun # NoFun /\ kernels[j].fun = kernels[k].fun
          => j = k
    BY Zenon DEF IInv, KernelsOk
  <2> QED
    BY Zenon, <2>1, <2>2 DEF KernelsOk
<1>15. SymbolsOwned'
  <2> SUFFICES ASSUME NEW x \in syms
               PROVE  /\ x.sgen = gen /\ x.mid \in sess.globals /\ ServerHas(x.mid)'
                      /\ \E r \in DOMAIN regs' : regs'[r].module # 0 /\ regs'[r].mid = x.mid
                      /\ \A t \in syms : t.var = x.var => t = x
    BY Zenon, <1>2 DEF SymbolsOwned
  <2>1. /\ x.sgen = gen /\ x.mid \in sess.globals /\ ServerHas(x.mid)
        /\ \E r \in DOMAIN regs : regs[r].module # 0 /\ regs[r].mid = x.mid
        /\ \A t \in syms : t.var = x.var => t = x
    BY Zenon DEF IInv, SymbolsOwned
  <2>2. ServerHas(x.mid)'
    BY Zenon, <2>1, <1>2 DEF ServerHas
  <2>3. \E r \in DOMAIN regs' : regs'[r].module # 0 /\ regs'[r].mid = x.mid
    BY Zenon, <2>1, <1>9
  <2> QED
    BY Zenon, <2>1, <2>2, <2>3
<1> QED
  BY Zenon, <1>10, <1>11, <1>12, <1>14, <1>15 DEF IInv

LEMMA InvRegisterFatBinary == IInv /\ RegisterFatBinary => IInv'
<1> SUFFICES ASSUME IInv, RegisterFatBinary PROVE IInv'
  OBVIOUS
<1> DEFINE n == Len(regs) + 1
           e == [state |-> "REMOTE_READY", module |-> Len(mods) + 1,
                 sgen |-> gen, mid |-> sess.nextMid]
<1>1. /\ Len(regs) < MaxRegs /\ Upload("fatbin") /\ regs' = Append(regs, e)
      /\ UNCHANGED <<gen, nextGen, kernels, syms, call, broken>>
  BY Zenon DEF RegisterFatBinary
<1>2. "fatbin" \in Kinds
  BY Zenon DEF Kinds
<1>3. Len(mods) + 1 \in 1..MaxModules /\ sess.nextMid \in Nat
  BY Zenon, <1>1, <1>2, UploadEffect
<1>4. gen \in 0..MaxGen
  BY Zenon DEF IInv, Typed, GensTyped
<1>5. e \in Registrations
  BY <1>3, <1>4, BoundAssumption DEF Registrations, States
<1>6. regs \in Seq(Registrations)
  BY Zenon DEF IInv, Typed, RegsTyped
<1> HIDE DEF e
<1>7. /\ regs' \in Seq(Registrations) /\ Len(regs') = n /\ Len(regs) \in Nat
      /\ DOMAIN regs' = DOMAIN regs \cup {n} /\ n \notin DOMAIN regs
      /\ regs'[n] = e /\ \A i \in DOMAIN regs : regs'[i] = regs[i]
  BY <1>1, <1>5, <1>6, AppendView
<1>8. RegsTyped' /\ CallTyped'
  BY <1>1, <1>7, BoundAssumption DEF RegsTyped, CallTyped, IInv, Typed
<1> HIDE DEF n
<1>9. DOMAIN regs' \ DOMAIN regs = {n} /\ {n} # {}
  BY Zenon, <1>7
<1>10. /\ \A r \in DOMAIN regs' \ DOMAIN regs : regs'[r] = e
       /\ \A q, r \in DOMAIN regs' \ DOMAIN regs : q = r
       /\ DOMAIN regs' \ DOMAIN regs # {}
  BY Zenon, <1>7, <1>9
<1>11. DOMAIN regs \subseteq DOMAIN regs'
  BY Zenon, <1>7
<1> QED
  BY Zenon, <1>1, <1>2, <1>7, <1>8, <1>10, <1>11, InvUpload DEF e

LEMMA InvModuleLoad ==
    ASSUME IInv, NEW kind \in {"loaded", "library"}, ModuleLoad(kind)
    PROVE  IInv'
<1>1. Upload(kind) /\ UNCHANGED <<gen, nextGen, regs, kernels, syms, call, broken>>
  BY Zenon DEF ModuleLoad
<1>2. kind \in Kinds /\ kind # "fatbin"
  BY Zenon DEF Kinds
<1>3. RegsTyped' /\ CallTyped'
  BY Zenon, <1>1 DEF RegsTyped, CallTyped, IInv, Typed
<1>4. DOMAIN regs' \ DOMAIN regs = {}
  BY Zenon, <1>1
<1> QED
  BY Zenon, <1>1, <1>2, <1>3, <1>4, InvUpload

-----------------------------------------------------------------------------
(* A kernel is bound                                                       *)

\* What NewKernel does to the tables.
LEMMA NewKernelEffect ==
    ASSUME IInv, NEW e \in Kernels, NEW new \in [id : Nat, mid : Nat, name : Names],
           Len(kernels) < MaxKernels, kernels' = Append(kernels, e),
           sess' = [sess EXCEPT !.kernels = sess.kernels \cup {new},
                                !.nextKid = sess.nextKid + 1]
    PROVE  /\ KernelsTyped' /\ sess' \in Sessions
           /\ \E n : /\ DOMAIN kernels' = DOMAIN kernels \cup {n}
                     /\ n \notin DOMAIN kernels /\ kernels'[n] = e
           /\ \A k \in DOMAIN kernels : kernels'[k] = kernels[k]
           /\ sess'.kernels = sess.kernels \cup {new}
           /\ sess'.mods = sess.mods /\ sess'.globals = sess.globals
           /\ sess'.nextMid = sess.nextMid
<1> DEFINE n == Len(kernels) + 1
<1>2. sess \in Sessions /\ sess.nextKid \in Nat
  BY Zenon DEF IInv, Typed, SessTyped, Sessions
<1>4. kernels \in Seq(Kernels)
  BY Zenon DEF IInv, Typed, KernelsTyped
<1>6. /\ kernels' \in Seq(Kernels) /\ Len(kernels') = n /\ Len(kernels) \in Nat
      /\ DOMAIN kernels' = DOMAIN kernels \cup {n} /\ n \notin DOMAIN kernels
      /\ kernels'[n] = e /\ \A k \in DOMAIN kernels : kernels'[k] = kernels[k]
  BY <1>4, AppendView
<1>7. KernelsTyped'
  BY <1>6, BoundAssumption DEF KernelsTyped
<1> HIDE DEF n
<1>8. sess.nextKid + 1 \in Nat \ {0}
  BY <1>2
<1>9. sess' \in Sessions
  BY Zenon, <1>2, <1>8 DEF Sessions
<1>10. /\ sess'.kernels = sess.kernels \cup {new} /\ sess'.nextMid = sess.nextMid
       /\ sess'.mods = sess.mods /\ sess'.globals = sess.globals
  BY Zenon, <1>2 DEF Sessions
<1> QED
  BY Zenon, <1>6, <1>7, <1>9, <1>10

\* A server session that gained kernels or globals, and kernel handles that
\* rely on what is there, keep the invariant.
LEMMA BindingKeeps ==
    ASSUME IInv, UNCHANGED <<gen, nextGen, regs, mods, call, broken>>,
           SymsTyped', sess' \in Sessions, KernelsTyped',
           sess'.mods = sess.mods, sess'.nextMid = sess.nextMid,
           KernelsOk', SymbolsOwned'
    PROVE  IInv'
<1>1. Typed'
  BY Zenon DEF IInv, Typed, GensTyped, RegsTyped, ModsTyped, SessTyped, CallTyped
<1>2. ModulesOk'
  <2>0. ModulesOk
    BY Zenon DEF IInv
  <2> QED
    BY Zenon, <2>0 DEF ModulesOk
<1>3. RegsOk'
  <2>0. RegsOk
    BY Zenon DEF IInv
  <2>1. \A r \in DOMAIN regs : Holds(r) => Holds(r)'
    BY Zenon DEF Holds
  <2> QED
    BY Zenon, <2>0, <2>1 DEF RegsOk
<1> QED
  BY Zenon, <1>1, <1>2, <1>3 DEF IInv

\* A live kernel handle goes on relying on what it did if its module stays.
LEMMA KernelOkKept ==
    ASSUME UNCHANGED <<gen, regs, mods, broken>>, NEW k, KernelOk(k),
           kernels'[k] = kernels[k], sess'.mods = sess.mods,
           sess.kernels \subseteq sess'.kernels
    PROVE  KernelOk(k)'
<1>1. ServerHas(kernels[k].mid)'
  BY Zenon DEF KernelOk, ServerHas
<1>2. \/ kernels[k].mid \in broken
      \/ [id |-> kernels[k].id, mid |-> kernels[k].mid,
          name |-> kernels[k].name] \in sess'.kernels
  BY Zenon DEF KernelOk
<1> QED
  BY Zenon, <1>1, <1>2 DEF KernelOk, ServerHas

\* Symbols stay owned while modules, globals and registrations stay.
LEMMA SymbolsStay ==
    ASSUME IInv, UNCHANGED <<gen, regs, syms>>,
           sess'.mods = sess.mods, sess'.globals = sess.globals
    PROVE  SymbolsOwned'
<1>1. SymbolsOwned
  BY Zenon DEF IInv
<1> QED
  BY Zenon, <1>1 DEF SymbolsOwned, ServerHas

\* A new kernel handle: its layout is that of its own image, and a stub it is
\* bound to belongs to the registration of the module and had no handle.
LEMMA InvNewKernel ==
    ASSUME IInv, NEW m \in DOMAIN mods, ModuleLive(m),
           NEW fun \in Funs \cup {NoFun}, NEW r \in 0..MaxRegs, NEW name \in Names,
           NEW live \in BOOLEAN, NEW abi \in {"READY", "FAILED"},
           NEW abiOf \in 0..MaxModules,
           NewKernel(m, fun, r, name, live, abi, abiOf),
           abi = "READY" => abiOf = m,
           fun # NoFun => r \in DOMAIN regs /\ regs[r].module = m /\ BoundTo(fun) = {},
           UNCHANGED <<gen, nextGen, regs, mods, syms, call, broken>>
    PROVE  IInv'
<1>e. PICK e : e = [live |-> live, sgen |-> gen, id |-> sess.nextKid,
                    mid |-> mods[m].id, fun |-> fun, reg |-> r, name |-> name,
                    abi |-> abi, abiOf |-> abiOf]
  OBVIOUS
<1>w. PICK new : new = [id |-> sess.nextKid, mid |-> mods[m].id, name |-> name]
  OBVIOUS
<1>a. sess \in Sessions /\ sess.nextKid \in Nat
  BY Zenon DEF IInv, Typed, SessTyped, Sessions
<1>b. mods[m].id \in Nat /\ gen = mods[m].sgen /\ gen \in 1..MaxGen
  BY Zenon, Entries, Fields DEF IInv, ModuleLive
<1>c. e \in Kernels /\ new \in [id : Nat, mid : Nat, name : Names]
  BY Zenon, <1>a, <1>b, <1>e, <1>w DEF Kernels
<1>d. /\ Len(kernels) < MaxKernels /\ kernels' = Append(kernels, e)
      /\ sess' = [sess EXCEPT !.kernels = sess.kernels \cup {new},
                              !.nextKid = sess.nextKid + 1]
  BY Zenon, <1>e, <1>w DEF NewKernel
<1>1. /\ KernelsTyped' /\ sess' \in Sessions
      /\ \E n : /\ DOMAIN kernels' = DOMAIN kernels \cup {n}
                /\ n \notin DOMAIN kernels /\ kernels'[n] = e
      /\ \A k \in DOMAIN kernels : kernels'[k] = kernels[k]
  BY Zenon, <1>c, <1>d, NewKernelEffect
<1>2. /\ sess'.kernels = sess.kernels \cup {new}
      /\ sess'.mods = sess.mods /\ sess'.globals = sess.globals
      /\ sess'.nextMid = sess.nextMid
  BY Zenon, <1>c, <1>d, NewKernelEffect
<1>n. PICK n : /\ DOMAIN kernels' = DOMAIN kernels \cup {n}
               /\ n \notin DOMAIN kernels /\ kernels'[n] = e
  BY Zenon, <1>1
<1>3. /\ kernels'[n].live = live /\ kernels'[n].sgen = gen /\ kernels'[n].id = sess.nextKid
      /\ kernels'[n].mid = mods[m].id /\ kernels'[n].fun = fun /\ kernels'[n].reg = r
      /\ kernels'[n].name = name /\ kernels'[n].abi = abi /\ kernels'[n].abiOf = abiOf
  BY <1>e, <1>n
<1>4. gen # 0 /\ [id |-> mods[m].id, image |-> m] \in sess.mods
  BY Zenon DEF IInv, ModulesOk, ModuleLive
<1>5. m # 0
  BY Entries DEF IInv
<1>6. fun # NoFun => regs[r].mid = mods[m].id /\ regs[r].module # 0
  BY Zenon, <1>5 DEF IInv, RegsOk, Holds
<1>7. KernelOk(n)'
  <2>1. ServerHas(mods[m].id)'
    BY <1>2, <1>4 DEF ServerHas
  <2>2. new \in sess'.kernels
    BY Zenon, <1>2
  <2>3. abi = "READY" => [id |-> mods[m].id, image |-> abiOf] \in sess'.mods
    BY Zenon, <1>2, <1>4
  <2>4. /\ gen' # 0 /\ kernels'[n].sgen = gen'
        /\ (\E x \in sess'.mods : x.id = kernels'[n].mid)
    BY Zenon, <1>3, <1>4, <2>1 DEF ServerHas
  <2>5. [id |-> kernels'[n].id, mid |-> kernels'[n].mid, name |-> kernels'[n].name] \in sess'.kernels
    BY Zenon, <1>3, <1>w, <2>2
  <2>6. kernels'[n].abi = "READY" =>
           [id |-> kernels'[n].mid, image |-> kernels'[n].abiOf] \in sess'.mods
    BY Zenon, <1>3, <2>3
  <2>7. kernels'[n].fun # NoFun =>
          /\ kernels'[n].reg \in DOMAIN regs'
          /\ regs'[kernels'[n].reg].mid = kernels'[n].mid
          /\ regs'[kernels'[n].reg].module # 0
    BY Zenon, <1>3, <1>6
  <2> QED
    BY Zenon, <2>4, <2>5, <2>6, <2>7 DEF KernelOk, ServerHas
<1>8. KernelsOk'
  <2>1. ASSUME NEW k \in DOMAIN kernels', kernels'[k].live PROVE KernelOk(k)'
    <3>1. CASE k = n
      BY Zenon, <3>1, <1>7
    <3>2. CASE k # n
      <4>1. k \in DOMAIN kernels /\ kernels'[k] = kernels[k] /\ kernels[k].live
        BY Zenon, <1>1, <1>n, <2>1, <3>2
      <4>2. KernelOk(k)
        BY Zenon, <4>1 DEF IInv, KernelsOk
      <4>3. sess.kernels \subseteq sess'.kernels
        BY Zenon, <1>2
      <4> QED
        BY Zenon, <4>1, <4>2, <4>3, <1>2, KernelOkKept
    <3> QED
      BY Zenon, <3>1, <3>2
  <2>2. \A k \in DOMAIN kernels' : k # n => k \in DOMAIN kernels /\ kernels'[k] = kernels[k]
    BY Zenon, <1>1, <1>n
  <2>3. \A j, k \in DOMAIN kernels :
          /\ kernels[j].live /\ kernels[k].live
          /\ kernels[j].fun # NoFun /\ kernels[j].fun = kernels[k].fun
          => j = k
    BY Zenon DEF IInv, KernelsOk
  <2>4. \A k \in DOMAIN kernels : kernels[k].live /\ fun # NoFun => kernels[k].fun # fun
    <3>1. \A k \in DOMAIN kernels : kernels[k].live => kernels[k].sgen = gen
      BY Zenon DEF IInv, KernelsOk, KernelOk
    <3> QED
      BY Zenon, <3>1 DEF BoundTo, KernelLive
  <2>5. ASSUME NEW j \in DOMAIN kernels', NEW k \in DOMAIN kernels',
               kernels'[j].live, kernels'[k].live,
               kernels'[j].fun # NoFun, kernels'[j].fun = kernels'[k].fun
        PROVE  j = k
    <3>1. j # n /\ k # n => j = k
      BY Zenon, <2>2, <2>3, <2>5
    <3>2. j = n /\ k # n => FALSE
      BY <2>2, <2>4, <2>5, <1>3
    <3>3. j # n /\ k = n => FALSE
      BY <2>2, <2>4, <2>5, <1>3
    <3> QED
      BY Zenon, <3>1, <3>2, <3>3
  <2> QED
    BY Zenon, <2>1, <2>5 DEF KernelsOk
<1>9. SymbolsOwned' /\ SymsTyped'
  <2>1. SymsTyped'
    BY Zenon DEF SymsTyped, IInv, Typed
  <2> QED
    BY Zenon, <1>2, <2>1, SymbolsStay
<1> QED
  BY Zenon, <1>1, <1>2, <1>8, <1>9, BindingKeeps

LEMMA InvRegisterKernel ==
    ASSUME IInv, NEW m \in DOMAIN mods, NEW name \in Names, RegisterKernel(m, name)
    PROVE  IInv'
<1>1. /\ ModuleLive(m) /\ NewKernel(m, NoFun, 0, name, TRUE, "READY", m)
      /\ UNCHANGED <<gen, nextGen, regs, mods, syms, call, broken>>
  BY Zenon DEF RegisterKernel
<1>2. PICK live, abi, fun, r : live = TRUE /\ abi = "READY" /\ fun = NoFun /\ r = 0
  OBVIOUS
<1>3. /\ live \in BOOLEAN /\ abi \in {"READY", "FAILED"} /\ fun \in Funs \cup {NoFun}
      /\ r \in 0..MaxRegs
  BY <1>2, BoundAssumption
<1>4. m \in 0..MaxModules
  BY Entries DEF IInv
<1>5. NewKernel(m, fun, r, name, live, abi, m)
  BY Zenon, <1>1, <1>2
<1> QED
  BY Zenon, <1>1, <1>2, <1>3, <1>4, <1>5, InvNewKernel

LEMMA InvLibraryGetKernel ==
    ASSUME IInv, NEW m \in DOMAIN mods, NEW name \in Names, NEW ok \in BOOLEAN,
           LibraryGetKernel(m, name, ok)
    PROVE  IInv'
<1>2. PICK abi, abiOf, fun, r :
         /\ abi = (IF ok THEN "READY" ELSE "FAILED") /\ abiOf = (IF ok THEN m ELSE 0)
         /\ fun = NoFun /\ r = 0
  OBVIOUS
<1>1. /\ ModuleLive(m) /\ NewKernel(m, fun, r, name, ok, abi, abiOf)
      /\ UNCHANGED <<gen, nextGen, regs, mods, syms, call, broken>>
  BY Zenon, <1>2 DEF LibraryGetKernel
<1>4. m \in 0..MaxModules
  BY Entries DEF IInv
<1>3. /\ abi \in {"READY", "FAILED"} /\ fun \in Funs \cup {NoFun}
      /\ r \in 0..MaxRegs /\ abiOf \in 0..MaxModules /\ (abi = "READY" => abiOf = m)
  BY <1>2, <1>4, BoundAssumption
<1> QED
  BY <1>1, <1>2, <1>3, InvNewKernel

\* The two parts of KernelsOk after a step.
LEMMA KernelsAfter ==
    ASSUME \A k \in DOMAIN kernels' : kernels'[k].live => KernelOk(k)',
           \A i, j \in DOMAIN kernels' :
              /\ kernels'[i].live /\ kernels'[j].live
              /\ kernels'[i].fun # NoFun /\ kernels'[i].fun = kernels'[j].fun
              => i = j
    PROVE  KernelsOk'
BY Zenon DEF KernelsOk

\* A stub that is bound already: only the layout of its handle is attached.
LEMMA InvAttach ==
    ASSUME IInv, NEW r \in DOMAIN regs, NEW name, NEW ok \in BOOLEAN,
           NEW k \in DOMAIN kernels, KernelLive(k), SameIdentity(k, r, name),
           regs[r].module # 0,
           kernels' = [kernels EXCEPT ![k] = AttachAbi(k, r, ok)],
           UNCHANGED <<gen, nextGen, regs, mods, syms, sess, call, broken>>
    PROVE  IInv'
<1>1. kernels[k] \in Kernels /\ regs[r].module \in 0..MaxModules
  BY Zenon, Entries, Fields DEF IInv
<1>2. AttachAbi(k, r, ok) \in Kernels
  BY Zenon, <1>1 DEF AttachAbi, Kernels
<1>3. PICK e : e = AttachAbi(k, r, ok)
  OBVIOUS
<1>4. /\ e.live = kernels[k].live /\ e.sgen = kernels[k].sgen /\ e.id = kernels[k].id
      /\ e.mid = kernels[k].mid /\ e.fun = kernels[k].fun /\ e.reg = kernels[k].reg
      /\ e.name = kernels[k].name
      /\ e.abi = "READY" => \/ kernels[k].abi = "READY" /\ e.abiOf = kernels[k].abiOf
                            \/ e.abiOf = regs[r].module
  BY Zenon, <1>1, <1>3 DEF AttachAbi, Kernels
<1>5. /\ DOMAIN kernels' = DOMAIN kernels /\ kernels'[k] = e
      /\ \A j \in DOMAIN kernels : j # k => kernels'[j] = kernels[j]
  BY Zenon, <1>3
<1>6. KernelsTyped'
  <2>1. kernels \in Seq(Kernels) /\ Len(kernels) <= MaxKernels
    BY Zenon DEF IInv, Typed, KernelsTyped
  <2>2. kernels' \in [DOMAIN kernels -> Kernels]
    BY <2>1, <1>2
  <2>3. kernels' \in Seq(Kernels) /\ Len(kernels') = Len(kernels)
    BY <2>1, <2>2, SameLength
  <2> QED
    BY Zenon, <2>1, <2>3 DEF KernelsTyped
<1>7. \A j \in DOMAIN kernels : kernels'[j].live = kernels[j].live /\ kernels'[j].fun = kernels[j].fun
  BY Zenon, <1>4, <1>5
<1>8. KernelOk(k)'
  <2>1. KernelOk(k)
    BY Zenon DEF IInv, KernelsOk, KernelLive
  <2>2. [id |-> kernels[k].mid, image |-> regs[r].module] \in sess.mods
    <3>1. Holds(r)
      BY Zenon DEF IInv, RegsOk
    <3>2. [id |-> mods[regs[r].module].id, image |-> regs[r].module] \in sess.mods
      BY Zenon, <3>1 DEF Holds, IInv, ModulesOk
    <3> QED
      BY Zenon, <3>2 DEF SameIdentity
  <2>3. e.abi = "READY" => [id |-> kernels[k].mid, image |-> e.abiOf] \in sess.mods
    BY Zenon, <2>1, <2>2, <1>4 DEF KernelOk
  <2> QED
    BY Zenon, <2>1, <2>3, <1>4, <1>5 DEF KernelOk, ServerHas
<1>9. KernelsOk'
  <2>1. ASSUME NEW j \in DOMAIN kernels', kernels'[j].live PROVE KernelOk(j)'
    <3>1. CASE j = k
      BY Zenon, <3>1, <1>8
    <3>2. CASE j # k
      <4>1. j \in DOMAIN kernels /\ kernels'[j] = kernels[j] /\ kernels[j].live
        BY Zenon, <1>5, <2>1, <3>2
      <4>2. KernelOk(j)
        BY Zenon, <4>1 DEF IInv, KernelsOk
      <4> QED
        BY Zenon, <4>1, <4>2, KernelOkKept
    <3> QED
      BY Zenon, <3>1, <3>2
  <2>2. \A i, j \in DOMAIN kernels :
          /\ kernels[i].live /\ kernels[j].live
          /\ kernels[i].fun # NoFun /\ kernels[i].fun = kernels[j].fun
          => i = j
    BY Zenon DEF IInv, KernelsOk
  <2>3. ASSUME NEW i \in DOMAIN kernels', NEW j \in DOMAIN kernels',
               kernels'[i].live, kernels'[j].live,
               kernels'[i].fun # NoFun, kernels'[i].fun = kernels'[j].fun
        PROVE  i = j
    <3>1. /\ i \in DOMAIN kernels /\ j \in DOMAIN kernels
          /\ kernels'[i].live = kernels[i].live /\ kernels'[i].fun = kernels[i].fun
          /\ kernels'[j].live = kernels[j].live /\ kernels'[j].fun = kernels[j].fun
      BY Zenon, <1>5, <1>7
    <3> QED
      BY Zenon, <2>2, <2>3, <3>1
  <2>4. \A j \in DOMAIN kernels' : kernels'[j].live => KernelOk(j)'
    BY Zenon, <2>1
  <2>5. \A i, j \in DOMAIN kernels' :
          /\ kernels'[i].live /\ kernels'[j].live
          /\ kernels'[i].fun # NoFun /\ kernels'[i].fun = kernels'[j].fun
          => i = j
    BY <2>3
  <2> QED
    BY Zenon, <2>4, <2>5, KernelsAfter
<1>10. SymbolsOwned' /\ SymsTyped'
  <2>1. SymsTyped'
    BY Zenon DEF SymsTyped, IInv, Typed
  <2> QED
    BY Zenon, <2>1, SymbolsStay
<1>11. sess' \in Sessions
  BY Zenon DEF IInv, Typed, SessTyped
<1> QED
  BY Zenon, <1>6, <1>9, <1>10, <1>11, BindingKeeps

LEMMA InvRegisterFunction ==
    ASSUME IInv, NEW r \in DOMAIN regs, NEW f \in Funs, NEW name \in Names,
           NEW ok \in BOOLEAN, RegisterFunction(r, f, name, ok)
    PROVE  IInv'
<1> DEFINE m == regs[r].module
<1>1. /\ m # 0 /\ ModuleLive(m)
      /\ UNCHANGED <<gen, nextGen, regs, mods, syms, call, broken>>
  BY Zenon DEF RegisterFunction
<1>2. m \in DOMAIN mods
  BY Zenon, <1>1 DEF IInv, RegsOk, Holds
<1>3. m \in 0..MaxModules /\ r \in 0..MaxRegs
  BY <1>2, Entries DEF IInv
<1>4. CASE /\ BoundTo(f) = {}
           /\ NewKernel(m, f, r, name, TRUE, IF ok THEN "READY" ELSE "FAILED",
                        IF ok THEN m ELSE 0)
  <2>1. PICK live, abi, abiOf :
           /\ live = TRUE /\ abi = (IF ok THEN "READY" ELSE "FAILED")
           /\ abiOf = (IF ok THEN m ELSE 0)
    OBVIOUS
  <2>2. /\ live \in BOOLEAN /\ abi \in {"READY", "FAILED"}
        /\ abiOf \in 0..MaxModules /\ (abi = "READY" => abiOf = m)
    BY <1>3, <2>1, BoundAssumption
  <2>3. NewKernel(m, f, r, name, live, abi, abiOf)
    BY Zenon, <1>4, <2>1
  <2>4. f \in Funs \cup {NoFun}
    OBVIOUS
  <2> HIDE DEF m
  <2>5. f # NoFun => r \in DOMAIN regs /\ regs[r].module = m /\ BoundTo(f) = {}
    BY Zenon, <1>4 DEF m
  <2> QED
    BY <1>1, <1>2, <1>3, <2>2, <2>3, <2>4, <2>5, InvNewKernel
<1>5. ASSUME NEW k \in BoundTo(f), SameIdentity(k, r, name),
             kernels' = [kernels EXCEPT ![k] = AttachAbi(k, r, ok)], UNCHANGED sess
      PROVE  IInv'
  <2>1. k \in DOMAIN kernels /\ KernelLive(k)
    BY Zenon, <1>5 DEF BoundTo
  <2> QED
    BY Zenon, <1>1, <1>5, <2>1, InvAttach
<1> QED
  BY Zenon, <1>4, <1>5 DEF RegisterFunction

-----------------------------------------------------------------------------
(* A device global is registered                                           *)

LEMMA InvRegisterVar ==
    ASSUME IInv, NEW r \in DOMAIN regs, NEW v \in Vars, NEW fits \in BOOLEAN,
           RegisterVar(r, v, fits)
    PROVE  IInv'
<1>w. PICK new : new = [var |-> v, sgen |-> gen, mid |-> regs[r].mid]
  OBVIOUS
<1>1. /\ regs[r].module # 0 /\ ~Registered(v) /\ ServerHas(regs[r].mid)
      /\ syms' = syms \/ syms' = syms \cup {new}
      /\ sess' = [sess EXCEPT !.globals = sess.globals \cup {regs[r].mid}]
      /\ UNCHANGED <<gen, nextGen, regs, mods, kernels, call, broken>>
  BY Zenon, <1>w DEF RegisterVar
<1>2. Holds(r)
  BY Zenon, <1>1 DEF IInv, RegsOk
<1>3. regs[r].sgen = gen /\ mods[regs[r].module].sgen = gen /\ regs[r].module \in DOMAIN mods
  BY Zenon, <1>2 DEF Holds, IInv, ModulesOk
<1>4. gen \in 1..MaxGen /\ regs[r].mid \in Nat
  BY Zenon, <1>3, Entries, Fields DEF IInv
<1>5. new \in [var : Vars, sgen : 1..MaxGen, mid : Nat]
  BY Zenon, <1>w, <1>4
<1>6. SymsTyped'
  BY Zenon, <1>1, <1>5 DEF SymsTyped, IInv, Typed
<1>7. sess \in Sessions
  BY Zenon DEF IInv, Typed, SessTyped
<1>8. sess' \in Sessions
  BY Zenon, <1>1, <1>4, <1>7 DEF Sessions
<1>9. /\ sess'.globals = sess.globals \cup {regs[r].mid} /\ sess'.mods = sess.mods
      /\ sess'.kernels = sess.kernels /\ sess'.nextMid = sess.nextMid
  BY Zenon, <1>1, <1>7 DEF Sessions
<1>10. KernelsTyped'
  BY Zenon, <1>1 DEF KernelsTyped, IInv, Typed
<1>11. KernelsOk'
  <2>1. KernelsOk
    BY Zenon DEF IInv
  <2>2. \A k \in DOMAIN kernels : KernelOk(k) => KernelOk(k)'
    BY Zenon, <1>1, <1>9, KernelOkKept
  <2> QED
    BY Zenon, <1>1, <2>1, <2>2 DEF KernelsOk
<1>12. SymbolsOwned'
  <2>1. /\ \A s \in syms :
             /\ s.sgen = gen /\ s.mid \in sess.globals /\ ServerHas(s.mid)
             /\ \E q \in DOMAIN regs : regs[q].module # 0 /\ regs[q].mid = s.mid
             /\ \A t \in syms : t.var = s.var => t = s
    BY Zenon DEF IInv, SymbolsOwned
  <2>2. \A s \in syms : s.var # v
    BY Zenon, <1>1, <2>1 DEF Registered
  <2>3. new.var = v /\ new.sgen = gen /\ new.mid = regs[r].mid
    BY Zenon, <1>w
  <2>4. \A s \in syms' : s \in syms \/ s = new
    BY Zenon, <1>1
  <2>5. ASSUME NEW s \in syms'
        PROVE  /\ s.sgen = gen /\ s.mid \in sess'.globals /\ ServerHas(s.mid)
               /\ \E q \in DOMAIN regs : regs[q].module # 0 /\ regs[q].mid = s.mid
    <3>1. CASE s \in syms
      BY Zenon, <2>1, <3>1, <1>9
    <3>2. CASE s = new
      BY Zenon, <2>3, <3>2, <1>1, <1>9
    <3> QED
      BY Zenon, <2>4, <3>1, <3>2
  <2>6. ASSUME NEW s \in syms', NEW t \in syms', t.var = s.var PROVE t = s
    BY Zenon, <2>1, <2>2, <2>3, <2>4, <2>6
  <2> QED
    BY Zenon, <2>5, <2>6, <1>1, <1>9 DEF SymbolsOwned, ServerHas
<1> QED
  BY Zenon, <1>1, <1>6, <1>8, <1>9, <1>10, <1>11, <1>12, BindingKeeps

-----------------------------------------------------------------------------
(* The theorems                                                            *)

LEMMA InvNext == IInv /\ [Next]_vars => IInv'
<1> SUFFICES ASSUME IInv, [Next]_vars PROVE IInv'
  OBVIOUS
<1>1. CASE EnsureRuntime
  BY Zenon, <1>1, InvEnsureRuntime
<1>2. CASE TransportFailure
  BY Zenon, <1>2, InvTransportFailure
<1>3. CASE RegisterFatBinary
  BY Zenon, <1>3, InvRegisterFatBinary
<1>4. CASE RegisterFatBinaryFails
  BY Zenon, <1>4, InvRegisterFatBinaryFails
<1>5. CASE RegisterFatBinaryLost
  BY Zenon, <1>5, InvRegisterFatBinaryLost
<1>6. ASSUME NEW kind \in {"loaded", "library"}, ModuleLoad(kind) PROVE IInv'
  BY Zenon, <1>6, InvModuleLoad
<1>7. ASSUME NEW r \in DOMAIN regs, RegisterFatBinaryEnd(r) PROVE IInv'
  BY Zenon, <1>7, InvRegisterFatBinaryEnd
<1>8. ASSUME NEW r \in DOMAIN regs, UnregisterFatBinary(r) PROVE IInv'
  BY Zenon, <1>8, InvUnregisterFatBinary
<1>9. ASSUME NEW r \in DOMAIN regs, NEW f \in Funs, NEW n \in Names, NEW ok \in BOOLEAN,
             RegisterFunction(r, f, n, ok)
      PROVE  IInv'
  BY Zenon, <1>9, InvRegisterFunction
<1>10. ASSUME NEW r \in DOMAIN regs, NEW v \in Vars, NEW fits \in BOOLEAN,
              RegisterVar(r, v, fits)
       PROVE  IInv'
  BY Zenon, <1>10, InvRegisterVar
<1>11. ASSUME NEW m \in DOMAIN mods, ModuleUnload(m) PROVE IInv'
  BY Zenon, <1>11, InvModuleUnload
<1>12. ASSUME NEW m \in DOMAIN mods, NEW n \in Names, RegisterKernel(m, n) PROVE IInv'
  BY Zenon, <1>12, InvRegisterKernel
<1>13. ASSUME NEW m \in DOMAIN mods, NEW n \in Names, NEW ok \in BOOLEAN,
              LibraryGetKernel(m, n, ok)
       PROVE  IInv'
  BY Zenon, <1>13, InvLibraryGetKernel
<1>14. CASE ShutdownBegin \/ ShutdownStep
  BY Zenon, <1>14, InvShutdown
<1>15. CASE ShutdownEnd
  BY Zenon, <1>15, InvShutdownEnd
<1>16. CASE UNCHANGED vars
  <2>1. call' \in 0..(Len(regs) + 1)
    BY Zenon, <1>16 DEF vars, IInv, Typed, CallTyped
  <2> QED
    BY Zenon, <1>16, <2>1, OnlyCall DEF vars
<1> QED
  BY Zenon, <1>1, <1>2, <1>3, <1>4, <1>5, <1>6, <1>7, <1>8, <1>9, <1>10, <1>11, <1>12,
     <1>13, <1>14, <1>15, <1>16 DEF Next

\* The inductive invariant holds in every reachable state.
THEOREM Invariance == Spec => []IInv
<1>1. Init => IInv
  BY Zenon, InvInit
<1>2. IInv /\ [Next]_vars => IInv'
  BY Zenon, InvNext
<1> QED
  BY <1>1, <1>2, PTL DEF Spec

\* The tables always hold values of their types, within their sizes.
THEOREM TypeCorrect == Spec => []TypeOK
<1>1. IInv => TypeOK
  BY Zenon, InvImplies
<1> QED
  BY Invariance, <1>1, PTL

\* Every module of the server session has exactly one live client handle, and a
\* fat binary's is held by a registration: uploads, failed unloads, lost
\* sessions and shutdowns leak none.
THEOREM ModulesNeverLeak == Spec => []NoLeakedModule
<1>1. IInv => NoLeakedModule
  BY Zenon, InvImplies
<1> QED
  BY Invariance, <1>1, PTL

\* The handle a registration holds is live, of the active session, and names
\* the module the registration uploaded.
THEOREM HandlesNeverChased == Spec => []NoChasedHandle
<1>1. IInv => NoChasedHandle
  BY Zenon, InvImplies
<1> QED
  BY Invariance, <1>1, PTL

\* A live kernel handle launches the kernel it was bound to, and a host stub
\* has one meaning.
THEOREM LaunchesAreRight == Spec => []LaunchesRightKernel
<1>1. IInv => LaunchesRightKernel
  BY Zenon, InvImplies
<1> QED
  BY Invariance, <1>1, PTL

\* The layout a launch is packed with was read from the kernel's own image.
THEOREM LayoutsAreOwn == Spec => []AbiOfOwnImage
<1>1. IInv => AbiOfOwnImage
  BY Zenon, InvImplies
<1> QED
  BY Invariance, <1>1, PTL

\* A registered device global belongs to a module that is loaded and held, and
\* a host shadow names one global.
THEOREM GlobalsAreOwned == Spec => []SymbolsOwned
<1>1. IInv => SymbolsOwned
  BY Zenon, InvImplies
<1> QED
  BY Invariance, <1>1, PTL

=============================================================================
