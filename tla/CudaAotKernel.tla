--------------------------- MODULE CudaAotKernel ---------------------------
(***************************************************************************)
(* dli::CudaAotKernel (src/cuda_driver.cc): kernels whose module is loaded *)
(* at the first launch, over a driver that is looked for once.             *)
(*                                                                         *)
(* The generated plugin makes every kernel a function-local static, so all *)
(* engines of a process share it, and Engine.run() gives up the GIL: two   *)
(* threads may be in load() of one kernel, which nothing synchronises.     *)
(* Every driver call is a step, and so is every access to module_ and      *)
(* function_ between two of them; a plain pointer is read or written whole *)
(* by the machines CUDA runs on.                                           *)
(***************************************************************************)
EXTENDS Naturals, FiniteSets

CONSTANTS
  Threads,
  Kernels,
  Embedded,    \* kernels that have a cubin
  MaxModules,  \* bound: successful cuModuleLoadData calls per kernel
  None         \* a null pointer, no kernel

(* A module of kernel k: the n-th that was loaded from its cubin. *)
Module == Kernels \X (1..MaxModules)

ASSUME KernelAssumption ==
  /\ IsFiniteSet(Threads)
  /\ Embedded \subseteq Kernels
  /\ MaxModules \in Nat
  /\ None \notin Kernels \union Module

VARIABLES
  driver,      \* the singleton: not made yet, or what became of it
  module_,     \* per kernel: its module_, or None
  function_,   \* per kernel: the module its function_ comes from, or None
  loaded,      \* modules of the driver that are not unloaded
  made,        \* per kernel: modules loaded so far
  unresolved,  \* per kernel: cuModuleGetFunction calls that failed
  pc,          \* per thread: the driver call launch() is at
  at,          \* per thread: the kernel it launches
  outcome      \* per thread: how its last launch ended

vars == <<driver, module_, function_, loaded, made, unresolved, pc, at, outcome>>

ModulesOf(k) == {m \in loaded : m[1] = k}

-----------------------------------------------------------------------------
(* The driver *)

(* The first call of driver() makes it, while other callers wait.  It is   *)
(* unavailable for good if there is no libcuda, if a symbol is missing, or *)
(* if cuInit fails.                                                        *)
DriverStarts ==
  /\ driver = "new"
  /\ driver' \in {"ready", "unavailable"}
  /\ UNCHANGED <<module_, function_, loaded, made, unresolved, pc, at, outcome>>

-----------------------------------------------------------------------------
(* launch() *)

Ends(t, how) ==
  /\ pc' = [pc EXCEPT ![t] = "idle"]
  /\ at' = [at EXCEPT ![t] = None]
  /\ outcome' = [outcome EXCEPT ![t] = how]

(* An empty grid returns before anything is loaded. *)
LaunchEmpty(t) ==
  /\ pc[t] = "idle"
  /\ outcome' = [outcome EXCEPT ![t] = "empty"]
  /\ UNCHANGED <<driver, module_, function_, loaded, made, unresolved, pc, at>>

(* Mutant: load() does not look whether it has been called before. *)
LaunchReloads(t, k) ==
  /\ pc[t] = "idle"
  /\ pc' = [pc EXCEPT ![t] = "cuModuleLoadData"]
  /\ at' = [at EXCEPT ![t] = k]
  /\ UNCHANGED <<driver, module_, function_, loaded, made, unresolved, outcome>>

(* load() is done if function_ is set. *)
Launch(t, k) ==
  /\ pc[t] = "idle"
  /\ pc' = [pc EXCEPT ![t] = IF function_[k] # None THEN "cuLaunchKernel" ELSE "cuModuleLoadData"]
  /\ at' = [at EXCEPT ![t] = k]
  /\ UNCHANGED <<driver, module_, function_, loaded, made, unresolved, outcome>>

(* requireDriver() throws, or the cubin is missing. *)
LoadRefused(t) ==
  /\ pc[t] = "cuModuleLoadData"
  /\ \/ driver = "unavailable"
     \/ driver = "ready" /\ at[t] \notin Embedded
  /\ Ends(t, "threw")
  /\ UNCHANGED <<driver, module_, function_, loaded, made, unresolved>>

(* Mutant: the module an earlier attempt left behind is unloaded first. *)
RetiredUnloads(k) == {module_[k]}
Retired(k) == {}

(* cuModuleLoadData(&module_, cubin_): an older handle is overwritten. *)
LoadModule(t) ==
  LET k == at[t]
      new == <<k, made[k] + 1>>
  IN /\ pc[t] = "cuModuleLoadData"
     /\ driver = "ready" /\ k \in Embedded
     /\ made[k] < MaxModules
     /\ module_' = [module_ EXCEPT ![k] = new]
     /\ loaded' = (loaded \ Retired(k)) \union {new}
     /\ made' = [made EXCEPT ![k] = @ + 1]
     /\ pc' = [pc EXCEPT ![t] = "cuModuleGetFunction"]
     /\ UNCHANGED <<driver, function_, unresolved, at, outcome>>

(* cuModuleGetFunction(&function_, module_): of the module that is in      *)
(* module_ now, which another thread may have loaded.                      *)
GetFunction(t) ==
  /\ pc[t] = "cuModuleGetFunction"
  /\ function_' = [function_ EXCEPT ![at[t]] = module_[at[t]]]
  /\ pc' = [pc EXCEPT ![t] = "cuLaunchKernel"]
  /\ UNCHANGED <<driver, module_, loaded, made, unresolved, at, outcome>>

(* cuLaunchKernel(function_), whatever it reports. *)
LaunchKernel(t) ==
  /\ pc[t] = "cuLaunchKernel"
  /\ \E how \in {"ok", "threw"} : Ends(t, how)
  /\ UNCHANGED <<driver, module_, function_, loaded, made, unresolved>>

(* Mutant: a failed lookup clears module_ for the next attempt. *)
GetFunctionFailsClears(t) ==
  /\ pc[t] = "cuModuleGetFunction"
  /\ module_' = [module_ EXCEPT ![at[t]] = None]
  /\ unresolved' = [unresolved EXCEPT ![at[t]] = @ + 1]
  /\ Ends(t, "threw")
  /\ UNCHANGED <<driver, function_, loaded, made>>

(* The lookup fails: module_ is set, function_ is not, the next launch     *)
(* loads the cubin again.                                                  *)
GetFunctionFails(t) ==
  /\ pc[t] = "cuModuleGetFunction"
  /\ unresolved' = [unresolved EXCEPT ![at[t]] = @ + 1]
  /\ Ends(t, "threw")
  /\ UNCHANGED <<driver, module_, function_, loaded, made>>

(* cuModuleLoadData fails, as it does when the device has no memory left.  *)
LoadModuleFails(t) ==
  /\ pc[t] = "cuModuleLoadData"
  /\ driver = "ready" /\ at[t] \in Embedded
  /\ Ends(t, "threw")
  /\ UNCHANGED <<driver, module_, function_, loaded, made, unresolved>>

-----------------------------------------------------------------------------
Init ==
  /\ driver = "new"
  /\ module_ = [k \in Kernels |-> None]
  /\ function_ = [k \in Kernels |-> None]
  /\ loaded = {}
  /\ made = [k \in Kernels |-> 0]
  /\ unresolved = [k \in Kernels |-> 0]
  /\ pc = [t \in Threads |-> "idle"]
  /\ at = [t \in Threads |-> None]
  /\ outcome = [t \in Threads |-> "none"]

Next ==
  \/ DriverStarts
  \/ \E t \in Threads :
       \/ LaunchEmpty(t)
       \/ \E k \in Kernels : Launch(t, k)
       \/ LoadRefused(t)
       \/ LoadModule(t)
       \/ LoadModuleFails(t)
       \/ GetFunction(t)
       \/ GetFunctionFails(t)
       \/ LaunchKernel(t)

Spec == Init /\ [][Next]_vars

-----------------------------------------------------------------------------
(* Properties *)

TypeOK ==
  /\ driver \in {"new", "ready", "unavailable"}
  /\ module_ \in [Kernels -> Module \union {None}]
  /\ function_ \in [Kernels -> Module \union {None}]
  /\ \A k \in Kernels : function_[k] # None => module_[k] # None
  /\ loaded \subseteq Module
  /\ made \in [Kernels -> 0..MaxModules]
  /\ unresolved \in [Kernels -> Nat]
  /\ pc \in [Threads -> {"idle", "cuModuleLoadData", "cuModuleGetFunction", "cuLaunchKernel"}]
  /\ at \in [Threads -> Kernels \union {None}]
  /\ outcome \in [Threads -> {"none", "ok", "empty", "threw"}]

(* What is handed to cuLaunchKernel is a function of this kernel, of a     *)
(* module the driver still has, whoever else is loading or failing to load *)
(* the same kernel.                                                        *)
LaunchesLoadedFunction ==
  \A t \in Threads :
    pc[t] = "cuLaunchKernel" => function_[at[t]] \in ModulesOf(at[t])

(* Modules are never unloaded, so each extra one stays for good: there is  *)
(* at most one for every failed lookup and one for every thread that was   *)
(* in load() before function_ was set.                                     *)
ExtraModulesAreBounded ==
  \A k \in Kernels : Cardinality(ModulesOf(k)) <= unresolved[k] + Cardinality(Threads)
=============================================================================
