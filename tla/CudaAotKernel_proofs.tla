----------------------- MODULE CudaAotKernel_proofs ------------------------
(* Proofs about CudaAotKernel: what is launched is loaded, and how many    *)
(* modules a kernel can have, for any number of threads and kernels.       *)
EXTENDS CudaAotKernel, FiniteSetTheorems, TLAPS

(* A thread inside launch() is at a kernel. *)
AtKernel == \A t \in Threads : pc[t] # "idle" => at[t] \in Kernels

(* The handles of a kernel are those of loaded modules of its own. *)
HandlesLoaded ==
  \A k \in Kernels :
    /\ module_[k] # None => module_[k] \in ModulesOf(k)
    /\ function_[k] # None => function_[k] \in ModulesOf(k)

(* A thread past a driver call has what the call has returned. *)
CallsReturned ==
  \A t \in Threads :
    /\ pc[t] = "cuModuleGetFunction" => module_[at[t]] # None
    /\ pc[t] = "cuLaunchKernel" => function_[at[t]] # None

LaunchInv == TypeOK /\ AtKernel /\ HandlesLoaded /\ CallsReturned

(* Initially nothing is loaded and no thread launches. *)
LEMMA LaunchInvInit == Init => LaunchInv
<1> SUFFICES ASSUME Init PROVE LaunchInv
  OBVIOUS
<1>1. TypeOK
  BY KernelAssumption DEF Init, TypeOK
<1>2. AtKernel /\ HandlesLoaded /\ CallsReturned
  BY DEF Init, AtKernel, HandlesLoaded, CallsReturned
<1> QED BY <1>1, <1>2 DEF LaunchInv

(* The end of a launch keeps the per-thread state well typed. *)
LEMMA EndsKeeps ==
  ASSUME LaunchInv, NEW t \in Threads, NEW how \in {"ok", "threw"}, Ends(t, how),
         UNCHANGED <<driver, module_, function_, loaded, made>>,
         unresolved' \in [Kernels -> Nat]
  PROVE  LaunchInv'
<1> USE DEF LaunchInv, Ends
<1>1. TypeOK'
  BY DEF TypeOK
<1>2. AtKernel'
  BY DEF AtKernel, TypeOK
<1>3. HandlesLoaded'
  BY DEF HandlesLoaded, ModulesOf
<1>4. CallsReturned'
  BY DEF CallsReturned, TypeOK
<1> QED BY <1>1, <1>2, <1>3, <1>4

(* A new module keeps the handles of other kernels and replaces its own. *)
LEMMA LoadModuleKeeps ==
  ASSUME LaunchInv, NEW t \in Threads, LoadModule(t)
  PROVE  LaunchInv'
<1> DEFINE k == at[t]
           new == <<k, made[k] + 1>>
<1>1. k \in Kernels /\ made[k] + 1 \in 1..MaxModules /\ made[k] \in Nat
  BY KernelAssumption DEF LaunchInv, TypeOK, AtKernel, LoadModule
<1>2. new \in Module /\ new # None /\ new[1] = k
  BY <1>1, KernelAssumption DEF Module
<1>3. loaded' = loaded \union {new}
  BY DEF LoadModule, Retired
<1>4. TypeOK'
  <2>1. module_' \in [Kernels -> Module \union {None}]
    BY <1>1, <1>2 DEF LaunchInv, TypeOK, LoadModule
  <2>2. made' \in [Kernels -> 0..MaxModules]
    BY <1>1 DEF LaunchInv, TypeOK, LoadModule
  <2>3. \A j \in Kernels : function_'[j] # None => module_'[j] # None
    BY <1>1, <1>2 DEF LaunchInv, TypeOK, LoadModule
  <2>4. loaded' \subseteq Module
    BY <1>2, <1>3 DEF LaunchInv, TypeOK
  <2> QED BY <2>1, <2>2, <2>3, <2>4 DEF LaunchInv, TypeOK, LoadModule
<1>5. AtKernel'
  BY <1>1 DEF LaunchInv, AtKernel, TypeOK, LoadModule
<1>6. HandlesLoaded'
  <2> SUFFICES ASSUME NEW j \in Kernels
               PROVE  /\ module_'[j] # None => module_'[j] \in ModulesOf(j)'
                      /\ function_'[j] # None => function_'[j] \in ModulesOf(j)'
    BY DEF HandlesLoaded
  <2>1. ModulesOf(j) \subseteq ModulesOf(j)'
    BY <1>3 DEF ModulesOf
  <2>2. module_'[j] = IF j = k THEN new ELSE module_[j]
    BY <1>1 DEF LaunchInv, TypeOK, LoadModule
  <2>3. new \in ModulesOf(k)'
    BY <1>2, <1>3 DEF ModulesOf, LoadModule
  <2> QED BY <2>1, <2>2, <2>3 DEF LaunchInv, HandlesLoaded, LoadModule
<1>7. CallsReturned'
  <2> SUFFICES ASSUME NEW u \in Threads
               PROVE  /\ pc'[u] = "cuModuleGetFunction" => module_'[at'[u]] # None
                      /\ pc'[u] = "cuLaunchKernel" => function_'[at'[u]] # None
    BY DEF CallsReturned
  <2>1. CASE u = t
    BY <2>1, <1>1, <1>2 DEF LaunchInv, TypeOK, LoadModule
  <2>2. CASE u # t
    <3>1. pc'[u] = pc[u] /\ at'[u] = at[u] /\ function_' = function_
      BY <2>2 DEF LaunchInv, TypeOK, LoadModule
    <3>2. pc[u] = "cuModuleGetFunction" => at[u] \in Kernels
      BY DEF LaunchInv, AtKernel
    <3>3. \A j \in Kernels : module_[j] # None => module_'[j] # None
      BY <1>1, <1>2 DEF LaunchInv, TypeOK, LoadModule
    <3> QED BY <3>1, <3>2, <3>3 DEF LaunchInv, CallsReturned
  <2> QED BY <2>1, <2>2
<1> QED BY <1>4, <1>5, <1>6, <1>7 DEF LaunchInv

(* The function comes from whichever module is in module_ by then. *)
LEMMA GetFunctionKeeps ==
  ASSUME LaunchInv, NEW t \in Threads, GetFunction(t)
  PROVE  LaunchInv'
<1> DEFINE k == at[t]
<1>1. k \in Kernels /\ module_[k] # None /\ module_[k] \in ModulesOf(k)
  BY DEF LaunchInv, AtKernel, CallsReturned, HandlesLoaded, GetFunction
<1>2. \A j \in Kernels : function_'[j] = IF j = k THEN module_[k] ELSE function_[j]
  BY DEF LaunchInv, TypeOK, GetFunction
<1>3. TypeOK'
  <2>1. function_' \in [Kernels -> Module \union {None}]
    BY <1>1 DEF LaunchInv, TypeOK, GetFunction
  <2>2. \A j \in Kernels : function_'[j] # None => module_'[j] # None
    BY <1>1, <1>2 DEF LaunchInv, TypeOK, GetFunction
  <2> QED BY <2>1, <2>2 DEF LaunchInv, TypeOK, GetFunction
<1>4. AtKernel'
  BY <1>1 DEF LaunchInv, AtKernel, TypeOK, GetFunction
<1>5. HandlesLoaded'
  BY <1>1, <1>2 DEF LaunchInv, HandlesLoaded, ModulesOf, GetFunction
<1>6. CallsReturned'
  <2> SUFFICES ASSUME NEW u \in Threads
               PROVE  /\ pc'[u] = "cuModuleGetFunction" => module_'[at'[u]] # None
                      /\ pc'[u] = "cuLaunchKernel" => function_'[at'[u]] # None
    BY DEF CallsReturned
  <2>1. CASE u = t
    BY <2>1, <1>1, <1>2 DEF LaunchInv, TypeOK, GetFunction
  <2>2. CASE u # t
    <3>1. pc'[u] = pc[u] /\ at'[u] = at[u] /\ module_' = module_
      BY <2>2 DEF LaunchInv, TypeOK, GetFunction
    <3>2. pc[u] = "cuLaunchKernel" => at[u] \in Kernels
      BY DEF LaunchInv, AtKernel
    <3> QED BY <3>1, <3>2, <1>1, <1>2 DEF LaunchInv, CallsReturned
  <2> QED BY <2>1, <2>2
<1> QED BY <1>3, <1>4, <1>5, <1>6 DEF LaunchInv

(* A launch takes the short way only when function_ is set. *)
LEMMA LaunchKeeps ==
  ASSUME LaunchInv, NEW t \in Threads, NEW k \in Kernels, Launch(t, k)
  PROVE  LaunchInv'
<1>1. /\ pc'[t] = IF function_[k] # None THEN "cuLaunchKernel" ELSE "cuModuleLoadData"
      /\ at'[t] = k
      /\ \A u \in Threads \ {t} : pc'[u] = pc[u] /\ at'[u] = at[u]
  BY DEF LaunchInv, TypeOK, Launch
<1>2. TypeOK'
  BY DEF LaunchInv, TypeOK, Launch
<1>3. AtKernel'
  BY <1>1 DEF LaunchInv, AtKernel
<1>4. HandlesLoaded'
  BY DEF LaunchInv, HandlesLoaded, ModulesOf, Launch
<1>5. CallsReturned'
  BY <1>1 DEF LaunchInv, CallsReturned, Launch
<1> QED BY <1>2, <1>3, <1>4, <1>5 DEF LaunchInv

(* Every step preserves the invariant. *)
LEMMA LaunchInvStep == LaunchInv /\ [Next]_vars => LaunchInv'
<1> SUFFICES ASSUME LaunchInv, [Next]_vars PROVE LaunchInv'
  OBVIOUS
<1>1. CASE DriverStarts
  BY <1>1 DEF LaunchInv, TypeOK, AtKernel, HandlesLoaded, CallsReturned, ModulesOf, DriverStarts
<1>2. ASSUME NEW t \in Threads, LaunchEmpty(t) PROVE LaunchInv'
  BY <1>2 DEF LaunchInv, TypeOK, AtKernel, HandlesLoaded, CallsReturned, ModulesOf, LaunchEmpty
<1>3. ASSUME NEW t \in Threads, NEW k \in Kernels, Launch(t, k) PROVE LaunchInv'
  BY <1>3, LaunchKeeps
<1>4. ASSUME NEW t \in Threads, LoadRefused(t) PROVE LaunchInv'
  BY <1>4, EndsKeeps DEF LoadRefused, LaunchInv, TypeOK
<1>5. ASSUME NEW t \in Threads, LoadModule(t) PROVE LaunchInv'
  BY <1>5, LoadModuleKeeps
<1>6. ASSUME NEW t \in Threads, LoadModuleFails(t) PROVE LaunchInv'
  BY <1>6, EndsKeeps DEF LoadModuleFails, LaunchInv, TypeOK
<1>7. ASSUME NEW t \in Threads, GetFunction(t) PROVE LaunchInv'
  BY <1>7, GetFunctionKeeps
<1>8. ASSUME NEW t \in Threads, GetFunctionFails(t) PROVE LaunchInv'
  <2>1. unresolved' \in [Kernels -> Nat]
    BY <1>8 DEF GetFunctionFails, LaunchInv, TypeOK, AtKernel
  <2> QED BY <1>8, <2>1, EndsKeeps DEF GetFunctionFails
<1>9. ASSUME NEW t \in Threads, LaunchKernel(t) PROVE LaunchInv'
  BY <1>9, EndsKeeps DEF LaunchKernel, LaunchInv, TypeOK
<1>10. CASE UNCHANGED vars
  BY <1>10 DEF LaunchInv, TypeOK, AtKernel, HandlesLoaded, CallsReturned, ModulesOf, vars
<1> QED BY <1>1, <1>2, <1>3, <1>4, <1>5, <1>6, <1>7, <1>8, <1>9, <1>10 DEF Next

(* The state of every kernel and thread is well typed, and function_ is    *)
(* never set without module_ (cuda_driver.h:78-81).                        *)
THEOREM KernelsTyped == Spec => []TypeOK
<1>1. LaunchInv => TypeOK
  BY DEF LaunchInv
<1> QED BY <1>1, LaunchInvInit, LaunchInvStep, PTL DEF Spec

(* cuLaunchKernel is called only with a function of a loaded module of the *)
(* same kernel, however many threads load it at once and however many      *)
(* loads fail.                                                             *)
THEOREM LaunchesAreLoaded == Spec => []LaunchesLoadedFunction
<1>1. LaunchInv => LaunchesLoadedFunction
  BY DEF LaunchInv, AtKernel, HandlesLoaded, CallsReturned, LaunchesLoadedFunction
<1> QED BY <1>1, LaunchInvInit, LaunchInvStep, PTL DEF Spec

-----------------------------------------------------------------------------
(* How many modules a kernel can have *)

(* The threads that are about to load kernel k, and those that have. *)
Loading(k) == {t \in Threads : at[t] = k /\ pc[t] = "cuModuleLoadData"}
Resolving(k) == {t \in Threads : at[t] = k /\ pc[t] = "cuModuleGetFunction"}

(* While function_ is not set, every module is one whose lookup has failed *)
(* or is in progress; once it is set, no thread starts to load.            *)
CountInv ==
  \A k \in Kernels :
    /\ function_[k] = None => made[k] = unresolved[k] + Cardinality(Resolving(k))
    /\ made[k] + Cardinality(Loading(k)) <= unresolved[k] + Cardinality(Threads)
    /\ \A m \in ModulesOf(k) : m[2] <= made[k]

(* Subsets of Threads are finite, and disjoint ones are together no more   *)
(* than there are threads.                                                 *)
LEMMA ThreadSets ==
  /\ Cardinality(Threads) \in Nat
  /\ \A S \in SUBSET Threads :
       IsFiniteSet(S) /\ Cardinality(S) \in Nat /\ Cardinality(S) <= Cardinality(Threads)
  /\ \A S \in SUBSET Threads, x \in Threads :
       /\ x \in S => Cardinality(S \ {x}) = Cardinality(S) - 1
       /\ x \notin S => Cardinality(S \union {x}) = Cardinality(S) + 1
  /\ \A S, T \in SUBSET Threads :
       S \intersect T = {} => Cardinality(S) + Cardinality(T) <= Cardinality(Threads)
<1>0. IsFiniteSet(Threads)
  BY KernelAssumption
<1>1. Cardinality(Threads) \in Nat
  BY <1>0, FS_CardinalityType
<1>2. ASSUME NEW S \in SUBSET Threads
      PROVE  IsFiniteSet(S) /\ Cardinality(S) \in Nat /\ Cardinality(S) <= Cardinality(Threads)
  BY <1>0, FS_Subset, FS_CardinalityType
<1>3. ASSUME NEW S \in SUBSET Threads, NEW x \in Threads
      PROVE  /\ x \in S => Cardinality(S \ {x}) = Cardinality(S) - 1
             /\ x \notin S => Cardinality(S \union {x}) = Cardinality(S) + 1
  BY <1>2, FS_AddElement, FS_RemoveElement
<1>4. ASSUME NEW S \in SUBSET Threads, NEW T \in SUBSET Threads, S \intersect T = {}
      PROVE  Cardinality(S) + Cardinality(T) <= Cardinality(Threads)
  <2>1. IsFiniteSet(S) /\ IsFiniteSet(T) /\ Cardinality(S) \in Nat /\ Cardinality(T) \in Nat
    BY <1>2
  <2>2. Cardinality(S \union T)
          = Cardinality(S) + Cardinality(T) - Cardinality(S \intersect T)
    BY <2>1, FS_Union
  <2>3. Cardinality(S \intersect T) = 0
    BY <1>4, FS_EmptySet
  <2>4. Cardinality(S \union T) <= Cardinality(Threads)
    BY <1>2
  <2> QED BY <2>1, <2>2, <2>3, <2>4
<1> QED BY <1>1, <1>2, <1>3, <1>4

(* A thread that goes elsewhere is in neither set. *)
LEMMA ThreadLeaves ==
  ASSUME LaunchInv, NEW t \in Threads, NEW p \in {"idle", "cuLaunchKernel"}, NEW a,
         pc' = [pc EXCEPT ![t] = p], at' = [at EXCEPT ![t] = a]
  PROVE  \A k \in Kernels :
           Loading(k)' = Loading(k) \ {t} /\ Resolving(k)' = Resolving(k) \ {t}
<1>1. /\ pc'[t] = p /\ \A u \in Threads \ {t} : pc'[u] = pc[u] /\ at'[u] = at[u]
      /\ p # "cuModuleLoadData" /\ p # "cuModuleGetFunction"
  BY DEF LaunchInv, TypeOK
<1> QED BY <1>1 DEF Loading, Resolving

(* The counts of a kernel are natural numbers. *)
LEMMA CountTypes ==
  ASSUME LaunchInv, NEW k \in Kernels
  PROVE  /\ Loading(k) \in SUBSET Threads /\ Resolving(k) \in SUBSET Threads
         /\ Loading(k) \intersect Resolving(k) = {}
         /\ Cardinality(Loading(k)) \in Nat /\ Cardinality(Resolving(k)) \in Nat
         /\ made[k] \in Nat /\ unresolved[k] \in Nat
<1>1. Loading(k) \in SUBSET Threads /\ Resolving(k) \in SUBSET Threads
  BY DEF Loading, Resolving
<1>2. made[k] \in Nat /\ unresolved[k] \in Nat
  BY KernelAssumption DEF LaunchInv, TypeOK
<1>3. Loading(k) \intersect Resolving(k) = {}
  BY DEF Loading, Resolving
<1> QED BY <1>1, <1>2, <1>3, ThreadSets

(* Initially no kernel has a module. *)
LEMMA CountInit == Init => CountInv
<1> SUFFICES ASSUME Init, NEW k \in Kernels
             PROVE  /\ function_[k] = None => made[k] = unresolved[k] + Cardinality(Resolving(k))
                    /\ made[k] + Cardinality(Loading(k)) <= unresolved[k] + Cardinality(Threads)
                    /\ \A m \in ModulesOf(k) : m[2] <= made[k]
  BY DEF CountInv
<1>1. Loading(k) = {} /\ Resolving(k) = {} /\ ModulesOf(k) = {}
  BY DEF Init, Loading, Resolving, ModulesOf
<1>2. made[k] = 0 /\ unresolved[k] = 0
  BY DEF Init
<1> QED BY <1>1, <1>2, FS_EmptySet, ThreadSets

(* Steps that move no thread into or out of load(). *)
LEMMA CountFrame ==
  ASSUME CountInv, UNCHANGED <<function_, loaded, made, unresolved>>,
         \A k \in Kernels : Loading(k)' = Loading(k) /\ Resolving(k)' = Resolving(k)
  PROVE  CountInv'
BY DEF CountInv, ModulesOf

(* A thread enters load() only while function_ is not set. *)
LEMMA CountLaunch ==
  ASSUME LaunchInv, CountInv, NEW t \in Threads, NEW k \in Kernels, Launch(t, k)
  PROVE  CountInv'
<1> DEFINE p == IF function_[k] # None THEN "cuLaunchKernel" ELSE "cuModuleLoadData"
<1>1. \A j \in Kernels : t \notin Loading(j) /\ t \notin Resolving(j)
  BY DEF Launch, Loading, Resolving
<1>2. /\ pc'[t] = p /\ at'[t] = k /\ p # "cuModuleGetFunction"
      /\ \A u \in Threads \ {t} : pc'[u] = pc[u] /\ at'[u] = at[u]
  BY DEF Launch, LaunchInv, TypeOK
<1>3. \A j \in Kernels :
        /\ Loading(j)' = IF k = j /\ p = "cuModuleLoadData"
                         THEN Loading(j) \union {t} ELSE Loading(j)
        /\ Resolving(j)' = Resolving(j)
  <2> HIDE DEF p
  <2> QED BY <1>1, <1>2 DEF Loading, Resolving
<1>4. UNCHANGED <<function_, loaded, made, unresolved>>
  BY DEF Launch
<1>5. CASE function_[k] # None
  BY <1>1, <1>3, <1>4, <1>5, CountFrame
<1>6. CASE function_[k] = None
  <2> SUFFICES ASSUME NEW j \in Kernels
               PROVE  made[j] + Cardinality(Loading(j)') <= unresolved[j] + Cardinality(Threads)
    BY <1>3, <1>4 DEF CountInv, ModulesOf
  <2>1. CASE j # k
    BY <2>1, <1>1, <1>3 DEF CountInv
  <2>2. CASE j = k
    <3> DEFINE S == Loading(k) \union {t}
    <3>1. Loading(j)' = S /\ S \in SUBSET Threads /\ Cardinality(S) \in Nat
      BY <2>2, <1>3, <1>6, CountTypes, ThreadSets
    <3>2. S \intersect Resolving(k) = {}
      BY <1>1, CountTypes
    <3>3. Cardinality(S) + Cardinality(Resolving(k)) <= Cardinality(Threads)
      BY <3>1, <3>2, CountTypes, ThreadSets
    <3>4. made[k] = unresolved[k] + Cardinality(Resolving(k))
      BY <1>6 DEF CountInv
    <3> HIDE DEF S
    <3> QED BY <2>2, <3>1, <3>3, <3>4, CountTypes, ThreadSets
  <2> QED BY <2>1, <2>2
<1> QED BY <1>5, <1>6

(* A thread leaves load() before it has a module. *)
LEMMA CountLeaves ==
  ASSUME LaunchInv, CountInv, NEW t \in Threads, pc[t] = "cuModuleLoadData", Ends(t, "threw"),
         UNCHANGED <<function_, loaded, made, unresolved>>
  PROVE  CountInv'
<1>1. \A j \in Kernels : Loading(j)' = Loading(j) \ {t} /\ Resolving(j)' = Resolving(j) \ {t}
  BY ThreadLeaves DEF Ends
<1>2. \A j \in Kernels : Resolving(j)' = Resolving(j)
  BY <1>1 DEF Resolving
<1>3. ASSUME NEW j \in Kernels
      PROVE  made[j] + Cardinality(Loading(j)') <= unresolved[j] + Cardinality(Threads)
  <2>1. made[j] + Cardinality(Loading(j)) <= unresolved[j] + Cardinality(Threads)
    BY DEF CountInv
  <2>2. CASE t \in Loading(j)
    BY <2>1, <2>2, <1>1, CountTypes, ThreadSets
  <2>3. CASE t \notin Loading(j)
    BY <2>1, <2>3, <1>1
  <2> QED BY <2>2, <2>3
<1> QED BY <1>1, <1>2, <1>3 DEF CountInv, ModulesOf

(* cuModuleLoadData: the thread goes from one set to the other. *)
LEMMA CountLoads ==
  ASSUME LaunchInv, CountInv, NEW t \in Threads, NEW k \in Kernels, at[t] = k, LoadModule(t)
  PROVE  CountInv'
<1>1. k \in Kernels /\ t \in Loading(k) /\ t \notin Resolving(k) /\ made'[k] = made[k] + 1
  BY DEF LoadModule, Loading, Resolving, LaunchInv, TypeOK, AtKernel
<1>2. /\ pc'[t] = "cuModuleGetFunction" /\ at' = at
      /\ \A u \in Threads \ {t} : pc'[u] = pc[u]
  BY DEF LoadModule, LaunchInv, TypeOK
<1>3. \A j \in Kernels : /\ Loading(j)' = Loading(j) \ {t}
                         /\ Resolving(j)' = IF k = j THEN Resolving(j) \union {t}
                                                     ELSE Resolving(j) \ {t}
  BY <1>2 DEF Loading, Resolving
<1>4. ASSUME NEW j \in Kernels, j # k
      PROVE  Loading(j)' = Loading(j) /\ Resolving(j)' = Resolving(j) /\ made'[j] = made[j]
  <2>1. t \notin Loading(j) /\ t \notin Resolving(j)
    BY <1>4 DEF Loading, Resolving
  <2>2. made'[j] = made[j]
    BY <1>4, <1>1 DEF LoadModule, LaunchInv, TypeOK
  <2> QED BY <2>1, <2>2, <1>3, <1>4
<1>5. ASSUME NEW j \in Kernels, NEW m \in ModulesOf(j)'
      PROVE  m[2] <= made'[j]
  <2>1. CASE m \in ModulesOf(j)
    <3>1. m[2] <= made[j] /\ m[2] \in Nat /\ made[j] \in Nat
      BY <2>1, CountTypes DEF CountInv, ModulesOf, LaunchInv, TypeOK, Module
    <3> QED BY <3>1, <1>1, <1>4
  <2>2. CASE m \notin ModulesOf(j)
    <3>1. m = <<k, made[k] + 1>> /\ j = k
      BY <2>2 DEF ModulesOf, LoadModule, Retired
    <3> QED BY <3>1, <1>1, CountTypes
  <2> QED BY <2>1, <2>2
<1>6. /\ function_[k] = None => made'[k] = unresolved[k] + Cardinality(Resolving(k)')
      /\ made'[k] + Cardinality(Loading(k)') <= unresolved[k] + Cardinality(Threads)
  <2>1. Cardinality(Resolving(k)') = Cardinality(Resolving(k)) + 1
    BY <1>1, <1>3, CountTypes, ThreadSets
  <2>2. Cardinality(Loading(k)') = Cardinality(Loading(k)) - 1
    BY <1>1, <1>3, CountTypes, ThreadSets
  <2>3. /\ function_[k] = None => made[k] = unresolved[k] + Cardinality(Resolving(k))
        /\ made[k] + Cardinality(Loading(k)) <= unresolved[k] + Cardinality(Threads)
    BY <1>1 DEF CountInv
  <2> QED BY <2>1, <2>2, <2>3, <1>1, CountTypes, ThreadSets
<1>7. ASSUME NEW j \in Kernels
      PROVE  /\ function_'[j] = None => made'[j] = unresolved'[j] + Cardinality(Resolving(j)')
             /\ made'[j] + Cardinality(Loading(j)') <= unresolved'[j] + Cardinality(Threads)
  <2>1. UNCHANGED <<function_, unresolved>>
    BY DEF LoadModule
  <2>2. CASE j = k
    BY <2>1, <2>2, <1>6
  <2>3. CASE j # k
    BY <2>1, <2>3, <1>4 DEF CountInv
  <2> QED BY <2>2, <2>3
<1> QED BY <1>5, <1>7 DEF CountInv

(* cuModuleGetFunction succeeds: function_ is set from here on. *)
LEMMA CountResolves ==
  ASSUME LaunchInv, CountInv, NEW t \in Threads, NEW k \in Kernels, at[t] = k, GetFunction(t)
  PROVE  CountInv'
<1>1. pc' = [pc EXCEPT ![t] = "cuLaunchKernel"] /\ at' = [at EXCEPT ![t] = k]
  BY DEF GetFunction, LaunchInv, TypeOK
<1>2. \A j \in Kernels : Loading(j)' = Loading(j) \ {t} /\ Resolving(j)' = Resolving(j) \ {t}
  BY <1>1, ThreadLeaves
<1>3. \A j \in Kernels : Loading(j)' = Loading(j)
  BY <1>2 DEF Loading, GetFunction
<1>4. ASSUME NEW j \in Kernels, function_'[j] = None
      PROVE  j # k /\ function_[j] = None
  BY <1>4 DEF GetFunction, LaunchInv, TypeOK, CallsReturned
<1>5. \A j \in Kernels : j # k => Resolving(j)' = Resolving(j)
  BY <1>2 DEF Resolving
<1>6. UNCHANGED <<made, unresolved, loaded>>
  BY DEF GetFunction
<1> QED BY <1>3, <1>4, <1>5, <1>6 DEF CountInv, ModulesOf

(* It fails: one more module stays behind. *)
LEMMA CountUnresolved ==
  ASSUME LaunchInv, CountInv, NEW t \in Threads, NEW k \in Kernels, at[t] = k, GetFunctionFails(t)
  PROVE  CountInv'
<1>1. k \in Kernels /\ t \in Resolving(k)
  BY DEF GetFunctionFails, Resolving, LaunchInv, AtKernel
<1>2. \A j \in Kernels : Loading(j)' = Loading(j) \ {t} /\ Resolving(j)' = Resolving(j) \ {t}
  BY ThreadLeaves DEF GetFunctionFails, Ends
<1>3. \A j \in Kernels : Loading(j)' = Loading(j)
  BY <1>2 DEF Loading, GetFunctionFails
<1>4. \A j \in Kernels : unresolved'[j] = IF j = k THEN unresolved[j] + 1 ELSE unresolved[j]
  BY DEF GetFunctionFails, LaunchInv, TypeOK
<1>5. UNCHANGED <<function_, made, loaded>>
  BY DEF GetFunctionFails
<1>6. \A j \in Kernels : j # k => Resolving(j)' = Resolving(j)
  BY <1>2 DEF Resolving
<1>7. Cardinality(Resolving(k)') = Cardinality(Resolving(k)) - 1
  BY <1>1, <1>2, CountTypes, ThreadSets
<1>8. ASSUME NEW j \in Kernels
      PROVE  /\ function_[j] = None => made[j] = unresolved'[j] + Cardinality(Resolving(j)')
             /\ made[j] + Cardinality(Loading(j)) <= unresolved'[j] + Cardinality(Threads)
  <2>1. /\ function_[j] = None => made[j] = unresolved[j] + Cardinality(Resolving(j))
        /\ made[j] + Cardinality(Loading(j)) <= unresolved[j] + Cardinality(Threads)
    BY DEF CountInv
  <2>2. CASE j = k
    <3>1. unresolved'[k] = unresolved[k] + 1 /\ unresolved[k] \in Nat /\ made[k] \in Nat
      BY <1>4, CountTypes
    <3>2. Cardinality(Resolving(k)) \in Nat /\ Cardinality(Loading(k)) \in Nat
      BY CountTypes
    <3> QED BY <2>1, <2>2, <3>1, <3>2, <1>7, ThreadSets
  <2>3. CASE j # k
    BY <2>1, <2>3, <1>4, <1>6
  <2> QED BY <2>2, <2>3
<1> QED BY <1>3, <1>5, <1>8 DEF CountInv, ModulesOf

(* Every step preserves the counts. *)
LEMMA CountStep == LaunchInv /\ CountInv /\ [Next]_vars => CountInv'
<1> SUFFICES ASSUME LaunchInv, CountInv, [Next]_vars PROVE CountInv'
  OBVIOUS
<1>1. CASE DriverStarts
  BY <1>1, CountFrame DEF DriverStarts, Loading, Resolving
<1>2. ASSUME NEW t \in Threads, LaunchEmpty(t) PROVE CountInv'
  BY <1>2, CountFrame DEF LaunchEmpty, Loading, Resolving
<1>3. ASSUME NEW t \in Threads, NEW k \in Kernels, Launch(t, k) PROVE CountInv'
  BY <1>3, CountLaunch
<1>4. ASSUME NEW t \in Threads, LoadRefused(t) PROVE CountInv'
  BY <1>4, CountLeaves DEF LoadRefused
<1>5. ASSUME NEW t \in Threads, LoadModule(t) PROVE CountInv'
  BY <1>5, CountLoads DEF LoadModule, LaunchInv, AtKernel
<1>6. ASSUME NEW t \in Threads, LoadModuleFails(t) PROVE CountInv'
  BY <1>6, CountLeaves DEF LoadModuleFails
<1>7. ASSUME NEW t \in Threads, GetFunction(t) PROVE CountInv'
  BY <1>7, CountResolves DEF GetFunction, LaunchInv, AtKernel
<1>8. ASSUME NEW t \in Threads, GetFunctionFails(t) PROVE CountInv'
  BY <1>8, CountUnresolved DEF GetFunctionFails, LaunchInv, AtKernel
<1>9. ASSUME NEW t \in Threads, LaunchKernel(t) PROVE CountInv'
  <2>1. PICK how \in {"ok", "threw"} : Ends(t, how)
    BY <1>9 DEF LaunchKernel
  <2>2. \A k \in Kernels : /\ Loading(k)' = Loading(k) \ {t}
                           /\ Resolving(k)' = Resolving(k) \ {t}
    BY <2>1, ThreadLeaves DEF Ends
  <2>3. \A k \in Kernels : t \notin Loading(k) /\ t \notin Resolving(k)
    BY <1>9 DEF LaunchKernel, Loading, Resolving
  <2>4. \A k \in Kernels : Loading(k)' = Loading(k) /\ Resolving(k)' = Resolving(k)
    BY <2>2, <2>3
  <2> QED BY <1>9, <2>4, CountFrame DEF LaunchKernel
<1>10. CASE UNCHANGED vars
  BY <1>10, CountFrame DEF vars, Loading, Resolving
<1> QED BY <1>1, <1>2, <1>3, <1>4, <1>5, <1>6, <1>7, <1>8, <1>9, <1>10 DEF Next

(* The modules of a kernel are numbered from 1 to made[k]. *)
LEMMA ModulesCounted ==
  ASSUME LaunchInv, CountInv, NEW k \in Kernels
  PROVE  Cardinality(ModulesOf(k)) <= made[k] /\ Cardinality(ModulesOf(k)) \in Nat
<1> DEFINE number == [m \in ModulesOf(k) |-> m[2]]
<1>1. \A m \in ModulesOf(k) : m = <<k, m[2]>> /\ m[2] \in 1..made[k]
  BY CountTypes DEF CountInv, ModulesOf, LaunchInv, TypeOK, Module
<1>2. number \in Injection(ModulesOf(k), 1..made[k])
  BY <1>1 DEF Injection, IsInjective
<1>3. IsFiniteSet(1..made[k]) /\ Cardinality(1..made[k]) = made[k]
  <2>1. made[k] \in Nat /\ made[k] \in Int /\ 1 \in Int
    BY CountTypes
  <2>2. /\ IsFiniteSet(1..made[k])
        /\ Cardinality(1..made[k]) = IF 1 > made[k] THEN 0 ELSE made[k] - 1 + 1
    BY <2>1, FS_Interval
  <2> QED BY <2>1, <2>2
<1> QED BY <1>2, <1>3, FS_Injection, FS_CardinalityType

(* Modules are never unloaded: a kernel has at most one for every failed   *)
(* lookup and one for every thread (cuda_driver.cc:119-131).               *)
THEOREM ExtraModulesBounded == Spec => []ExtraModulesAreBounded
<1>1. LaunchInv /\ CountInv => ExtraModulesAreBounded
  <2> SUFFICES ASSUME LaunchInv, CountInv, NEW k \in Kernels
               PROVE  Cardinality(ModulesOf(k)) <= unresolved[k] + Cardinality(Threads)
    BY DEF ExtraModulesAreBounded
  <2>1. made[k] + Cardinality(Loading(k)) <= unresolved[k] + Cardinality(Threads)
    BY DEF CountInv
  <2>2. Cardinality(Loading(k)) \in Nat /\ made[k] \in Nat /\ unresolved[k] \in Nat
    BY CountTypes
  <2> QED BY <2>1, <2>2, ModulesCounted, ThreadSets
<1> QED BY <1>1, LaunchInvInit, LaunchInvStep, CountInit, CountStep, PTL DEF Spec
=============================================================================
