-------------------------- MODULE OperatorRegistry --------------------------
(***************************************************************************)
(* dli::OperatorRegistry (src/operator_registry.cc): the registries of the *)
(* engines of one process load plugin libraries and keep factories whose   *)
(* code lives in them.                                                     *)
(*                                                                         *)
(* The dynamic linker counts the dlopen handles of a library in the whole  *)
(* process and unmaps it when the last one is closed.  A library that is   *)
(* mapped again is a new mapping: factories of the old one do not come     *)
(* back to life.  An image is a library and the number of its mapping.     *)
(*                                                                         *)
(* loadLibrary() is a step per call it makes; every registerFactory() of   *)
(* the plugin's entry point is a step, so calls on different registries    *)
(* interleave.  A registry is used by one thread at a time.                *)
(***************************************************************************)
EXTENDS Integers, Sequences, FiniteSets

CONSTANTS
  Registries,   \* the engines' registries
  Libraries,    \* plugin files
  Plugins,      \* those that export dli_register_operators
  Types,        \* operator type names
  Host,         \* origin of the factories the program registers itself
  None,         \* no factory, no load in progress
  MaxOpens      \* bound: successful dlopen calls

ASSUME RegistryAssumption ==
  /\ Plugins \subseteq Libraries
  /\ Host \notin Libraries
  /\ None \notin Libraries \X Nat
  /\ MaxOpens \in Nat

VARIABLES
  factories,  \* per registry and type: the image its factory lives in, Host or None
  handles,    \* per registry: library_handles_, a sequence of images
  loading,    \* per registry: the image loadLibrary() is at, or None
  refs,       \* per library: dlopen handles that are not closed
  mapping,    \* per library: the number of its current or last mapping
  lost,       \* images of handles nobody can close any more
  refused,    \* images whose entry point has returned false
  opens       \* successful dlopen calls

vars == <<factories, handles, loading, refs, mapping, lost, refused, opens>>

Image == Libraries \X (0..MaxOpens)

IsMapped(image) == refs[image[1]] > 0 /\ mapping[image[1]] = image[2]

-----------------------------------------------------------------------------
(* The dynamic linker *)

Opened(lib) ==
  /\ refs' = [refs EXCEPT ![lib] = @ + 1]
  /\ mapping' = [mapping EXCEPT ![lib] = IF refs[lib] = 0 THEN @ + 1 ELSE @]

(* Mutant: the handle is closed a second time. *)
ClosedTwice(lib) == refs' = [refs EXCEPT ![lib] = @ - 2] /\ UNCHANGED mapping

Closed(lib) == refs' = [refs EXCEPT ![lib] = @ - 1] /\ UNCHANGED mapping

-----------------------------------------------------------------------------
(* loadLibrary(path) *)

(* dlopen succeeds; when it fails, nothing but an exception happens. *)
Open(r, lib) ==
  /\ loading[r] = None
  /\ opens < MaxOpens
  /\ Opened(lib)
  /\ loading' = [loading EXCEPT ![r] = <<lib, mapping'[lib]>>]
  /\ opens' = opens + 1
  /\ UNCHANGED <<factories, handles, lost, refused>>

(* Mutant: the handle is not closed when the symbol is missing. *)
MissingSymbolLeaks(r) ==
  /\ loading[r] # None
  /\ loading[r][1] \notin Plugins
  /\ loading' = [loading EXCEPT ![r] = None]
  /\ UNCHANGED <<factories, handles, refs, mapping, lost, refused, opens>>

(* dlsym finds no dli_register_operators. *)
MissingSymbol(r) ==
  /\ loading[r] # None
  /\ loading[r][1] \notin Plugins
  /\ Closed(loading[r][1])
  /\ loading' = [loading EXCEPT ![r] = None]
  /\ UNCHANGED <<factories, handles, lost, refused, opens>>

InEntryPoint(r) == loading[r] # None /\ loading[r][1] \in Plugins

(* The entry point calls registerFactory(). *)
PluginRegisters(r, type) ==
  /\ InEntryPoint(r)
  /\ factories' = [factories EXCEPT ![r][type] = loading[r]]
  /\ UNCHANGED <<handles, loading, refs, mapping, lost, refused, opens>>

(* Mutant: the handle is remembered before the result is looked at. *)
EntryPointRefusesLate(r) ==
  /\ InEntryPoint(r)
  /\ Closed(loading[r][1])
  /\ handles' = [handles EXCEPT ![r] = Append(@, loading[r])]
  /\ loading' = [loading EXCEPT ![r] = None]
  /\ refused' = refused \union {loading[r]}
  /\ UNCHANGED <<factories, lost, opens>>

(* It returns false: the library is closed, what it registered stays. *)
EntryPointRefuses(r) ==
  /\ InEntryPoint(r)
  /\ Closed(loading[r][1])
  /\ loading' = [loading EXCEPT ![r] = None]
  /\ refused' = refused \union {loading[r]}
  /\ UNCHANGED <<factories, handles, lost, opens>>

(* Mutant: the handle is closed as the exception passes. *)
EntryPointThrowsClosed(r) ==
  /\ InEntryPoint(r)
  /\ Closed(loading[r][1])
  /\ loading' = [loading EXCEPT ![r] = None]
  /\ UNCHANGED <<factories, handles, lost, refused, opens>>

(* It throws, as registerFactory() does when memory runs out: the handle   *)
(* is a local of loadLibrary() and is lost.                                *)
EntryPointThrows(r) ==
  /\ InEntryPoint(r)
  /\ loading' = [loading EXCEPT ![r] = None]
  /\ lost' = Append(lost, loading[r])
  /\ UNCHANGED <<factories, handles, refs, mapping, refused, opens>>

EntryPointAccepts(r) ==
  /\ InEntryPoint(r)
  /\ handles' = [handles EXCEPT ![r] = Append(@, loading[r])]
  /\ loading' = [loading EXCEPT ![r] = None]
  /\ UNCHANGED <<factories, refs, mapping, lost, refused, opens>>

-----------------------------------------------------------------------------
(* The rest of the interface *)

(* registerFactory() by the program itself, as Engine() does for "aten". *)
HostRegisters(r, type) ==
  /\ loading[r] = None
  /\ factories' = [factories EXCEPT ![r][type] = Host]
  /\ UNCHANGED <<handles, loading, refs, mapping, lost, refused, opens>>

(* The engine is destroyed and another one made: library_handles_ are raw  *)
(* pointers, so nothing is closed.                                         *)
Renew(r) ==
  /\ loading[r] = None
  /\ factories' = [factories EXCEPT ![r] = [t \in Types |-> None]]
  /\ handles' = [handles EXCEPT ![r] = << >>]
  /\ lost' = lost \o handles[r]
  /\ UNCHANGED <<loading, refs, mapping, refused, opens>>

-----------------------------------------------------------------------------
Init ==
  /\ factories = [r \in Registries |-> [t \in Types |-> None]]
  /\ handles = [r \in Registries |-> << >>]
  /\ loading = [r \in Registries |-> None]
  /\ refs = [l \in Libraries |-> 0]
  /\ mapping = [l \in Libraries |-> 0]
  /\ lost = << >>
  /\ refused = {}
  /\ opens = 0

Next ==
  \E r \in Registries :
    \/ \E lib \in Libraries : Open(r, lib)
    \/ MissingSymbol(r)
    \/ \E t \in Types : PluginRegisters(r, t)
    \/ EntryPointRefuses(r)
    \/ EntryPointThrows(r)
    \/ EntryPointAccepts(r)
    \/ \E t \in Types : HostRegisters(r, t)
    \/ Renew(r)

Spec == Init /\ [][Next]_vars

-----------------------------------------------------------------------------
(* Properties *)

TypeOK ==
  /\ factories \in [Registries -> [Types -> Image \union {Host, None}]]
  /\ handles \in [Registries -> Seq(Image)]
  /\ loading \in [Registries -> Image \union {None}]
  /\ refs \in [Libraries -> 0..MaxOpens]
  /\ mapping \in [Libraries -> 0..MaxOpens]
  /\ lost \in Seq(Image)
  /\ refused \subseteq Image
  /\ opens \in 0..MaxOpens

Held(lib, seq) == {i \in DOMAIN seq : seq[i][1] = lib}

InRegistries(lib) ==
  UNION {{<<r, i>> : i \in Held(lib, handles[r])} : r \in Registries}

InLoads(lib) == {r \in Registries : loading[r] # None /\ loading[r][1] = lib}

(* Every open handle of a library is in a registry, in a load in progress, *)
(* or lost by a load that threw or a registry that is gone.                *)
HandlesAccountedFor ==
  \A lib \in Libraries :
    refs[lib] = Cardinality(InRegistries(lib)) + Cardinality(InLoads(lib))
                + Cardinality(Held(lib, lost))

(* operator.h:81: a library that was loaded stays mapped while its         *)
(* registry lives, whatever loads of other registries, or of the same      *)
(* file, do meanwhile.                                                     *)
LoadedStaysMapped ==
  \A r \in Registries : \A i \in DOMAIN handles[r] : IsMapped(handles[r][i])

(* A factory can outlive its code only after its plugin's entry point has  *)
(* refused, and never when it threw or lacked the symbol.                  *)
OnlyRefusalsDangle ==
  \A r \in Registries, t \in Types :
    factories[r][t] \notin {Host, None} =>
      IsMapped(factories[r][t]) \/ factories[r][t] \in refused

(* operator_registry.cc:40-41: the library is kept open because the        *)
(* registered factories live in its code; so no registered factory is in   *)
(* a library that is not mapped.                                           *)
FactoriesAreMapped ==
  \A r \in Registries, t \in Types :
    factories[r][t] \notin {Host, None} => IsMapped(factories[r][t])
=============================================================================
