------------------------------ MODULE ChunkLog ------------------------------
(***************************************************************************)
(* What dli::KVCache promises to its callers, without the device memory:   *)
(* every name has a log of keys and a log of values, an append adds the    *)
(* caller's chunk at the end of both or changes nothing, and clear()       *)
(* forgets every name.                                                     *)
(*                                                                         *)
(* The chunk that creates an entry is not copied: until the entry grows    *)
(* or the caller lets go of it, the caller's writes show in the log.       *)
(***************************************************************************)
EXTENDS Sequences

CONSTANTS
  Names,  \* cache entry names, one per attention layer
  None    \* no entry, no chunk

VARIABLES
  log,      \* per name: [key, value], two sequences of elements, or None
  shared,   \* names whose log still is the caller's chunk
  chunk,    \* the [key, value] the caller holds, or None
  outcome   \* how the last append ended

vars == <<log, shared, chunk, outcome>>

Init ==
  /\ log = [n \in Names |-> None]
  /\ shared = {}
  /\ chunk = None
  /\ outcome = "none"

(* The caller lets go of its chunk and takes another one, chunk'. *)
Offer ==
  /\ shared' = {}
  /\ UNCHANGED <<log, outcome>>

Append2(old, new) == [key |-> old.key \o new.key, value |-> old.value \o new.value]

Create(n) ==
  /\ chunk # None
  /\ log[n] = None
  /\ log' = [log EXCEPT ![n] = chunk]
  /\ shared' = shared \union {n}
  /\ outcome' = "ok"
  /\ UNCHANGED chunk

Extend(n) ==
  /\ chunk # None
  /\ log[n] # None
  /\ log' = [log EXCEPT ![n] = Append2(log[n], chunk)]
  /\ shared' = shared \ {n}
  /\ outcome' = "ok"
  /\ UNCHANGED chunk

Throw ==
  /\ outcome' = "threw"
  /\ UNCHANGED <<log, shared, chunk>>

(* The caller writes into its chunk, chunk' being the result. *)
Overwrite ==
  /\ chunk # None
  /\ DOMAIN chunk'.key = DOMAIN chunk.key
  /\ DOMAIN chunk'.value = DOMAIN chunk.value
  /\ log' = [n \in Names |-> IF n \in shared THEN chunk' ELSE log[n]]
  /\ UNCHANGED <<shared, outcome>>

Clear ==
  /\ log' = [n \in Names |-> None]
  /\ shared' = {}
  /\ UNCHANGED <<chunk, outcome>>

Next ==
  \/ Offer
  \/ \E n \in Names : Create(n) \/ Extend(n)
  \/ Throw
  \/ Overwrite
  \/ Clear

Spec == Init /\ [][Next]_vars
=============================================================================
