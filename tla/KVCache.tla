------------------------------ MODULE KVCache -------------------------------
(***************************************************************************)
(* dli::KVCache (src/kv_cache.cc): named keys and values that grow along   *)
(* the sequence dimension, on device memory that may run out and with      *)
(* copies that may fail.                                                   *)
(*                                                                         *)
(* A tensor is a shape and a reference to a storage, as Tensor shares its  *)
(* storage between copies (include/dli/tensor.h).  A storage holds one     *)
(* datum per float, in row-major [batch, heads, sequence, head_dim] order. *)
(* The caller owns the tensors it passes: `held` stands for the two input  *)
(* tensors of an attention node, which the engine keeps in its tensor map  *)
(* and may hand back to Python, so the caller may also write into them.    *)
(*                                                                         *)
(* append() is one action per call that can throw; no other call starts    *)
(* while it runs, as KVCache has no lock and expects one user at a time.   *)
(***************************************************************************)
EXTENDS Naturals, Sequences

CONSTANTS
  Names,      \* entry names
  Storages,   \* device allocations that can exist at once
  Inputs,     \* kinds and shapes of the tensors the caller passes
  MaxTokens,  \* bound: tokens the caller produces in a behaviour
  MaxLength,  \* bound: sequence length of an entry
  None        \* no entry, no tensor

Shape == [b: Nat, h: Nat, s: Nat, d: Nat]
InputShape == [b: Nat \ {0}, h: Nat \ {0}, s: Nat \ {0}, d: Nat \ {0}]

(* What append() tests of a tensor; "float32_cuda" is the one it accepts. *)
Kind == {"float32_cuda", "cpu", "int64", "rank3"}

Tensor == [kind: Kind, shape: Shape, store: Storages]
Pair == [key: Tensor, value: Tensor]

(* The role of a datum, and the token, (batch, head) lane and dimension it *)
(* belongs to.  Junk is what an allocation holds before it is written.     *)
Datum == {"K", "V", "caller", "junk"} \X Nat \X Nat \X Nat
Junk == <<"junk", 0, 0, 0>>

(* A pair by its contents. *)
Flat == [key: Seq(Datum), value: Seq(Datum)]

ASSUME KVCacheAssumption ==
  /\ Inputs \subseteq [kind: Kind, key: InputShape, value: InputShape]
  /\ MaxTokens \in Nat
  /\ MaxLength \in Nat
  /\ None \notin Tensor
  /\ None \notin Pair
  /\ None \notin Flat

VARIABLES
  entries,  \* KVCache::entries_: per name a Pair, or None
  mem,      \* contents of the storages that are allocated
  held,     \* the tensors the caller passes, or None
  pc,       \* where append() is
  target,   \* its name argument
  grown,    \* new_key and new_value, None until allocated
  outcome,  \* how the last append() ended
  tokens,   \* tokens the caller has produced
  history   \* per name: the tokens appended since the entry was created

vars == <<entries, mem, held, pc, target, grown, outcome, tokens, history>>

-----------------------------------------------------------------------------
(* Tensors *)

Lanes(sh) == sh.b * sh.h
Numel(sh) == Lanes(sh) * sh.s * sh.d

IsCuda(t) == t.kind # "cpu"
IsFloat32(t) == t.kind # "int64"
IsRank4(t) == t.kind # "rank3"

(* The row-major contents of a tensor of one role: tokens tok, tok+1, ... *)
ContentsOf(role, sh, tok) ==
  [i \in 1..Numel(sh) |->
     << role,
        tok + (((i - 1) \div sh.d) % sh.s),
        (i - 1) \div (sh.d * sh.s),
        (i - 1) % sh.d >>]

StoresOf(pairs) == {p.key.store : p \in pairs} \union {p.value.store : p \in pairs}
Present(es) == {es[n] : n \in Names} \ {None}
HeldPairs == {held} \ {None}

Pick(free) == CHOOSE s \in free : TRUE

(* The last reference to a storage frees it: what is left is the storages  *)
(* of these pairs.                                                         *)
Keep(pairs) == [s \in StoresOf(pairs) |-> mem[s]]

-----------------------------------------------------------------------------
(* The caller *)

(* The graph computes new key and value tensors; the old ones are dropped. *)
Produce(in) ==
  LET kept == Keep(Present(entries))
      free == Storages \ DOMAIN kept
      k == Pick(free)
      v == Pick(free \ {k})
  IN /\ pc = "idle"
     /\ tokens + in.key.s <= MaxTokens
     /\ free # {} /\ free \ {k} # {}
     /\ held' = [key |-> [kind |-> in.kind, shape |-> in.key, store |-> k],
                 value |-> [kind |-> "float32_cuda", shape |-> in.value, store |-> v]]
     /\ mem' = [s \in DOMAIN kept \union {k, v} |->
                  CASE s = k -> ContentsOf("K", in.key, tokens)
                    [] s = v -> ContentsOf("V", in.value, tokens)
                    [] OTHER -> kept[s]]
     /\ tokens' = tokens + in.key.s
     /\ UNCHANGED <<entries, pc, target, grown, outcome, history>>

(* An in-place operator or the Python caller overwrites one of its tensors. *)
CallerWrite ==
  /\ pc = "idle"
  /\ held # None
  /\ \E s \in {held.key.store, held.value.store} :
       mem' = [mem EXCEPT ![s] = [i \in DOMAIN mem[s] |-> <<"caller", 0, 0, 0>>]]
  /\ UNCHANGED <<entries, held, pc, target, grown, outcome, tokens, history>>

-----------------------------------------------------------------------------
(* append(name, key, value) *)

(* The tokens of the chunk the caller holds, the last ones produced. *)
HeldTokens ==
  [j \in 1..held.key.shape.s |-> tokens - held.key.shape.s + j - 1]

(* Mutant: the key/value shape comparison is dropped. *)
AcceptsAnyValueShape(k, v) ==
  IsCuda(k) /\ IsCuda(v) /\ IsFloat32(k) /\ IsFloat32(v) /\ IsRank4(k) /\ IsRank4(v)

Accepts(k, v) ==
  /\ IsCuda(k) /\ IsCuda(v)
  /\ IsFloat32(k) /\ IsFloat32(v)
  /\ IsRank4(k) /\ IsRank4(v)
  /\ k.shape = v.shape

(* Mutant: the heads (dim 1) are not compared. *)
SameLayoutButHeads(old, new) == old.b = new.b /\ old.d = new.d

SameLayout(old, new) == old.b = new.b /\ old.h = new.h /\ old.d = new.d

(* One of the std::invalid_argument of append(): nothing has been done. *)
AppendRejects(n) ==
  /\ pc = "idle"
  /\ held # None
  /\ \/ ~Accepts(held.key, held.value)
     \/ entries[n] # None /\ ~SameLayout(entries[n].key.shape, held.key.shape)
  /\ outcome' = "threw"
  /\ UNCHANGED <<entries, mem, held, pc, target, grown, tokens, history>>

(* No entry of that name: the map takes the caller's tensors themselves. *)
AppendCreates(n) ==
  /\ pc = "idle"
  /\ held # None
  /\ Accepts(held.key, held.value)
  /\ entries[n] = None
  /\ entries' = [entries EXCEPT ![n] = held]
  /\ history' = [history EXCEPT ![n] = HeldTokens]
  /\ outcome' = "ok"
  /\ UNCHANGED <<mem, held, pc, target, grown, tokens>>

AppendGrows(n) ==
  /\ pc = "idle"
  /\ held # None
  /\ Accepts(held.key, held.value)
  /\ entries[n] # None
  /\ SameLayout(entries[n].key.shape, held.key.shape)
  /\ entries[n].key.shape.s + held.key.shape.s <= MaxLength
  /\ pc' = "allocKey"
  /\ target' = n
  /\ UNCHANGED <<entries, mem, held, grown, outcome, tokens, history>>

(* Mutant: the new length is subtracted. *)
GrownShapeShrinks == [entries[target].key.shape EXCEPT !.s = @ - held.key.shape.s]

GrownShape == [entries[target].key.shape EXCEPT !.s = @ + held.key.shape.s]

AllocPhases == {"allocKey", "allocValue"}
CopyPhases == {"copyOldKey", "copyNewKey", "copyOldValue", "copyNewValue"}
Phases == AllocPhases \union CopyPhases
PCs == {"idle", "assign"} \union Phases

NextPhase(p) ==
  CASE p = "allocKey" -> "allocValue"
    [] p = "allocValue" -> "copyOldKey"
    [] p = "copyOldKey" -> "copyNewKey"
    [] p = "copyNewKey" -> "copyOldValue"
    [] p = "copyOldValue" -> "copyNewValue"
    [] p = "copyNewValue" -> "assign"

(* Tensor::cuda for new_key, then for new_value: uninitialized memory. *)
Alloc ==
  LET free == Storages \ DOMAIN mem
      new == [kind |-> "float32_cuda", shape |-> GrownShape, store |-> Pick(free)]
  IN /\ pc \in AllocPhases
     /\ free # {}
     /\ grown' = IF pc = "allocKey" THEN [grown EXCEPT !.key = new]
                                    ELSE [grown EXCEPT !.value = new]
     /\ mem' = [s \in DOMAIN mem \union {new.store} |->
                  IF s = new.store THEN [i \in 1..Numel(GrownShape) |-> Junk] ELSE mem[s]]
     /\ pc' = NextPhase(pc)
     /\ UNCHANGED <<entries, held, target, outcome, tokens, history>>

(* The four cudaMemcpyBytes calls: source, destination and offset. *)
CopySource(p) ==
  CASE p = "copyOldKey" -> entries[target].key
    [] p = "copyNewKey" -> held.key
    [] p = "copyOldValue" -> entries[target].value
    [] p = "copyNewValue" -> held.value

CopyTarget(p) == IF p \in {"copyOldKey", "copyNewKey"} THEN grown.key ELSE grown.value

(* Mutant: the new values are copied over the old ones. *)
CopyOffsetKeyOnly(p) ==
  IF p = "copyNewKey" THEN Numel(entries[target].key.shape) ELSE 0

(* Mutant: the old data is copied after the new data. *)
CopyOffsetPrepends(p) ==
  IF p \in {"copyOldKey", "copyOldValue"} THEN Numel(held.key.shape) ELSE 0

CopyOffset(p) ==
  CASE p = "copyNewKey" -> Numel(entries[target].key.shape)
    [] p = "copyNewValue" -> Numel(entries[target].value.shape)
    [] OTHER -> 0

(* Device-to-device copy of src to dst from offset at on. *)
Blit(dst, at, src) ==
  [i \in 1..Len(dst) |-> IF at < i /\ i <= at + Len(src) THEN src[i - at] ELSE dst[i]]

Copy ==
  /\ pc \in CopyPhases
  /\ LET dst == CopyTarget(pc).store
     IN mem' = [mem EXCEPT ![dst] = Blit(@, CopyOffset(pc), mem[CopySource(pc).store])]
  /\ pc' = NextPhase(pc)
  /\ UNCHANGED <<entries, held, target, grown, outcome, tokens, history>>

(* Mutant: the new key is in the map before the values are copied. *)
PhaseThrowsKeepsKey ==
  /\ pc \in Phases
  /\ pc' = "idle"
  /\ target' = None
  /\ grown' = [key |-> None, value |-> None]
  /\ outcome' = "threw"
  /\ entries' = IF pc \in {"copyOldValue", "copyNewValue"}
                THEN [entries EXCEPT ![target].key = grown.key] ELSE entries
  /\ mem' = Keep(Present(entries') \union HeldPairs)
  /\ UNCHANGED <<held, tokens, history>>

(* An allocation runs out of memory or a copy fails: the new tensors are   *)
(* released as the exception unwinds append().                             *)
PhaseThrows ==
  /\ pc \in Phases
  /\ pc' = "idle"
  /\ target' = None
  /\ grown' = [key |-> None, value |-> None]
  /\ outcome' = "threw"
  /\ mem' = Keep(Present(entries) \union HeldPairs)
  /\ UNCHANGED <<entries, held, tokens, history>>

(* it->second = KVCacheEntry{new_key, new_value}: releases the old ones. *)
Assign ==
  /\ pc = "assign"
  /\ entries' = [entries EXCEPT ![target] = grown]
  /\ history' = [history EXCEPT ![target] = @ \o HeldTokens]
  /\ mem' = Keep(Present(entries') \union HeldPairs)
  /\ pc' = "idle"
  /\ target' = None
  /\ grown' = [key |-> None, value |-> None]
  /\ outcome' = "ok"
  /\ UNCHANGED <<held, tokens>>

(* clear() *)
Clear ==
  /\ pc = "idle"
  /\ entries' = [n \in Names |-> None]
  /\ history' = [n \in Names |-> << >>]
  /\ mem' = Keep(HeldPairs)
  /\ UNCHANGED <<held, pc, target, grown, outcome, tokens>>

-----------------------------------------------------------------------------
Init ==
  /\ entries = [n \in Names |-> None]
  /\ mem = << >>
  /\ held = None
  /\ pc = "idle"
  /\ target = None
  /\ grown = [key |-> None, value |-> None]
  /\ outcome = "none"
  /\ tokens = 0
  /\ history = [n \in Names |-> << >>]

Next ==
  \/ \E in \in Inputs : Produce(in)
  \/ CallerWrite
  \/ \E n \in Names : AppendRejects(n)
  \/ \E n \in Names : AppendCreates(n)
  \/ \E n \in Names : AppendGrows(n)
  \/ Alloc
  \/ Copy
  \/ PhaseThrows
  \/ Assign
  \/ Clear

Spec == Init /\ [][Next]_vars

-----------------------------------------------------------------------------
(* Properties *)

TypeOK ==
  /\ entries \in [Names -> Pair \union {None}]
  /\ DOMAIN mem \subseteq Storages
  /\ \A s \in DOMAIN mem : mem[s] \in Seq(Datum)
  /\ StoresOf(Present(entries) \union HeldPairs) \subseteq DOMAIN mem
  /\ held \in Pair \union {None}
  /\ pc \in PCs
  /\ target \in Names \union {None}
  /\ grown \in [key: Tensor \union {None}, value: Tensor \union {None}]
  /\ outcome \in {"none", "ok", "threw"}
  /\ tokens \in Nat
  /\ history \in [Names -> Seq(Nat)]

(* A cached key and its cached value always have the same shape: append()  *)
(* compares the new value with the new key only, never with the old value. *)
KeyValueAlike ==
  \A n \in Names : entries[n] # None => entries[n].key.shape = entries[n].value.shape

(* No memcpy of append() reads or writes past the end of an allocation.    *)
(* The sizes come from different tensors, and only the shape checks made   *)
(* in this call and in earlier ones relate them.                           *)
CopiesInBounds ==
  pc \in CopyPhases =>
    LET src == CopySource(pc)
        dst == CopyTarget(pc)
    IN /\ Numel(src.shape) <= Len(mem[src.store])
       /\ CopyOffset(pc) + Numel(src.shape) <= Len(mem[dst.store])

Contents(t) == mem[t.store]

(* The i-th cached key and the i-th cached value belong to the same token, *)
(* lane and dimension (unless the caller has overwritten one of them).     *)
KeysMatchValues ==
  \A n \in Names : entries[n] # None =>
    \A i \in 1..Numel(entries[n].key.shape) :
      LET k == Contents(entries[n].key)[i]
          v == Contents(entries[n].value)[i]
      IN k[1] = "K" /\ v[1] = "V" => Tail(k) = Tail(v)

(* Where the attention kernel looks for token position j of a lane.        *)
At(t, lane, j, dim) == Contents(t)[(lane * t.shape.s + j) * t.shape.d + dim + 1]

(* Read as a [batch, heads, sequence, head_dim] tensor, t holds the tokens *)
(* toks in order, in every lane.                                           *)
Holds(t, toks) ==
  /\ t.shape.s = Len(toks)
  /\ \A lane \in 0..(Lanes(t.shape) - 1), j \in 0..(t.shape.s - 1), dim \in 0..(t.shape.d - 1) :
       LET x == At(t, lane, j, dim)
       IN x[1] # "caller" => Tail(x) = <<toks[j + 1], lane, dim>>

InSequenceOrder(n) ==
  Holds(entries[n].key, history[n]) /\ Holds(entries[n].value, history[n])

(* With one batch row and one head, an entry holds the tokens in the order *)
(* they were appended, whichever appends failed in between.                *)
SingleLaneInOrder ==
  \A n \in Names : entries[n] # None /\ Lanes(entries[n].key.shape) = 1 => InSequenceOrder(n)

(* The same for every shape, as the comment of kv_cache.cc:30-31 says: an  *)
(* entry grows along the sequence axis (dim 2).                            *)
GrowsAlongSequence ==
  \A n \in Names : entries[n] # None => InSequenceOrder(n)

-----------------------------------------------------------------------------
(* The abstract cache: an append is one step. *)

FlatPair(p) ==
  IF p = None THEN None ELSE [key |-> Contents(p.key), value |-> Contents(p.value)]

Log == INSTANCE ChunkLog WITH
  log <- [n \in Names |-> FlatPair(entries[n])],
  shared <- {n \in Names : entries[n] # None /\ entries[n] = held},
  chunk <- FlatPair(held)

(* Appends are atomic and ordered: seen from outside, every append() adds  *)
(* exactly the caller's chunk at the end of the named entry's key and      *)
(* value, or throws and leaves every entry as it was.                      *)
ImplementsChunkLog == Log!Spec
=============================================================================
