--------------------------- MODULE KVCache_proofs ---------------------------
(***************************************************************************)
(* Proofs about KVCache for every set of names, storages and input shapes: *)
(* type correctness, KeyValueAlike and CopiesInBounds; then about what the *)
(* cached tensors hold: KVCache implements ChunkLog, keys match values,    *)
(* and entries of one lane are in sequence order.                          *)
(***************************************************************************)
EXTENDS KVCache, SequenceTheorems, TLAPS

-----------------------------------------------------------------------------
(* The inductive invariant *)

(* A tensor's storage is allocated and as long as its shape says. *)
Fits(t) == t.store \in DOMAIN mem /\ Len(mem[t.store]) = Numel(t.shape)

PairFits(p) == p # None => Fits(p.key) /\ Fits(p.value)

MemFits ==
  /\ \A n \in Names : PairFits(entries[n])
  /\ PairFits(held)
  /\ grown.key # None => Fits(grown.key)
  /\ grown.value # None => Fits(grown.value)

(* While append() runs, its arguments have passed the shape checks, and    *)
(* each new tensor, once allocated, has the length of old plus new.        *)
GrowthOK ==
  IF pc = "idle" THEN grown.key = None /\ grown.value = None ELSE
    /\ target \in Names
    /\ entries[target] # None
    /\ held # None
    /\ held.key.shape = held.value.shape
    /\ SameLayout(entries[target].key.shape, held.key.shape)
    /\ pc # "allocKey" => grown.key # None /\ grown.key.shape = GrownShape
    /\ pc \notin AllocPhases => grown.value # None /\ grown.value.shape = GrownShape

(* The chunk the caller holds was produced, token by token. *)
TokensOK == held # None => held.key.shape.s <= tokens

IInv == TypeOK /\ KeyValueAlike /\ MemFits /\ GrowthOK /\ TokensOK

-----------------------------------------------------------------------------
(* Lemmas about the operators of the model *)

(* A function on 1..n is a sequence of length n. *)
LEMMA SequenceOfLength ==
  ASSUME NEW S, NEW n \in Nat, NEW f \in [1..n -> S]
  PROVE  f \in Seq(S) /\ Len(f) = n
  OBVIOUS

(* The allocator returns a storage that is free. *)
LEMMA PickIsFree ==
  ASSUME NEW S, S # {}
  PROVE  Pick(S) \in S
  BY DEF Pick

(* The number of elements is a natural number. *)
LEMMA NumelType ==
  ASSUME NEW x \in Shape
  PROVE  Numel(x) \in Nat
<1>1. \A a, b \in Nat : a * b \in Nat
  OBVIOUS
<1>2. x.b * x.h \in Nat
  BY <1>1 DEF Shape
<1>3. x.b * x.h * x.s \in Nat
  BY <1>1, <1>2 DEF Shape
<1>. QED
  BY <1>1, <1>3 DEF Shape, Numel, Lanes

(* Tensors that differ in their sequence length only: their elements add   *)
(* up to those of the tensor with both lengths together.                   *)
LEMMA NumelAdds ==
  ASSUME NEW x \in Shape, NEW y \in Shape, SameLayout(x, y)
  PROVE  /\ [x EXCEPT !.s = @ + y.s] \in Shape
         /\ Numel([x EXCEPT !.s = @ + y.s]) = Numel(x) + Numel(y)
<1>1. \A a, b, c, d \in Nat : a * (b + c) * d = a * b * d + a * c * d
  OBVIOUS
<1>2. x.b * x.h \in Nat
  BY DEF Shape
<1>3. [x EXCEPT !.s = @ + y.s] = [b |-> x.b, h |-> x.h, s |-> x.s + y.s, d |-> x.d]
  BY DEF Shape
<1>. QED
  BY <1>1, <1>2, <1>3 DEF Shape, Numel, Lanes, SameLayout

(* What the caller's tensors hold: one datum per element. *)
LEMMA ContentsType ==
  ASSUME NEW role \in {"K", "V"}, NEW sh \in InputShape, NEW tok \in Nat
  PROVE  ContentsOf(role, sh, tok) \in Seq(Datum) /\ Len(ContentsOf(role, sh, tok)) = Numel(sh)
<1>1. Numel(sh) \in Nat
  BY NumelType DEF InputShape, Shape
<1>2. ASSUME NEW i \in 1..Numel(sh)
      PROVE  << role, tok + (((i - 1) \div sh.d) % sh.s),
                (i - 1) \div (sh.d * sh.s), (i - 1) % sh.d >> \in Datum
  <2>1. \A a \in Nat, b \in Nat \ {0} : a \div b \in Nat /\ a % b \in Nat
    OBVIOUS
  <2>2. i - 1 \in Nat /\ sh.d \in Nat \ {0} /\ sh.s \in Nat \ {0}
    BY <1>1 DEF InputShape
  <2>3. sh.d * sh.s \in Nat \ {0}
    BY <2>2
  <2>4. (i - 1) \div sh.d \in Nat
    BY <2>1, <2>2
  <2>5. tok + (((i - 1) \div sh.d) % sh.s) \in Nat
    <3>1. ((i - 1) \div sh.d) % sh.s \in Nat
      BY <2>1, <2>2, <2>4
    <3>. QED
      BY <3>1
  <2>6. (i - 1) \div (sh.d * sh.s) \in Nat
    BY <2>1, <2>2, <2>3
  <2>7. (i - 1) % sh.d \in Nat
    BY <2>1, <2>2
  <2>. QED
    BY <2>5, <2>6, <2>7 DEF Datum
<1>3. ContentsOf(role, sh, tok) \in [1..Numel(sh) -> Datum]
  BY <1>2 DEF ContentsOf
<1>. QED
  BY <1>1, <1>3, SequenceOfLength

(* A copy keeps the length of its destination. *)
LEMMA BlitType ==
  ASSUME NEW dst \in Seq(Datum), NEW src \in Seq(Datum), NEW at \in Nat
  PROVE  Blit(dst, at, src) \in Seq(Datum) /\ Len(Blit(dst, at, src)) = Len(dst)
<1>1. \A i \in 1..Len(dst) : at < i /\ i <= at + Len(src) => src[i - at] \in Datum
  OBVIOUS
<1>2. Blit(dst, at, src) \in [1..Len(dst) -> Datum]
  BY <1>1 DEF Blit
<1>. QED
  BY <1>2, SequenceOfLength
-----------------------------------------------------------------------------
(* The invariant holds initially and is preserved by every action *)

(* What is kept when references go: the storages of the pairs that stay.   *)
LEMMA KeepProperties ==
  ASSUME NEW P
  PROVE  /\ DOMAIN Keep(P) = StoresOf(P)
         /\ \A s \in StoresOf(P) : Keep(P)[s] = mem[s]
         /\ \A p \in P : p.key.store \in StoresOf(P) /\ p.value.store \in StoresOf(P)
  BY DEF Keep, StoresOf

(* The storages of the entries and of the caller are those of a set of     *)
(* pairs, and every pair's storages are among them.                        *)
LEMMA StoresCovered ==
  ASSUME NEW es, NEW h, NEW D,
         \A n \in Names : es[n] # None => es[n].key.store \in D /\ es[n].value.store \in D,
         h # None => h.key.store \in D /\ h.value.store \in D
  PROVE  StoresOf(Present(es) \union ({h} \ {None})) \subseteq D
  BY DEF StoresOf, Present

(* No entry exists initially. *)
LEMMA InitInv == Init => IInv
<1>. SUFFICES ASSUME Init PROVE IInv
  OBVIOUS
<1>1. StoresOf(Present(entries) \union HeldPairs) = {}
  BY DEF Init, StoresOf, Present, HeldPairs
<1>2. DOMAIN mem = {}
  BY DEF Init
<1>3. history \in [Names -> Seq(Nat)]
  BY DEF Init
<1>4. TypeOK
  BY <1>1, <1>2, <1>3 DEF Init, TypeOK, PCs
<1>5. KeyValueAlike /\ MemFits /\ GrowthOK /\ TokensOK
  BY DEF Init, KeyValueAlike, MemFits, PairFits, GrowthOK, TokensOK
<1>. QED
  BY <1>4, <1>5 DEF IInv

(* New tensors of the caller: fresh storages, contents by their shapes. *)
LEMMA ProduceInv ==
  ASSUME IInv, NEW in \in Inputs, Produce(in)
  PROVE  IInv'
<1>. DEFINE kept == Keep(Present(entries))
            free == Storages \ DOMAIN kept
            k == Pick(free)
            v == Pick(free \ {k})
<1>1. /\ k \in Storages /\ v \in Storages /\ k # v
      /\ k \notin DOMAIN kept /\ v \notin DOMAIN kept
  BY PickIsFree DEF Produce
<1>2. in \in [kind: Kind, key: InputShape, value: InputShape] /\ InputShape \subseteq Shape
  BY KVCacheAssumption DEF InputShape, Shape
<1>3. /\ held'.key = [kind |-> in.kind, shape |-> in.key, store |-> k]
      /\ held'.value = [kind |-> "float32_cuda", shape |-> in.value, store |-> v]
      /\ held' \in Pair
  BY <1>1, <1>2 DEF Produce, Pair, Tensor, Kind
<1>4. /\ DOMAIN mem' = DOMAIN kept \union {k, v}
      /\ mem'[k] = ContentsOf("K", in.key, tokens)
      /\ mem'[v] = ContentsOf("V", in.value, tokens)
      /\ \A s \in DOMAIN kept : mem'[s] = kept[s]
  BY <1>1 DEF Produce
<1>5. \A n \in Names : entries[n] # None => entries[n] \in Present(entries)
  BY DEF Present
<1>6. \A s \in DOMAIN kept : s \in DOMAIN mem /\ kept[s] = mem[s]
  <2>1. StoresOf(Present(entries)) \subseteq DOMAIN mem
    BY DEF IInv, TypeOK, StoresOf
  <2>. QED
    BY <2>1, KeepProperties
<1>7. PairFits(held)'
  BY <1>2, <1>3, <1>4, ContentsType DEF PairFits, Fits, IInv, TypeOK
<1>8. \A n \in Names : PairFits(entries[n])'
  <2>. SUFFICES ASSUME NEW n \in Names, entries[n] # None
                PROVE  Fits(entries[n].key)' /\ Fits(entries[n].value)'
    BY DEF PairFits, Produce
  <2>1. entries[n].key.store \in DOMAIN kept /\ entries[n].value.store \in DOMAIN kept
    BY <1>5, KeepProperties
  <2>2. Fits(entries[n].key) /\ Fits(entries[n].value)
    BY DEF IInv, MemFits, PairFits
  <2>. QED
    BY <1>4, <1>6, <2>1, <2>2 DEF Fits, Produce
<1>9. pc = "idle" /\ grown' = grown /\ entries' = entries
  BY DEF Produce
<1>10. TypeOK'
  <2>1. \A s \in DOMAIN mem' : s \in Storages /\ mem'[s] \in Seq(Datum)
    BY <1>1, <1>2, <1>4, <1>6, ContentsType DEF IInv, TypeOK
  <2>2. StoresOf(Present(entries) \union HeldPairs)' \subseteq DOMAIN mem'
    BY <1>7, <1>8, StoresCovered DEF PairFits, Fits, HeldPairs
  <2>3. tokens' \in Nat
    BY <1>2 DEF Produce, IInv, TypeOK, InputShape
  <2>. QED
    BY <1>3, <2>1, <2>2, <2>3 DEF Produce, IInv, TypeOK
<1>11. TokensOK'
  BY <1>2, <1>3 DEF Produce, TokensOK, IInv, TypeOK, InputShape
<1>. QED
  BY <1>7, <1>8, <1>9, <1>10, <1>11 DEF IInv, MemFits, KeyValueAlike, GrowthOK, Produce

(* Writing into storages, without changing their lengths, keeps the fit. *)
LEMMA LengthsKept ==
  ASSUME IInv,
         DOMAIN mem' = DOMAIN mem,
         \A s \in DOMAIN mem : mem'[s] \in Seq(Datum) /\ Len(mem'[s]) = Len(mem[s]),
         UNCHANGED <<entries, held, grown, target>>,
         UNCHANGED <<outcome, tokens, history>>
  PROVE  /\ MemFits'
         /\ pc' \in PCs => TypeOK'
<1>1. MemFits'
  BY DEF IInv, MemFits, PairFits, Fits
<1>2. StoresOf(Present(entries) \union HeldPairs)' \subseteq DOMAIN mem'
  BY DEF IInv, TypeOK, HeldPairs, Present, StoresOf
<1>. QED
  BY <1>1, <1>2 DEF IInv, TypeOK

(* The caller's writes do not change the length of its tensors. *)
LEMMA CallerWriteInv ==
  ASSUME IInv, CallerWrite
  PROVE  IInv'
<1>1. PICK s \in {held.key.store, held.value.store} :
        mem' = [mem EXCEPT ![s] = [i \in DOMAIN mem[s] |-> <<"caller", 0, 0, 0>>]]
  BY DEF CallerWrite
<1>2. s \in DOMAIN mem /\ mem[s] \in Seq(Datum)
  BY DEF CallerWrite, IInv, MemFits, PairFits, Fits, TypeOK
<1>3. [i \in DOMAIN mem[s] |-> <<"caller", 0, 0, 0>>] \in [1..Len(mem[s]) -> Datum]
  BY <1>2 DEF Datum
<1>4. /\ mem'[s] \in Seq(Datum)
      /\ Len(mem'[s]) = Len(mem[s])
  <2>1. Len(mem[s]) \in Nat
    BY <1>2
  <2>. QED
    BY <1>1, <1>2, <1>3, <2>1, SequenceOfLength
<1>5. MemFits' /\ TypeOK'
  BY <1>1, <1>2, <1>4, LengthsKept DEF CallerWrite, IInv, TypeOK
<1>. QED
  BY <1>5 DEF IInv, CallerWrite, KeyValueAlike, GrowthOK, TokensOK

(* A rejected append changes the outcome only. *)
LEMMA AppendRejectsInv ==
  ASSUME IInv, NEW n \in Names, AppendRejects(n)
  PROVE  IInv'
  BY DEF IInv, AppendRejects, TypeOK, StoresOf, Present, HeldPairs,
         KeyValueAlike, MemFits, PairFits, Fits, GrowthOK, TokensOK

(* The tokens of the chunk are those produced last. *)
LEMMA HeldTokensType ==
  ASSUME TypeOK, held # None, tokens >= held.key.shape.s
  PROVE  HeldTokens \in Seq(Nat)
<1>1. held.key.shape.s \in Nat /\ tokens \in Nat
  BY DEF TypeOK, Pair, Tensor, Shape
<1>2. HeldTokens \in [1..held.key.shape.s -> Nat]
  BY <1>1 DEF HeldTokens
<1>. QED
  BY <1>1, <1>2, SequenceOfLength

(* The first append stores tensors that fit, of equal shapes. *)
LEMMA AppendCreatesInv ==
  ASSUME IInv, NEW n \in Names, AppendCreates(n)
  PROVE  IInv'
<1>1. /\ \A m \in Names : entries'[m] = IF m = n THEN held ELSE entries[m]
      /\ entries' \in [Names -> Pair \union {None}]
  BY DEF AppendCreates, IInv, TypeOK
<1>2. held.key.shape = held.value.shape /\ held # None /\ pc = "idle"
  BY DEF AppendCreates, Accepts
<1>3. MemFits'
  BY <1>1 DEF AppendCreates, IInv, MemFits, PairFits, Fits
<1>4. KeyValueAlike'
  BY <1>1, <1>2 DEF IInv, KeyValueAlike
<1>5. history' \in [Names -> Seq(Nat)]
  <2>1. HeldTokens \in Seq(Nat)
    BY <1>2, HeldTokensType DEF IInv, TypeOK, TokensOK, Pair, Tensor, Shape
  <2>. QED
    BY <2>1 DEF AppendCreates, IInv, TypeOK
<1>6. StoresOf(Present(entries) \union HeldPairs)' \subseteq DOMAIN mem'
  BY <1>3, StoresCovered DEF MemFits, PairFits, Fits, HeldPairs
<1>7. TypeOK'
  BY <1>1, <1>5, <1>6 DEF AppendCreates, IInv, TypeOK
<1>. QED
  BY <1>2, <1>3, <1>4, <1>7 DEF IInv, AppendCreates, GrowthOK, TokensOK

(* Growth starts with arguments that passed the checks. *)
LEMMA AppendGrowsInv ==
  ASSUME IInv, NEW n \in Names, AppendGrows(n)
  PROVE  IInv'
<1>1. TypeOK'
  BY DEF AppendGrows, IInv, TypeOK, StoresOf, Present, HeldPairs, PCs, Phases, AllocPhases
<1>2. MemFits' /\ KeyValueAlike'
  BY DEF AppendGrows, IInv, MemFits, PairFits, Fits, KeyValueAlike
<1>3. GrowthOK'
  BY DEF AppendGrows, IInv, GrowthOK, Accepts, AllocPhases
<1>. QED
  BY <1>1, <1>2, <1>3 DEF IInv, AppendGrows, TokensOK

(* While append() runs, the shape of the new tensors holds the old and the *)
(* new elements, of the values as well as of the keys.                     *)
LEMMA GrownShapeType ==
  ASSUME IInv, pc # "idle"
  PROVE  /\ GrownShape \in Shape
         /\ Numel(GrownShape) \in Nat
         /\ Numel(GrownShape) = Numel(entries[target].key.shape) + Numel(held.key.shape)
         /\ entries[target].value.shape = entries[target].key.shape
         /\ held.value.shape = held.key.shape
         /\ entries[target] \in Pair /\ held \in Pair
<1>1. entries[target] \in Pair /\ held \in Pair
  BY DEF IInv, GrowthOK, TypeOK
<1>2. entries[target].key.shape \in Shape /\ held.key.shape \in Shape
  BY <1>1 DEF Pair, Tensor
<1>3. /\ SameLayout(entries[target].key.shape, held.key.shape)
      /\ entries[target].value.shape = entries[target].key.shape
      /\ held.value.shape = held.key.shape
  BY DEF IInv, GrowthOK, KeyValueAlike
<1>. QED
  BY <1>1, <1>2, <1>3, NumelAdds, NumelType DEF GrownShape

(* Allocation: an unused storage of the grown shape's length. *)
LEMMA AllocInv ==
  ASSUME IInv, Alloc
  PROVE  IInv'
<1>. DEFINE free == Storages \ DOMAIN mem
            new == [kind |-> "float32_cuda", shape |-> GrownShape, store |-> Pick(free)]
            junk == [i \in 1..Numel(GrownShape) |-> Junk]
            FitsNext(t) == t.store \in DOMAIN mem' /\ Len(mem'[t.store]) = Numel(t.shape)
<1>1. pc \in AllocPhases /\ pc # "idle"
  BY DEF Alloc, AllocPhases
<1>2. new.store \in Storages /\ new.store \notin DOMAIN mem
  BY PickIsFree DEF Alloc
<1>3. new \in Tensor /\ new # None
  BY <1>1, <1>2, GrownShapeType, KVCacheAssumption DEF Tensor, Kind
<1>4. junk \in Seq(Datum) /\ Len(junk) = Numel(GrownShape)
  <2>1. junk \in [1..Numel(GrownShape) -> Datum]
    BY DEF Junk, Datum
  <2>. QED
    BY <1>1, <2>1, GrownShapeType, SequenceOfLength
<1>5. /\ DOMAIN mem' = DOMAIN mem \union {new.store}
      /\ mem'[new.store] = junk
      /\ \A s \in DOMAIN mem : mem'[s] = mem[s]
  BY <1>2 DEF Alloc
<1>6. FitsNext(new)
  BY <1>4, <1>5
<1>7. UNCHANGED <<entries, held, target, outcome, tokens, history>>
  BY DEF Alloc
<1>8. /\ \A n \in Names : PairFits(entries[n])'
      /\ PairFits(held)'
      /\ grown.key # None => FitsNext(grown.key)
      /\ grown.value # None => FitsNext(grown.value)
  BY <1>5, <1>7 DEF IInv, MemFits, PairFits, Fits
<1>9. /\ pc' = NextPhase(pc)
      /\ grown' = IF pc = "allocKey" THEN [grown EXCEPT !.key = new]
                                      ELSE [grown EXCEPT !.value = new]
  BY DEF Alloc
<1>10. /\ grown.key \in Tensor \union {None} /\ grown.value \in Tensor \union {None}
       /\ grown = [key |-> grown.key, value |-> grown.value]
  BY DEF IInv, TypeOK
<1>11. /\ pc = "allocKey" => /\ grown' = [key |-> new, value |-> grown.value]
                              /\ pc' = "allocValue"
       /\ pc = "allocValue" => /\ grown' = [key |-> grown.key, value |-> new]
                                /\ pc' = "copyOldKey"
  BY <1>9, <1>10 DEF NextPhase
<1>12. TypeOK'
  <2>1. \A s \in DOMAIN mem' : s \in Storages /\ mem'[s] \in Seq(Datum)
    BY <1>2, <1>4, <1>5 DEF IInv, TypeOK
  <2>2. StoresOf(Present(entries) \union HeldPairs)' \subseteq DOMAIN mem'
    BY <1>8, StoresCovered DEF PairFits, Fits, HeldPairs
  <2>3. pc' \in PCs /\ grown' \in [key: Tensor \union {None}, value: Tensor \union {None}]
    BY <1>1, <1>3, <1>10, <1>11 DEF AllocPhases, PCs, Phases, CopyPhases
  <2>. QED
    BY <1>7, <2>1, <2>2, <2>3 DEF IInv, TypeOK
<1>13. MemFits'
  <2>1. /\ grown'.key # None => FitsNext(grown'.key)
        /\ grown'.value # None => FitsNext(grown'.value)
    BY <1>1, <1>6, <1>8, <1>11 DEF AllocPhases
  <2>. QED
    BY <1>8, <2>1 DEF MemFits, Fits
<1>14. GrowthOK'
  <2>1. GrownShape' = GrownShape
    BY <1>7 DEF GrownShape
  <2>. QED
    BY <1>1, <1>3, <1>7, <1>11, <2>1 DEF IInv, GrowthOK, AllocPhases
<1>. QED
  BY <1>7, <1>12, <1>13, <1>14 DEF IInv, KeyValueAlike, TokensOK

(* In a copy phase all four tensors exist and fit their storages. *)
LEMMA CopyOperands ==
  ASSUME IInv, pc \in CopyPhases
  PROVE  /\ Fits(CopySource(pc)) /\ Fits(CopyTarget(pc))
         /\ CopyTarget(pc).shape = GrownShape
         /\ CopySource(pc).shape \in Shape
         /\ CopyOffset(pc) \in Nat
         /\ CopyOffset(pc) + Numel(CopySource(pc).shape) <= Numel(GrownShape)
<1>1. pc # "idle" /\ pc \notin AllocPhases /\ pc # "allocKey"
  BY DEF CopyPhases, AllocPhases
<1>2. /\ Fits(entries[target].key) /\ Fits(entries[target].value)
      /\ Fits(held.key) /\ Fits(held.value)
      /\ Fits(grown.key) /\ Fits(grown.value)
      /\ grown.key.shape = GrownShape /\ grown.value.shape = GrownShape
  BY <1>1 DEF IInv, GrowthOK, MemFits, PairFits
<1>3. entries[target].key.shape \in Shape /\ held.key.shape \in Shape
  BY <1>1, GrownShapeType DEF Pair, Tensor
<1>4. Numel(entries[target].key.shape) \in Nat /\ Numel(held.key.shape) \in Nat
  BY <1>3, NumelType
<1>. QED
  BY <1>1, <1>2, <1>3, <1>4, GrownShapeType
  DEF CopyPhases, CopySource, CopyTarget, CopyOffset

(* A copy changes no length. *)
LEMMA CopyInv ==
  ASSUME IInv, Copy
  PROVE  IInv'
<1>. DEFINE dst == CopyTarget(pc).store
            src == CopySource(pc).store
<1>1. pc \in CopyPhases
  BY DEF Copy
<1>2. dst \in DOMAIN mem /\ src \in DOMAIN mem /\ CopyOffset(pc) \in Nat
  BY <1>1, CopyOperands DEF Fits
<1>3. mem' = [mem EXCEPT ![dst] = Blit(mem[dst], CopyOffset(pc), mem[src])]
  BY DEF Copy
<1>4. mem'[dst] \in Seq(Datum) /\ Len(mem'[dst]) = Len(mem[dst])
  BY <1>2, <1>3, BlitType DEF IInv, TypeOK
<1>5. pc' = NextPhase(pc) /\ UNCHANGED <<entries, held, target, grown, outcome, tokens, history>>
  BY DEF Copy
<1>6. pc' \in PCs /\ pc' # "idle" /\ pc' \notin AllocPhases
  BY <1>1, <1>5 DEF CopyPhases, NextPhase, PCs, Phases, AllocPhases
<1>7. TypeOK' /\ MemFits'
  <2>1. \A s \in DOMAIN mem : mem'[s] \in Seq(Datum) /\ Len(mem'[s]) = Len(mem[s])
    BY <1>2, <1>3, <1>4 DEF IInv, TypeOK
  <2>2. DOMAIN mem' = DOMAIN mem
    BY <1>3
  <2>. QED
    BY <1>5, <1>6, <2>1, <2>2, LengthsKept
<1>8. GrowthOK'
  <2>1. pc # "idle" /\ pc \notin AllocPhases /\ pc # "allocKey" /\ pc' # "allocKey"
    BY <1>1, <1>6 DEF CopyPhases, AllocPhases
  <2>2. GrownShape' = GrownShape
    BY <1>5 DEF GrownShape
  <2>. QED
    BY <1>5, <1>6, <2>1, <2>2 DEF IInv, GrowthOK
<1>. QED
  BY <1>5, <1>7, <1>8 DEF IInv, KeyValueAlike, TokensOK

(* When the memory is cut down to the pairs that stay and nothing is under *)
(* construction, everything that stays still fits.                         *)
LEMMA KeptFits ==
  ASSUME IInv,
         UNCHANGED <<held, tokens>>,
         grown' = [key |-> None, value |-> None],
         mem' = Keep(Present(entries') \union HeldPairs),
         \A n \in Names : entries'[n] # None =>
             entries'[n] \in Pair /\ Fits(entries'[n].key) /\ Fits(entries'[n].value)
  PROVE  /\ MemFits'
         /\ DOMAIN mem' \subseteq Storages
         /\ \A s \in DOMAIN mem' : mem'[s] \in Seq(Datum)
         /\ StoresOf(Present(entries) \union HeldPairs)' \subseteq DOMAIN mem'
<1>. DEFINE P == Present(entries') \union HeldPairs
<1>1. held # None => held \in P /\ Fits(held.key) /\ Fits(held.value)
  BY DEF HeldPairs, IInv, MemFits, PairFits
<1>2. \A n \in Names : entries'[n] # None => entries'[n] \in P
  BY DEF Present
<1>3. StoresOf(P) \subseteq DOMAIN mem
  BY <1>1, StoresCovered DEF Fits, HeldPairs
<1>4. DOMAIN mem' = StoresOf(P) /\ \A s \in StoresOf(P) : mem'[s] = mem[s]
  BY KeepProperties
<1>5. \A p \in P : /\ p.key.store \in DOMAIN mem' /\ mem'[p.key.store] = mem[p.key.store]
                    /\ p.value.store \in DOMAIN mem' /\ mem'[p.value.store] = mem[p.value.store]
  BY <1>4, KeepProperties
<1>6. MemFits'
  BY <1>1, <1>2, <1>5 DEF MemFits, PairFits, Fits
<1>7. \A s \in DOMAIN mem' : s \in Storages /\ mem'[s] \in Seq(Datum)
  BY <1>3, <1>4 DEF IInv, TypeOK
<1>8. StoresOf(Present(entries) \union HeldPairs)' \subseteq DOMAIN mem'
  BY <1>4 DEF HeldPairs, Present, StoresOf
<1>. QED
  BY <1>6, <1>7, <1>8

(* A failed append releases the new tensors and keeps the entries. *)
LEMMA PhaseThrowsInv ==
  ASSUME IInv, PhaseThrows
  PROVE  IInv'
<1>1. /\ UNCHANGED <<entries, held, tokens, history>>
      /\ grown' = [key |-> None, value |-> None]
      /\ mem' = Keep(Present(entries') \union HeldPairs)
      /\ pc' = "idle" /\ target' = None /\ outcome' = "threw"
  BY DEF PhaseThrows, Present
<1>2. \A n \in Names : entries'[n] # None =>
        entries'[n] \in Pair /\ Fits(entries'[n].key) /\ Fits(entries'[n].value)
  BY <1>1 DEF IInv, TypeOK, MemFits, PairFits
<1>3. /\ MemFits' /\ DOMAIN mem' \subseteq Storages
      /\ \A s \in DOMAIN mem' : mem'[s] \in Seq(Datum)
      /\ StoresOf(Present(entries) \union HeldPairs)' \subseteq DOMAIN mem'
  BY <1>1, <1>2, KeptFits
<1>4. TypeOK'
  BY <1>1, <1>3 DEF IInv, TypeOK, PCs
<1>. QED
  BY <1>1, <1>3, <1>4 DEF IInv, KeyValueAlike, GrowthOK, TokensOK

(* The entry becomes the two new tensors, both of the grown shape. *)
LEMMA AssignInv ==
  ASSUME IInv, Assign
  PROVE  IInv'
<1>1. pc = "assign" /\ pc \notin AllocPhases
  BY DEF Assign, AllocPhases
<1>2. /\ grown \in Pair /\ grown.key.shape = grown.value.shape
      /\ Fits(grown.key) /\ Fits(grown.value)
      /\ target \in Names /\ held # None
  BY <1>1 DEF IInv, GrowthOK, TypeOK, Pair, MemFits, AllocPhases
<1>3. /\ \A n \in Names : entries'[n] = IF n = target THEN grown ELSE entries[n]
      /\ entries' \in [Names -> Pair \union {None}]
  BY <1>2 DEF Assign, IInv, TypeOK
<1>4. /\ UNCHANGED <<held, tokens>>
      /\ grown' = [key |-> None, value |-> None]
      /\ mem' = Keep(Present(entries') \union HeldPairs)
      /\ pc' = "idle" /\ target' = None /\ outcome' = "ok"
  BY DEF Assign
<1>5. \A n \in Names : entries'[n] # None =>
        entries'[n] \in Pair /\ Fits(entries'[n].key) /\ Fits(entries'[n].value)
  BY <1>2, <1>3 DEF IInv, TypeOK, MemFits, PairFits
<1>6. /\ MemFits' /\ DOMAIN mem' \subseteq Storages
      /\ \A s \in DOMAIN mem' : mem'[s] \in Seq(Datum)
      /\ StoresOf(Present(entries) \union HeldPairs)' \subseteq DOMAIN mem'
  BY <1>4, <1>5, KeptFits
<1>7. history' \in [Names -> Seq(Nat)]
  <2>1. HeldTokens \in Seq(Nat)
    BY <1>2, HeldTokensType DEF IInv, TypeOK, TokensOK, Pair, Tensor, Shape
  <2>2. history[target] \o HeldTokens \in Seq(Nat)
    BY <1>2, <2>1 DEF IInv, TypeOK
  <2>. QED
    BY <2>2 DEF Assign, IInv, TypeOK
<1>8. TypeOK'
  BY <1>3, <1>4, <1>6, <1>7 DEF IInv, TypeOK, PCs
<1>9. KeyValueAlike'
  BY <1>2, <1>3 DEF IInv, KeyValueAlike
<1>. QED
  BY <1>4, <1>6, <1>8, <1>9 DEF IInv, GrowthOK, TokensOK

(* clear() leaves the caller's tensors only. *)
LEMMA ClearInv ==
  ASSUME IInv, Clear
  PROVE  IInv'
<1>1. /\ UNCHANGED <<held, pc, target, grown, outcome, tokens>>
      /\ entries' = [n \in Names |-> None]
      /\ history' = [n \in Names |-> << >>]
      /\ pc = "idle"
  BY DEF Clear
<1>2. mem' = Keep(Present(entries') \union HeldPairs)
  <2>1. Present(entries') = {}
    BY <1>1 DEF Present
  <2>. QED
    BY <2>1 DEF Clear
<1>3. grown' = [key |-> None, value |-> None]
  BY <1>1 DEF IInv, TypeOK, GrowthOK
<1>4. /\ MemFits' /\ DOMAIN mem' \subseteq Storages
      /\ \A s \in DOMAIN mem' : mem'[s] \in Seq(Datum)
      /\ StoresOf(Present(entries) \union HeldPairs)' \subseteq DOMAIN mem'
  BY <1>1, <1>2, <1>3, KeptFits
<1>5. history' \in [Names -> Seq(Nat)]
  BY <1>1
<1>6. TypeOK'
  BY <1>1, <1>4, <1>5 DEF IInv, TypeOK
<1>. QED
  BY <1>1, <1>4, <1>6 DEF IInv, KeyValueAlike, GrowthOK, TokensOK

(* A step that changes nothing. *)
LEMMA StutterInv ==
  ASSUME IInv, UNCHANGED vars
  PROVE  IInv'
  BY DEF vars, IInv, TypeOK, StoresOf, Present, HeldPairs, KeyValueAlike,
         MemFits, PairFits, Fits, GrowthOK, GrownShape, TokensOK

-----------------------------------------------------------------------------
(* Theorems *)

(* IInv is an invariant of append(), clear() and their callers. *)
THEOREM Inductive == Spec => []IInv
<1>1. IInv /\ [Next]_vars => IInv'
  <2>. SUFFICES ASSUME IInv, [Next]_vars PROVE IInv'
    OBVIOUS
  <2>1. CASE \E in \in Inputs : Produce(in)
    BY <2>1, ProduceInv
  <2>2. CASE CallerWrite
    BY <2>2, CallerWriteInv
  <2>3. CASE \E n \in Names : AppendRejects(n)
    BY <2>3, AppendRejectsInv
  <2>4. CASE \E n \in Names : AppendCreates(n)
    BY <2>4, AppendCreatesInv
  <2>5. CASE \E n \in Names : AppendGrows(n)
    BY <2>5, AppendGrowsInv
  <2>6. CASE Alloc
    BY <2>6, AllocInv
  <2>7. CASE Copy
    BY <2>7, CopyInv
  <2>8. CASE PhaseThrows
    BY <2>8, PhaseThrowsInv
  <2>9. CASE Assign
    BY <2>9, AssignInv
  <2>10. CASE Clear
    BY <2>10, ClearInv
  <2>11. CASE UNCHANGED vars
    BY <2>11, StutterInv
  <2>. QED
    BY <2>1, <2>2, <2>3, <2>4, <2>5, <2>6, <2>7, <2>8, <2>9, <2>10, <2>11 DEF Next
<1>. QED
  BY <1>1, InitInv, PTL DEF Spec

(* The cache's tensors are well-formed and never dangle. *)
THEOREM TypeCorrect == Spec => []TypeOK
<1>1. IInv => TypeOK
  BY DEF IInv
<1>. QED
  BY <1>1, Inductive, PTL

(* A cached key and its value have the same shape, always. *)
THEOREM KeysAndValuesAlike == Spec => []KeyValueAlike
<1>1. IInv => KeyValueAlike
  BY DEF IInv
<1>. QED
  BY <1>1, Inductive, PTL

(* No copy of append() leaves its source or its destination, whatever the  *)
(* shapes and however many appends, failed or not, came before.            *)
THEOREM CopiesStayInBounds == Spec => []CopiesInBounds
<1>1. IInv => CopiesInBounds
  <2>. SUFFICES ASSUME IInv, pc \in CopyPhases PROVE CopiesInBounds
    BY DEF CopiesInBounds
  <2>1. /\ Numel(CopySource(pc).shape) = Len(mem[CopySource(pc).store])
        /\ Numel(GrownShape) = Len(mem[CopyTarget(pc).store])
        /\ CopyOffset(pc) + Numel(CopySource(pc).shape) <= Numel(GrownShape)
        /\ Numel(CopySource(pc).shape) \in Nat
    BY CopyOperands, NumelType DEF Fits
  <2>. QED
    BY <2>1 DEF CopiesInBounds
<1>. QED
  BY <1>1, Inductive, PTL

-----------------------------------------------------------------------------
(* Who shares storage with whom, and what append() has copied so far *)

StoresIn(p) == {p.key.store, p.value.store}

(* An entry either is the caller's pair or shares no storage with it, and  *)
(* the tensors under construction share none with anything.                *)
Separate ==
  /\ \A n \in Names : entries[n] # None /\ held # None /\ entries[n] # held =>
       StoresIn(entries[n]) \intersect StoresIn(held) = {}
  /\ grown.key # None =>
       /\ \A n \in Names : entries[n] # None => grown.key.store \notin StoresIn(entries[n])
       /\ held # None => grown.key.store \notin StoresIn(held)
  /\ grown.value # None =>
       /\ \A n \in Names : entries[n] # None => grown.value.store \notin StoresIn(entries[n])
       /\ held # None => grown.value.store \notin StoresIn(held)
  /\ grown.key # None /\ grown.value # None => grown.key.store # grown.value.store

StartsWith(s, prefix) == \A i \in 1..Len(prefix) : s[i] = prefix[i]

(* The copies that are done have put the old contents first, and the new   *)
(* ones behind them.                                                       *)
Filled ==
  /\ pc = "copyNewKey" =>
       StartsWith(mem[grown.key.store], mem[entries[target].key.store])
  /\ pc \in {"copyOldValue", "copyNewValue", "assign"} =>
       mem[grown.key.store] = mem[entries[target].key.store] \o mem[held.key.store]
  /\ pc = "copyNewValue" =>
       StartsWith(mem[grown.value.store], mem[entries[target].value.store])
  /\ pc = "assign" =>
       mem[grown.value.store] = mem[entries[target].value.store] \o mem[held.value.store]

LEMMA BlitAtStart ==
  ASSUME NEW dst \in Seq(Datum), NEW src \in Seq(Datum), Len(src) <= Len(dst)
  PROVE  StartsWith(Blit(dst, 0, src), src)
BY DEF Blit, StartsWith

(* Copied behind what is there already, the two contents are concatenated. *)
LEMMA BlitBehind ==
  ASSUME NEW dst \in Seq(Datum), NEW old \in Seq(Datum), NEW src \in Seq(Datum),
         Len(dst) = Len(old) + Len(src), StartsWith(dst, old)
  PROVE  Blit(dst, Len(old), src) = old \o src
<1>1. /\ old \o src \in Seq(Datum)
      /\ Len(old \o src) = Len(old) + Len(src)
      /\ \A i \in 1..(Len(old) + Len(src)) :
           (old \o src)[i] = IF i <= Len(old) THEN old[i] ELSE src[i - Len(old)]
  BY ConcatProperties
<1>2. Len(old) \in Nat /\ Len(src) \in Nat
  OBVIOUS
<1>3. Blit(dst, Len(old), src) \in Seq(Datum) /\ Len(Blit(dst, Len(old), src)) = Len(old) + Len(src)
  BY <1>2, BlitType
<1>4. ASSUME NEW i \in 1..(Len(old) + Len(src))
      PROVE  Blit(dst, Len(old), src)[i] = IF i <= Len(old) THEN old[i] ELSE src[i - Len(old)]
  BY <1>2 DEF Blit, StartsWith
<1> DEFINE b == Blit(dst, Len(old), src)
           c == old \o src
<1>5. Len(b) = Len(c) /\ \A i \in 1..Len(b) : b[i] = c[i]
  BY <1>1, <1>3, <1>4
<1>6. b \in Seq(Datum) /\ c \in Seq(Datum)
  BY <1>1, <1>3
<1> HIDE DEF b, c
<1>7. b = c
  BY <1>5, <1>6, SeqEqual
<1> QED BY <1>7 DEF b, c

-----------------------------------------------------------------------------
(* The kinds of steps, by what they do to contents *)

SameData(p) ==
  /\ mem'[p.key.store] = mem[p.key.store]
  /\ mem'[p.value.store] = mem[p.value.store]

(* Nothing that can be read from outside changes. *)
Quiet ==
  /\ UNCHANGED <<entries, held, tokens, history>>
  /\ \A n \in Names : entries[n] # None => SameData(entries[n])
  /\ held # None => SameData(held)

(* The entry of n becomes a pair of its own, the chunk behind the old one. *)
Extends(n, new) ==
  /\ held # None /\ entries[n] # None
  /\ SameLayout(entries[n].key.shape, held.key.shape)
  /\ held.key.shape = held.value.shape
  /\ entries' = [entries EXCEPT ![n] = new]
  /\ history' = [history EXCEPT ![n] = @ \o HeldTokens]
  /\ outcome' = "ok"
  /\ UNCHANGED <<held, tokens>>
  /\ new \in Pair
  /\ new.key.shape = [entries[n].key.shape EXCEPT !.s = @ + held.key.shape.s]
  /\ new.value.shape = new.key.shape
  /\ StoresIn(new) \intersect StoresIn(held) = {}
  /\ mem'[new.key.store] = mem[entries[n].key.store] \o mem[held.key.store]
  /\ mem'[new.value.store] = mem[entries[n].value.store] \o mem[held.value.store]
  /\ SameData(held)
  /\ \A m \in Names \ {n} : entries[m] # None => SameData(entries[m])

(* Whatever is kept keeps its contents. *)
LEMMA KeptIsSame ==
  ASSUME NEW P, NEW p \in P, mem' = Keep(P)
  PROVE  SameData(p)
BY KeepProperties DEF SameData

LEMMA ProduceIsFresh ==
  ASSUME IInv, NEW in \in Inputs, Produce(in)
  PROVE  /\ \A n \in Names : entries[n] # None =>
              SameData(entries[n]) /\ StoresIn(entries[n]) \intersect StoresIn(held') = {}
         /\ mem'[held'.key.store] = ContentsOf("K", in.key, tokens)
         /\ mem'[held'.value.store] = ContentsOf("V", in.value, tokens)
         /\ held'.key.shape = in.key /\ held'.value.shape = in.value
         /\ held' \in Pair
<1>. DEFINE kept == Keep(Present(entries))
            free == Storages \ DOMAIN kept
            k == Pick(free)
            v == Pick(free \ {k})
<1>1. /\ k \in Storages /\ v \in Storages /\ k # v
      /\ k \notin DOMAIN kept /\ v \notin DOMAIN kept
  BY PickIsFree DEF Produce
<1>2. in \in [kind: Kind, key: InputShape, value: InputShape] /\ InputShape \subseteq Shape
  BY KVCacheAssumption DEF InputShape, Shape
<1>3. /\ held'.key = [kind |-> in.kind, shape |-> in.key, store |-> k]
      /\ held'.value = [kind |-> "float32_cuda", shape |-> in.value, store |-> v]
      /\ held' \in Pair
  BY <1>1, <1>2 DEF Produce, Pair, Tensor, Kind
<1>4. /\ mem'[k] = ContentsOf("K", in.key, tokens)
      /\ mem'[v] = ContentsOf("V", in.value, tokens)
      /\ \A s \in DOMAIN kept : mem'[s] = kept[s]
  BY <1>1 DEF Produce
<1>5. ASSUME NEW n \in Names, entries[n] # None
      PROVE  SameData(entries[n]) /\ StoresIn(entries[n]) \intersect {k, v} = {}
  <2>1. entries[n] \in Present(entries)
    BY <1>5 DEF Present
  <2>2. /\ StoresIn(entries[n]) \subseteq DOMAIN kept
        /\ \A s \in StoresIn(entries[n]) : kept[s] = mem[s]
    BY <2>1, KeepProperties DEF StoresIn
  <2> HIDE DEF kept
  <2> QED BY <1>1, <1>4, <2>2 DEF SameData, StoresIn
<1> QED BY <1>3, <1>4, <1>5 DEF StoresIn

LEMMA QuietSteps ==
  ASSUME IInv, Separate,
         \/ \E n \in Names : AppendRejects(n) \/ AppendGrows(n)
         \/ Alloc \/ Copy \/ PhaseThrows \/ UNCHANGED vars
  PROVE  Quiet
<1>a. ASSUME UNCHANGED <<entries, held, tokens, history>>, mem' = mem
      PROVE  Quiet
  BY <1>a DEF Quiet, SameData
<1>1. CASE \E n \in Names : AppendRejects(n) \/ AppendGrows(n)
  BY <1>1, <1>a DEF AppendRejects, AppendGrows
<1>2. CASE UNCHANGED vars
  BY <1>2, <1>a DEF vars
<1>3. CASE Alloc
  <2>1. \A s \in DOMAIN mem : mem'[s] = mem[s]
    BY <1>3, PickIsFree DEF Alloc
  <2>2. \A n \in Names : entries[n] # None => SameData(entries[n])
    BY <2>1 DEF IInv, MemFits, PairFits, Fits, SameData
  <2>3. held # None => SameData(held)
    BY <2>1 DEF IInv, MemFits, PairFits, Fits, SameData
  <2> QED BY <1>3, <2>2, <2>3 DEF Alloc, Quiet
<1>4. CASE Copy
  <2>1. pc \in CopyPhases
    BY <1>4 DEF Copy
  <2>2. grown.key # None /\ grown.value # None
    BY <2>1 DEF IInv, GrowthOK, CopyPhases, AllocPhases
  <2>3. \A s : s # grown.key.store /\ s # grown.value.store => mem'[s] = mem[s]
    <3>1. CopyTarget(pc).store \in {grown.key.store, grown.value.store}
      BY DEF CopyTarget
    <3>2. CopyTarget(pc).store \in DOMAIN mem
      BY <2>1, CopyOperands DEF Fits
    <3> QED BY <1>4, <3>1, <3>2 DEF Copy
  <2>4. \A n \in Names : entries[n] # None => SameData(entries[n])
    BY <2>2, <2>3 DEF Separate, SameData, StoresIn
  <2>5. held # None => SameData(held)
    BY <2>2, <2>3 DEF Separate, SameData, StoresIn
  <2> QED BY <1>4, <2>4, <2>5 DEF Copy, Quiet
<1>5. CASE PhaseThrows
  <2>1. mem' = Keep(Present(entries) \union HeldPairs)
    BY <1>5 DEF PhaseThrows
  <2>2. \A n \in Names : entries[n] # None => SameData(entries[n])
    BY <2>1, KeptIsSame DEF Present
  <2>3. held # None => SameData(held)
    BY <2>1, KeptIsSame DEF HeldPairs
  <2> QED BY <1>5, <2>2, <2>3 DEF PhaseThrows, Quiet
<1> QED BY <1>1, <1>2, <1>3, <1>4, <1>5

LEMMA AssignExtends ==
  ASSUME IInv, Separate, Filled, Assign
  PROVE  Extends(target, grown) /\ target \in Names
<1>1. pc = "assign" /\ pc \notin AllocPhases
  BY DEF Assign, AllocPhases
<1>2. /\ grown \in Pair /\ grown.key.shape = GrownShape /\ grown.value.shape = GrownShape
      /\ grown.key # None /\ grown.value # None
      /\ target \in Names /\ held # None /\ entries[target] # None
      /\ SameLayout(entries[target].key.shape, held.key.shape)
      /\ held.key.shape = held.value.shape
  BY <1>1 DEF IInv, GrowthOK, TypeOK, Pair, AllocPhases
<1>3. mem' = Keep(Present(entries') \union HeldPairs)
  BY DEF Assign
<1>4. \A m \in Names : entries'[m] = IF m = target THEN grown ELSE entries[m]
  BY <1>2 DEF Assign, IInv, TypeOK
<1>5. grown # None
  BY <1>2, KVCacheAssumption
<1>6. SameData(grown) /\ SameData(held) /\ \A m \in Names \ {target} : entries[m] # None => SameData(entries[m])
  BY <1>2, <1>3, <1>4, <1>5, KeptIsSame DEF Present, HeldPairs
<1>7. /\ mem'[grown.key.store] = mem[entries[target].key.store] \o mem[held.key.store]
      /\ mem'[grown.value.store] = mem[entries[target].value.store] \o mem[held.value.store]
  BY <1>1, <1>6 DEF Filled, SameData
<1>8. StoresIn(grown) \intersect StoresIn(held) = {}
  BY <1>2 DEF Separate, StoresIn
<1> QED BY <1>2, <1>6, <1>7, <1>8 DEF Extends, Assign, GrownShape

-----------------------------------------------------------------------------
(* Storages stay apart, and the copies fill the new tensors *)

(* With no append() in progress, the entries and the caller are all there  *)
(* is to keep apart.                                                       *)
LEMMA IdleSeparate ==
  ASSUME pc' = "idle", grown'.key = None, grown'.value = None,
         \A n \in Names : entries'[n] # None /\ held' # None /\ entries'[n] # held' =>
           StoresIn(entries'[n]) \intersect StoresIn(held') = {}
  PROVE  (Separate /\ Filled)'
BY DEF Separate, Filled, StoresIn

LEMMA AllocSeparate ==
  ASSUME IInv, Separate, Alloc
  PROVE  (Separate /\ Filled)'
<1>. DEFINE free == Storages \ DOMAIN mem
            new == [kind |-> "float32_cuda", shape |-> GrownShape, store |-> Pick(free)]
<1>1. pc \in AllocPhases /\ new.store \notin DOMAIN mem
  BY PickIsFree DEF Alloc
<1>2. UNCHANGED <<entries, held>>
  BY DEF Alloc
<1>3. /\ grown' = IF pc = "allocKey" THEN [grown EXCEPT !.key = new]
                                      ELSE [grown EXCEPT !.value = new]
      /\ pc' = NextPhase(pc)
      /\ grown = [key |-> grown.key, value |-> grown.value]
  BY DEF Alloc, IInv, TypeOK
<1>4. /\ pc = "allocKey" => /\ grown' = [key |-> new, value |-> grown.value]
                             /\ pc' = "allocValue"
      /\ pc = "allocValue" => /\ grown' = [key |-> grown.key, value |-> new]
                               /\ pc' = "copyOldKey"
  BY <1>3 DEF NextPhase
<1>5. /\ \A n \in Names : entries[n] # None => StoresIn(entries[n]) \subseteq DOMAIN mem
      /\ held # None => StoresIn(held) \subseteq DOMAIN mem
      /\ grown.key # None => grown.key.store \in DOMAIN mem
      /\ grown.value # None => grown.value.store \in DOMAIN mem
  BY DEF IInv, MemFits, PairFits, Fits, StoresIn
<1> HIDE DEF new, free
<1>6. CASE pc = "allocKey"
  <2>1. grown'.key = new /\ grown'.value = grown.value
    BY <1>4, <1>6
  <2>2. Separate'
    BY <1>1, <1>2, <1>5, <2>1 DEF Separate, StoresIn
  <2>3. Filled'
    BY <1>4, <1>6 DEF Filled
  <2> QED BY <2>2, <2>3
<1>7. CASE pc = "allocValue"
  <2>1. grown'.key = grown.key /\ grown'.value = new
    BY <1>4, <1>7
  <2>2. Separate'
    BY <1>1, <1>2, <1>5, <2>1 DEF Separate, StoresIn
  <2>3. Filled'
    BY <1>4, <1>7 DEF Filled
  <2> QED BY <2>2, <2>3
<1> QED BY <1>1, <1>6, <1>7 DEF AllocPhases

LEMMA CopyFills ==
  ASSUME IInv, Separate, Filled, Copy
  PROVE  (Separate /\ Filled)'
<1>1. pc \in CopyPhases /\ pc' = NextPhase(pc)
  BY DEF Copy
<1>2. pc # "idle" /\ pc \notin AllocPhases /\ pc # "allocKey"
  BY <1>1 DEF CopyPhases, AllocPhases
<1>3. UNCHANGED <<entries, held, target, grown>>
  BY DEF Copy
<1> DEFINE gk == grown.key.store
           gv == grown.value.store
           ok == mem[entries[target].key.store]
           nk == mem[held.key.store]
           ov == mem[entries[target].value.store]
           nv == mem[held.value.store]
<1>4. /\ target \in Names /\ entries[target] # None /\ held # None
      /\ grown.key # None /\ grown.value # None
      /\ Fits(entries[target].key) /\ Fits(entries[target].value)
      /\ Fits(held.key) /\ Fits(held.value)
      /\ Fits(grown.key) /\ Fits(grown.value)
      /\ grown.key.shape = GrownShape /\ grown.value.shape = GrownShape
  BY <1>2 DEF IInv, GrowthOK, MemFits, PairFits
<1>5. /\ gk # gv
      /\ {gk, gv} \intersect StoresIn(entries[target]) = {}
      /\ {gk, gv} \intersect StoresIn(held) = {}
  BY <1>4 DEF Separate
<1>6. /\ gk \in DOMAIN mem /\ gv \in DOMAIN mem
      /\ \A x \in {mem[gk], mem[gv], ok, nk, ov, nv} : x \in Seq(Datum) /\ Len(x) \in Nat
  <2>1. {gk, gv} \union StoresIn(entries[target]) \union StoresIn(held) \subseteq DOMAIN mem
    BY <1>4 DEF Fits, StoresIn
  <2> QED BY <2>1 DEF IInv, TypeOK, StoresIn
<1>7. /\ Len(mem[gk]) = Len(ok) + Len(nk)
      /\ Len(mem[gv]) = Len(ov) + Len(nv)
      /\ Len(ok) = Numel(entries[target].key.shape)
      /\ Len(ov) = Numel(entries[target].value.shape)
  BY <1>2, <1>4, GrownShapeType DEF Fits
<1>8. mem' = [mem EXCEPT ![CopyTarget(pc).store] =
                Blit(mem[CopyTarget(pc).store], CopyOffset(pc), mem[CopySource(pc).store])]
  BY DEF Copy
<1>9. Separate'
  BY <1>3 DEF Separate
<1>10. /\ entries'[target'].key.store = entries[target].key.store
       /\ entries'[target'].value.store = entries[target].value.store
       /\ held'.key.store = held.key.store /\ held'.value.store = held.value.store
       /\ grown'.key.store = gk /\ grown'.value.store = gv
  BY <1>3
<1>11. \A s \in StoresIn(entries[target]) \union StoresIn(held) : mem'[s] = mem[s]
  <2>1. CopyTarget(pc).store \in {gk, gv}
    BY DEF CopyTarget
  <2> QED BY <1>5, <1>6, <1>8, <2>1
<1>12. /\ mem'[entries[target].key.store] = ok /\ mem'[held.key.store] = nk
       /\ mem'[entries[target].value.store] = ov /\ mem'[held.value.store] = nv
  BY <1>11 DEF StoresIn
<1>13. CASE pc = "copyOldKey"
  <2>1. pc' = "copyNewKey"
    BY <1>1, <1>13 DEF NextPhase
  <2>2. mem'[gk] = Blit(mem[gk], 0, ok)
    BY <1>6, <1>8, <1>13 DEF CopyTarget, CopySource, CopyOffset
  <2>3. StartsWith(mem'[gk], ok)
    <3> HIDE DEF gk, gv, ok, nk, ov, nv
    <3>1. /\ mem[gk] \in Seq(Datum) /\ ok \in Seq(Datum)
          /\ Len(ok) \in Nat /\ Len(nk) \in Nat
      BY <1>6
    <3>2. Len(ok) <= Len(mem[gk])
      BY <1>7, <3>1
    <3> QED BY <2>2, <3>1, <3>2, BlitAtStart
  <2> QED BY <1>9, <1>10, <1>12, <2>1, <2>3 DEF Filled
<1>14. CASE pc = "copyNewKey"
  <2>1. pc' = "copyOldValue"
    BY <1>1, <1>14 DEF NextPhase
  <2>2. mem'[gk] = Blit(mem[gk], Len(ok), nk)
    BY <1>6, <1>7, <1>8, <1>14 DEF CopyTarget, CopySource, CopyOffset
  <2>3. mem'[gk] = ok \o nk
    <3>1. StartsWith(mem[gk], ok)
      BY <1>14 DEF Filled
    <3> HIDE DEF gk, ok, nk
    <3> QED BY <1>6, <1>7, <2>2, <3>1, BlitBehind
  <2> QED BY <1>9, <1>10, <1>12, <2>1, <2>3 DEF Filled
<1>15. CASE pc = "copyOldValue"
  <2>1. pc' = "copyNewValue"
    BY <1>1, <1>15 DEF NextPhase
  <2>2. mem'[gv] = Blit(mem[gv], 0, ov) /\ mem'[gk] = mem[gk]
    BY <1>5, <1>6, <1>8, <1>15 DEF CopyTarget, CopySource, CopyOffset
  <2>3. StartsWith(mem'[gv], ov)
    <3> HIDE DEF gk, gv, ok, nk, ov, nv
    <3>1. /\ mem[gv] \in Seq(Datum) /\ ov \in Seq(Datum)
          /\ Len(ov) \in Nat /\ Len(nv) \in Nat
      BY <1>6
    <3>2. Len(ov) <= Len(mem[gv])
      BY <1>7, <3>1
    <3> QED BY <2>2, <3>1, <3>2, BlitAtStart
  <2>4. mem[gk] = ok \o nk
    BY <1>15 DEF Filled
  <2> QED BY <1>9, <1>10, <1>12, <2>1, <2>2, <2>3, <2>4 DEF Filled
<1>16. CASE pc = "copyNewValue"
  <2>1. pc' = "assign"
    BY <1>1, <1>16 DEF NextPhase
  <2>2. mem'[gv] = Blit(mem[gv], Len(ov), nv) /\ mem'[gk] = mem[gk]
    BY <1>5, <1>6, <1>7, <1>8, <1>16 DEF CopyTarget, CopySource, CopyOffset
  <2>3. mem'[gv] = ov \o nv
    <3>1. StartsWith(mem[gv], ov)
      BY <1>16 DEF Filled
    <3> HIDE DEF gv, ov, nv
    <3> QED BY <1>6, <1>7, <2>2, <3>1, BlitBehind
  <2>4. mem[gk] = ok \o nk
    BY <1>16 DEF Filled
  <2> QED BY <1>9, <1>10, <1>12, <2>1, <2>2, <2>3, <2>4 DEF Filled
<1> QED BY <1>1, <1>13, <1>14, <1>15, <1>16 DEF CopyPhases

LEMMA SeparateStep ==
  ASSUME IInv, Separate, Filled, [Next]_vars
  PROVE  (Separate /\ Filled)'
<1>a. pc = "idle" => grown.key = None /\ grown.value = None
  BY DEF IInv, GrowthOK
<1>1. ASSUME NEW in \in Inputs, Produce(in)
      PROVE  (Separate /\ Filled)'
  <2>1. pc' = "idle" /\ pc = "idle" /\ UNCHANGED <<entries, grown>>
    BY <1>1 DEF Produce
  <2>2. \A n \in Names : entries[n] # None => StoresIn(entries[n]) \intersect StoresIn(held') = {}
    BY <1>1, ProduceIsFresh
  <2> QED BY <1>a, <2>1, <2>2, IdleSeparate
<1>2. CASE CallerWrite
  BY <1>2, <1>a, IdleSeparate DEF CallerWrite, Separate
<1>3. ASSUME NEW n \in Names, AppendRejects(n)
      PROVE  (Separate /\ Filled)'
  BY <1>3, <1>a, IdleSeparate DEF AppendRejects, Separate
<1>4. ASSUME NEW n \in Names, AppendCreates(n)
      PROVE  (Separate /\ Filled)'
  <2>1. \A m \in Names : entries'[m] = IF m = n THEN held ELSE entries[m]
    BY <1>4 DEF AppendCreates, IInv, TypeOK
  <2> QED BY <1>4, <1>a, <2>1, IdleSeparate DEF AppendCreates, Separate
<1>5. ASSUME NEW n \in Names, AppendGrows(n)
      PROVE  (Separate /\ Filled)'
  BY <1>5 DEF AppendGrows, Separate, Filled
<1>6. CASE Alloc
  BY <1>6, AllocSeparate
<1>7. CASE Copy
  BY <1>7, CopyFills
<1>8. CASE PhaseThrows
  BY <1>8, IdleSeparate DEF PhaseThrows, Separate
<1>9. CASE Assign
  <2>1. Extends(target, grown) /\ target \in Names
    BY <1>9, AssignExtends
  <2>2. \A m \in Names : entries'[m] = IF m = target THEN grown ELSE entries[m]
    BY <2>1 DEF Extends, IInv, TypeOK
  <2>3. pc' = "idle" /\ grown' = [key |-> None, value |-> None] /\ held' = held
    BY <1>9 DEF Assign
  <2>4. \A m \in Names : entries'[m] # None /\ held' # None /\ entries'[m] # held' =>
          StoresIn(entries'[m]) \intersect StoresIn(held') = {}
    BY <2>1, <2>2, <2>3 DEF Extends, Separate
  <2> QED BY <2>3, <2>4, IdleSeparate
<1>10. CASE Clear
  BY <1>10, <1>a, IdleSeparate DEF Clear
<1>11. CASE UNCHANGED vars
  BY <1>11 DEF vars, Separate, Filled
<1> QED
  BY <1>1, <1>2, <1>3, <1>4, <1>5, <1>6, <1>7, <1>8, <1>9, <1>10, <1>11 DEF Next

(* Storages stay apart and the copies fill the new tensors, always. *)
CInv == IInv /\ Separate /\ Filled

LEMMA ContentsInductive == Spec => []CInv
<1>1. Init => Separate /\ Filled
  BY DEF Init, Separate, Filled
<1>2. IInv /\ (Separate /\ Filled) /\ [Next]_vars => (Separate /\ Filled)'
  BY SeparateStep
<1> QED BY <1>1, <1>2, Inductive, PTL DEF Spec, CInv

-----------------------------------------------------------------------------
(* The cache implements ChunkLog *)

LogNow == [n \in Names |-> FlatPair(entries[n])]
SharedNow == {n \in Names : entries[n] # None /\ entries[n] = held}
ChunkNow == FlatPair(held)

(* What an entry or the caller holds is a pair of contents, never None. *)
LEMMA FlatType ==
  ASSUME IInv
  PROVE  /\ \A n \in Names : entries[n] # None => FlatPair(entries[n]) \in Flat
         /\ held # None => FlatPair(held) \in Flat
         /\ \A n \in Names : FlatPair(entries[n]) = None <=> entries[n] = None
         /\ FlatPair(held) = None <=> held = None
<1>1. ASSUME NEW n \in Names, entries[n] # None
      PROVE  FlatPair(entries[n]) \in Flat
  <2>1. Fits(entries[n].key) /\ Fits(entries[n].value)
    BY <1>1 DEF IInv, MemFits, PairFits
  <2> QED BY <1>1, <2>1 DEF Fits, IInv, TypeOK, FlatPair, Flat, Contents
<1>2. ASSUME held # None
      PROVE  FlatPair(held) \in Flat
  <2>1. Fits(held.key) /\ Fits(held.value)
    BY <1>2 DEF IInv, MemFits, PairFits
  <2> QED BY <1>2, <2>1 DEF Fits, IInv, TypeOK, FlatPair, Flat, Contents
<1>3. FlatPair(None) = None
  BY DEF FlatPair
<1> QED BY <1>1, <1>2, <1>3, KVCacheAssumption

(* Where the references and the data are the same, so is what is seen. *)
LEMMA EntrySame ==
  ASSUME NEW n \in Names, entries'[n] = entries[n], entries[n] # None => SameData(entries[n])
  PROVE  FlatPair(entries[n])' = FlatPair(entries[n])
BY DEF FlatPair, Contents, SameData

LEMMA HeldSame ==
  ASSUME held' = held, held # None => SameData(held)
  PROVE  ChunkNow' = ChunkNow
BY DEF ChunkNow, FlatPair, Contents, SameData

LEMMA QuietSame ==
  ASSUME Quiet
  PROVE  LogNow' = LogNow /\ SharedNow' = SharedNow /\ ChunkNow' = ChunkNow
<1>1. \A n \in Names : FlatPair(entries[n])' = FlatPair(entries[n])
  BY EntrySame DEF Quiet
<1>2. LogNow' = LogNow
  BY <1>1 DEF LogNow
<1> QED BY <1>2, HeldSame DEF Quiet, SharedNow

LEMMA ThrowIsSeen ==
  ASSUME Quiet, outcome' = "threw"
  PROVE  Log!Next
<1>1. Log!Throw
  BY QuietSame DEF Log!Throw, LogNow, SharedNow, ChunkNow
<1> QED BY <1>1 DEF Log!Next

LEMMA ProduceIsSeen ==
  ASSUME CInv, NEW in \in Inputs, Produce(in)
  PROVE  Log!Next
<1>1. UNCHANGED <<entries, outcome>>
  BY DEF Produce
<1>2. \A n \in Names : FlatPair(entries[n])' = FlatPair(entries[n])
  BY <1>1, ProduceIsFresh, EntrySame DEF CInv
<1>3. LogNow' = LogNow
  BY <1>2 DEF LogNow
<1>4. SharedNow' = {}
  BY <1>1, ProduceIsFresh DEF CInv, SharedNow, StoresIn
<1>5. Log!Offer
  BY <1>1, <1>3, <1>4 DEF Log!Offer, LogNow, SharedNow
<1> QED BY <1>5 DEF Log!Next

LEMMA WriteIsSeen ==
  ASSUME CInv, CallerWrite
  PROVE  Log!Next
<1>1. UNCHANGED <<entries, held, outcome>> /\ held # None
  BY DEF CallerWrite
<1>2. PICK s \in StoresIn(held) :
        mem' = [mem EXCEPT ![s] = [i \in DOMAIN mem[s] |-> <<"caller", 0, 0, 0>>]]
  BY DEF CallerWrite, StoresIn
<1>3. Fits(held.key) /\ Fits(held.value)
  BY <1>1 DEF CInv, IInv, MemFits, PairFits
<1>4. \A x \in StoresIn(held) : x \in DOMAIN mem /\ DOMAIN mem'[x] = DOMAIN mem[x]
  BY <1>2, <1>3 DEF StoresIn, Fits
<1>5. \A x : x \notin StoresIn(held) => mem'[x] = mem[x]
  BY <1>2
<1>6. ASSUME NEW n \in Names, entries[n] # None, entries[n] # held
      PROVE  SameData(entries[n])
  BY <1>1, <1>5, <1>6 DEF CInv, Separate, SameData, StoresIn
<1>7. LogNow' = [n \in Names |-> IF n \in SharedNow THEN ChunkNow' ELSE LogNow[n]]
  <2>1. ASSUME NEW n \in Names, n \in SharedNow
        PROVE  FlatPair(entries[n])' = ChunkNow'
    BY <1>1, <2>1 DEF SharedNow, ChunkNow
  <2>2. ASSUME NEW n \in Names, n \notin SharedNow
        PROVE  FlatPair(entries[n])' = LogNow[n]
    BY <1>1, <1>6, <2>2, EntrySame DEF SharedNow, LogNow
  <2> QED BY <2>1, <2>2 DEF LogNow
<1>8. ChunkNow # None
  BY <1>1, FlatType DEF ChunkNow, CInv
<1>9. /\ ChunkNow.key = mem[held.key.store] /\ ChunkNow'.key = mem'[held.key.store]
      /\ ChunkNow.value = mem[held.value.store] /\ ChunkNow'.value = mem'[held.value.store]
  BY <1>1 DEF ChunkNow, FlatPair, Contents
<1>10. /\ DOMAIN ChunkNow'.key = DOMAIN ChunkNow.key
       /\ DOMAIN ChunkNow'.value = DOMAIN ChunkNow.value
  BY <1>4, <1>9 DEF StoresIn
<1>11. SharedNow' = SharedNow
  BY <1>1 DEF SharedNow
<1>12. Log!Overwrite
  BY <1>1, <1>7, <1>8, <1>10, <1>11 DEF Log!Overwrite, LogNow, SharedNow, ChunkNow
<1> QED BY <1>12 DEF Log!Next

LEMMA CreateIsSeen ==
  ASSUME CInv, NEW n \in Names, AppendCreates(n)
  PROVE  Log!Next
<1>1. /\ held # None /\ entries[n] = None /\ outcome' = "ok"
      /\ \A m \in Names : entries'[m] = IF m = n THEN held ELSE entries[m]
      /\ UNCHANGED <<mem, held>>
  BY DEF AppendCreates, CInv, IInv, TypeOK
<1>2. ChunkNow # None /\ ChunkNow' = ChunkNow
  BY <1>1, FlatType, HeldSame DEF ChunkNow, CInv, SameData
<1>3. LogNow[n] = None
  BY <1>1 DEF LogNow, FlatPair
<1>4. ASSUME NEW m \in Names
      PROVE  FlatPair(entries[m])' = IF m = n THEN ChunkNow ELSE FlatPair(entries[m])
  <2>1. CASE m = n
    BY <1>1, <2>1 DEF FlatPair, Contents, ChunkNow
  <2>2. CASE m # n
    BY <1>1, <2>2, EntrySame DEF SameData
  <2> QED BY <2>1, <2>2
<1>5. LogNow' = [LogNow EXCEPT ![n] = ChunkNow]
  BY <1>4 DEF LogNow
<1>6. SharedNow' = SharedNow \union {n}
  BY <1>1 DEF SharedNow
<1>7. Log!Create(n)
  BY <1>1, <1>2, <1>3, <1>5, <1>6 DEF Log!Create, LogNow, SharedNow, ChunkNow
<1> QED BY <1>7 DEF Log!Next

LEMMA ExtendIsSeen ==
  ASSUME CInv, NEW n \in Names, NEW new, Extends(n, new)
  PROVE  Log!Next
<1>1. /\ held # None /\ entries[n] # None /\ held' = held /\ outcome' = "ok"
      /\ \A m \in Names : entries'[m] = IF m = n THEN new ELSE entries[m]
      /\ new # None /\ new # held
  BY KVCacheAssumption DEF Extends, CInv, IInv, TypeOK, StoresIn
<1>2. ChunkNow # None /\ ChunkNow' = ChunkNow
  BY <1>1, FlatType, HeldSame DEF ChunkNow, CInv, Extends
<1>3. LogNow[n] = FlatPair(entries[n]) /\ LogNow[n] # None
  BY <1>1, FlatType DEF LogNow, CInv
<1>4. Log!Append2(LogNow[n], ChunkNow)
        = [key |-> mem[entries[n].key.store] \o mem[held.key.store],
           value |-> mem[entries[n].value.store] \o mem[held.value.store]]
  BY <1>1, <1>3 DEF Log!Append2, FlatPair, Contents, ChunkNow
<1>5. FlatPair(entries[n])' = Log!Append2(LogNow[n], ChunkNow)
  <2>1. FlatPair(entries[n])' = [key |-> mem'[new.key.store], value |-> mem'[new.value.store]]
    BY <1>1 DEF FlatPair, Contents
  <2> QED BY <1>4, <2>1 DEF Extends
<1>6. ASSUME NEW m \in Names, m # n
      PROVE  FlatPair(entries[m])' = FlatPair(entries[m])
  BY <1>1, <1>6, EntrySame DEF Extends
<1>7. LogNow' = [LogNow EXCEPT ![n] = Log!Append2(LogNow[n], ChunkNow)]
  BY <1>5, <1>6 DEF LogNow
<1>8. SharedNow' = SharedNow \ {n}
  BY <1>1 DEF SharedNow
<1>9. Log!Extend(n)
  BY <1>1, <1>2, <1>3, <1>7, <1>8 DEF Log!Extend, LogNow, SharedNow, ChunkNow
<1> QED BY <1>9 DEF Log!Next

LEMMA ClearIsSeen ==
  ASSUME CInv, Clear
  PROVE  Log!Next
<1>1. entries' = [n \in Names |-> None] /\ held' = held /\ outcome' = outcome
      /\ mem' = Keep(HeldPairs)
  BY DEF Clear
<1>2. held # None => SameData(held)
  BY <1>1, KeptIsSame DEF HeldPairs
<1>3. LogNow' = [n \in Names |-> None] /\ SharedNow' = {}
  BY <1>1 DEF LogNow, FlatPair, SharedNow
<1>4. Log!Clear
  BY <1>1, <1>2, <1>3, HeldSame DEF Log!Clear, LogNow, SharedNow, ChunkNow
<1> QED BY <1>4 DEF Log!Next

LEMMA StepIsSeen ==
  ASSUME CInv, [Next]_vars
  PROVE  [Log!Next]_(Log!vars)
<1>0. IInv /\ Separate /\ Filled
  BY DEF CInv
<1>a. ASSUME Quiet, outcome' = outcome
      PROVE  UNCHANGED Log!vars
  BY <1>a, QuietSame DEF Log!vars, LogNow, SharedNow, ChunkNow
<1>1. CASE \E in \in Inputs : Produce(in)
  BY <1>1, ProduceIsSeen
<1>2. CASE CallerWrite
  BY <1>2, WriteIsSeen
<1>3. CASE (\E n \in Names : AppendRejects(n)) \/ PhaseThrows
  BY <1>0, <1>3, QuietSteps, ThrowIsSeen DEF AppendRejects, PhaseThrows
<1>4. CASE \E n \in Names : AppendCreates(n)
  BY <1>4, CreateIsSeen
<1>5. CASE (\E n \in Names : AppendGrows(n)) \/ Alloc \/ Copy \/ UNCHANGED vars
  BY <1>0, <1>5, <1>a, QuietSteps DEF AppendGrows, Alloc, Copy, vars
<1>6. CASE Assign
  BY <1>0, <1>6, AssignExtends, ExtendIsSeen
<1>7. CASE Clear
  BY <1>7, ClearIsSeen
<1> QED BY <1>1, <1>2, <1>3, <1>4, <1>5, <1>6, <1>7 DEF Next

(* Appends are atomic and ordered: whatever fails and whatever the caller  *)
(* does with its tensors, an append() adds exactly the caller's chunk at   *)
(* the end of the named entry's key and value, or throws and leaves every  *)
(* entry as it was.                                                        *)
THEOREM AppendsAreAtomic == Spec => ImplementsChunkLog
<1>1. Init => Log!Init
  BY DEF Init, Log!Init, FlatPair
<1>2. CInv /\ [Next]_vars => [Log!Next]_(Log!vars)
  BY StepIsSeen
<1> QED BY <1>1, <1>2, ContentsInductive, PTL DEF Spec, ImplementsChunkLog, Log!Spec

-----------------------------------------------------------------------------
(* The data of keys and values *)

LEMMA TailOfDatum ==
  ASSUME NEW a, NEW b, NEW c, NEW d
  PROVE  Tail(<<a, b, c, d>>) = <<b, c, d>>
OBVIOUS

(* Position by position, a key and a value are of the same token, lane and *)
(* dimension.                                                              *)
Alike(k, v) ==
  \A i \in 1..Len(k) : k[i][1] = "K" /\ v[i][1] = "V" => Tail(k[i]) = Tail(v[i])

PairAlike(p) == Alike(Contents(p.key), Contents(p.value))

MatchInv ==
  /\ \A n \in Names : entries[n] # None => PairAlike(entries[n])
  /\ held # None /\ held.key.shape = held.value.shape => PairAlike(held)

LEMMA AlikeConcat ==
  ASSUME NEW k1 \in Seq(Datum), NEW v1 \in Seq(Datum), Len(k1) = Len(v1), Alike(k1, v1),
         NEW k2 \in Seq(Datum), NEW v2 \in Seq(Datum), Len(k2) = Len(v2), Alike(k2, v2)
  PROVE  Alike(k1 \o k2, v1 \o v2)
<1>1. /\ Len(k1) \in Nat /\ Len(k2) \in Nat
      /\ Len(k1 \o k2) = Len(k1) + Len(k2)
      /\ \A i \in 1..(Len(k1) + Len(k2)) :
           /\ (k1 \o k2)[i] = IF i <= Len(k1) THEN k1[i] ELSE k2[i - Len(k1)]
           /\ (v1 \o v2)[i] = IF i <= Len(k1) THEN v1[i] ELSE v2[i - Len(k1)]
  <2>1. Len(k1) \in Nat /\ Len(k2) \in Nat
    BY LenProperties
  <2>2. /\ Len(k1 \o k2) = Len(k1) + Len(k2)
        /\ \A i \in 1..(Len(k1) + Len(k2)) :
             (k1 \o k2)[i] = IF i <= Len(k1) THEN k1[i] ELSE k2[i - Len(k1)]
    BY ConcatProperties
  <2>3. \A i \in 1..(Len(v1) + Len(v2)) :
          (v1 \o v2)[i] = IF i <= Len(v1) THEN v1[i] ELSE v2[i - Len(v1)]
    BY ConcatProperties
  <2> QED BY <2>1, <2>2, <2>3
<1> SUFFICES ASSUME NEW i \in 1..(Len(k1) + Len(k2)),
                    (k1 \o k2)[i][1] = "K", (v1 \o v2)[i][1] = "V"
             PROVE  Tail((k1 \o k2)[i]) = Tail((v1 \o v2)[i])
  BY <1>1 DEF Alike
<1>2. CASE i <= Len(k1)
  <2>1. (k1 \o k2)[i] = k1[i] /\ (v1 \o v2)[i] = v1[i] /\ i \in 1..Len(k1)
    BY <1>1, <1>2
  <2> QED BY <2>1 DEF Alike
<1>3. CASE ~(i <= Len(k1))
  <2>1. /\ (k1 \o k2)[i] = k2[i - Len(k1)] /\ (v1 \o v2)[i] = v2[i - Len(k1)]
        /\ i - Len(k1) \in 1..Len(k2)
    BY <1>1, <1>3
  <2> QED BY <2>1 DEF Alike
<1> QED BY <1>2, <1>3

(* The tensors a graph produces for the same shape match. *)
LEMMA ProducedAlike ==
  ASSUME NEW sh \in InputShape, NEW tok \in Nat
  PROVE  Alike(ContentsOf("K", sh, tok), ContentsOf("V", sh, tok))
<1>1. Len(ContentsOf("K", sh, tok)) = Numel(sh)
  BY ContentsType
<1> SUFFICES ASSUME NEW i \in 1..Numel(sh)
             PROVE  Tail(ContentsOf("K", sh, tok)[i]) = Tail(ContentsOf("V", sh, tok)[i])
  BY <1>1 DEF Alike
<1> DEFINE x == tok + (((i - 1) \div sh.d) % sh.s)
           y == (i - 1) \div (sh.d * sh.s)
           z == (i - 1) % sh.d
<1>2. ContentsOf("K", sh, tok)[i] = <<"K", x, y, z>> /\ ContentsOf("V", sh, tok)[i] = <<"V", x, y, z>>
  BY DEF ContentsOf
<1> HIDE DEF x, y, z
<1>3. Tail(<<"K", x, y, z>>) = <<x, y, z>>
  BY TailOfDatum
<1>4. Tail(<<"V", x, y, z>>) = <<x, y, z>>
  BY TailOfDatum
<1> QED BY <1>2, <1>3, <1>4

(* The contents of a pair in two states, where its data is the same. *)
LEMMA EntryContents ==
  ASSUME IInv, NEW n \in Names, entries[n] # None
  PROVE  /\ Contents(entries[n].key) \in Seq(Datum) /\ Contents(entries[n].value) \in Seq(Datum)
         /\ Len(Contents(entries[n].key)) = Numel(entries[n].key.shape)
         /\ Len(Contents(entries[n].value)) = Numel(entries[n].key.shape)
         /\ entries[n].key.shape = entries[n].value.shape
         /\ entries[n] \in Pair
BY DEF IInv, TypeOK, MemFits, PairFits, Fits, KeyValueAlike, Contents

LEMMA HeldContents ==
  ASSUME IInv, held # None
  PROVE  /\ Contents(held.key) \in Seq(Datum) /\ Contents(held.value) \in Seq(Datum)
         /\ Len(Contents(held.key)) = Numel(held.key.shape)
         /\ Len(Contents(held.value)) = Numel(held.value.shape)
         /\ held \in Pair
BY DEF IInv, TypeOK, MemFits, PairFits, Fits, Contents

LEMMA SameContents ==
  ASSUME NEW p, SameData(p)
  PROVE  mem'[p.key.store] = Contents(p.key) /\ mem'[p.value.store] = Contents(p.value)
BY DEF SameData, Contents

(* What the caller has overwritten is like anything. *)
LEMMA WrittenAlike ==
  ASSUME CInv, CallerWrite
  PROVE  /\ held.key.shape = held.value.shape =>
              Alike(mem'[held.key.store], mem'[held.value.store])
         /\ \A n \in Names : entries[n] # None /\ entries[n] # held => SameData(entries[n])
<1>1. held # None
  BY DEF CallerWrite
<1>2. PICK s \in StoresIn(held) :
        mem' = [mem EXCEPT ![s] = [i \in DOMAIN mem[s] |-> <<"caller", 0, 0, 0>>]]
  BY DEF CallerWrite, StoresIn
<1>3. Fits(held.key) /\ Fits(held.value) /\ s \in DOMAIN mem /\ mem[s] \in Seq(Datum)
  BY <1>1 DEF CInv, IInv, TypeOK, MemFits, PairFits, Fits, StoresIn
<1>4. DOMAIN mem[s] = 1..Len(mem[s]) /\ Len(mem[s]) \in Nat
  BY <1>3, LenProperties
<1>5. mem'[s] = [i \in 1..Len(mem[s]) |-> <<"caller", 0, 0, 0>>]
  BY <1>2, <1>3, <1>4
<1>6. \A i \in 1..Len(mem[s]) : mem'[s][i][1] = "caller"
  BY <1>5
<1>7. Len(mem'[s]) = Len(mem[s])
  BY <1>4, <1>5
<1>8. \A x : x # s => mem'[x] = mem[x]
  BY <1>2
<1>9. ASSUME held.key.shape = held.value.shape
      PROVE  Alike(mem'[held.key.store], mem'[held.value.store])
  <2>1. CASE s = held.key.store
    BY <1>6, <1>7, <2>1 DEF Alike
  <2>2. CASE s = held.value.store /\ s # held.key.store
    <3>1. Len(mem[held.key.store]) = Len(mem[s])
      BY <1>3, <1>9, <2>2 DEF Fits
    <3> QED BY <1>6, <1>8, <2>2, <3>1 DEF Alike
  <2> QED BY <1>2, <2>1, <2>2 DEF StoresIn
<1>10. \A n \in Names : entries[n] # None /\ entries[n] # held => SameData(entries[n])
  BY <1>1, <1>2, <1>8 DEF CInv, Separate, SameData, StoresIn
<1> QED BY <1>9, <1>10

LEMMA MatchStep ==
  ASSUME CInv, MatchInv, [Next]_vars
  PROVE  MatchInv'
<1>0. IInv /\ Separate /\ Filled
  BY DEF CInv
<1>a. ASSUME NEW n \in Names, entries'[n] # None, entries'[n] = entries[n], SameData(entries[n])
      PROVE  PairAlike(entries[n])'
  BY <1>a, SameContents DEF MatchInv, PairAlike, Contents
<1>b. ASSUME held' = held, held # None, held.key.shape = held.value.shape, SameData(held)
      PROVE  PairAlike(held)'
  BY <1>b, SameContents DEF MatchInv, PairAlike, Contents
<1>c. ASSUME Quiet
      PROVE  MatchInv'
  BY <1>a, <1>b, <1>c DEF Quiet, MatchInv
<1>1. ASSUME NEW in \in Inputs, Produce(in)
      PROVE  MatchInv'
  <2>1. entries' = entries
    BY <1>1 DEF Produce
  <2>2. in.key \in InputShape /\ tokens \in Nat
    BY <1>0, KVCacheAssumption DEF IInv, TypeOK
  <2>3. held'.key.shape = held'.value.shape => PairAlike(held)'
    BY <1>0, <1>1, <2>2, ProduceIsFresh, ProducedAlike DEF PairAlike, Contents
  <2> QED BY <1>0, <1>1, <1>a, <2>1, <2>3, ProduceIsFresh DEF MatchInv
<1>2. CASE CallerWrite
  <2>1. UNCHANGED <<entries, held>> /\ held # None
    BY <1>2 DEF CallerWrite
  <2>2. held.key.shape = held.value.shape => PairAlike(held)'
    BY <1>2, <2>1, WrittenAlike DEF PairAlike, Contents
  <2>3. ASSUME NEW n \in Names, entries[n] # None
        PROVE  PairAlike(entries[n])'
    <3>1. CASE entries[n] = held
      BY <1>0, <2>1, <2>2, <2>3, <3>1, EntryContents DEF PairAlike
    <3>2. CASE entries[n] # held
      BY <1>2, <1>a, <2>1, <2>3, <3>2, WrittenAlike
    <3> QED BY <3>1, <3>2
  <2> QED BY <2>1, <2>2, <2>3 DEF MatchInv
<1>3. ASSUME NEW n \in Names, AppendCreates(n)
      PROVE  MatchInv'
  <2>1. /\ held' = held /\ mem' = mem /\ held # None /\ held.key.shape = held.value.shape
        /\ \A m \in Names : entries'[m] = IF m = n THEN held ELSE entries[m]
    BY <1>0, <1>3 DEF AppendCreates, Accepts, IInv, TypeOK
  <2>2. \A p : SameData(p)
    BY <2>1 DEF SameData
  <2>3. PairAlike(held)'
    BY <1>b, <2>1, <2>2
  <2>4. ASSUME NEW m \in Names, entries'[m] # None
        PROVE  PairAlike(entries[m])'
    BY <1>a, <2>1, <2>2, <2>3, <2>4 DEF PairAlike
  <2> QED BY <2>1, <2>3, <2>4 DEF MatchInv
<1>4. ASSUME NEW n \in Names, NEW new, Extends(n, new)
      PROVE  MatchInv'
  <2>1. /\ held' = held /\ held # None /\ held.key.shape = held.value.shape /\ entries[n] # None
        /\ \A m \in Names : entries'[m] = IF m = n THEN new ELSE entries[m]
    BY <1>0, <1>4 DEF Extends, IInv, TypeOK
  <2>2. PairAlike(held)'
    BY <1>4, <1>b, <2>1 DEF Extends
  <2>3. PairAlike(entries[n]) /\ PairAlike(held)
    BY <2>1 DEF MatchInv
  <2>4. Alike(Contents(entries[n].key) \o Contents(held.key), Contents(entries[n].value) \o Contents(held.value))
    BY <1>0, <2>1, <2>3, EntryContents, HeldContents, AlikeConcat DEF PairAlike
  <2>5. PairAlike(entries[n])'
    BY <1>4, <2>1, <2>4 DEF Extends, PairAlike, Contents
  <2>6. ASSUME NEW m \in Names, m # n, entries'[m] # None
        PROVE  PairAlike(entries[m])'
    BY <1>4, <1>a, <2>1, <2>6 DEF Extends
  <2> QED BY <2>1, <2>2, <2>5, <2>6 DEF MatchInv
<1>5. CASE Clear
  <2>1. held' = held /\ mem' = Keep(HeldPairs) /\ entries' = [n \in Names |-> None]
    BY <1>5 DEF Clear
  <2>2. held # None => SameData(held)
    BY <2>1, KeptIsSame DEF HeldPairs
  <2> QED BY <1>b, <2>1, <2>2 DEF MatchInv
<1>6. CASE \/ \E n \in Names : AppendRejects(n) \/ AppendGrows(n)
           \/ Alloc \/ Copy \/ PhaseThrows \/ UNCHANGED vars
  BY <1>0, <1>6, <1>c, QuietSteps
<1>7. CASE Assign
  BY <1>0, <1>4, <1>7, AssignExtends
<1> QED BY <1>1, <1>2, <1>3, <1>5, <1>6, <1>7 DEF Next

(* The i-th cached key and the i-th cached value belong to the same token, *)
(* lane and dimension, whichever shapes were appended, unless the caller   *)
(* has overwritten one of them.                                            *)
THEOREM KeysAndValuesMatch == Spec => []KeysMatchValues
<1>1. Init => MatchInv
  BY DEF Init, MatchInv
<1>2. CInv /\ MatchInv /\ [Next]_vars => MatchInv'
  BY MatchStep
<1>3. CInv /\ MatchInv => KeysMatchValues
  <2> SUFFICES ASSUME CInv, MatchInv, NEW n \in Names, entries[n] # None,
                      NEW i \in 1..Numel(entries[n].key.shape)
               PROVE  LET k == Contents(entries[n].key)[i]
                          v == Contents(entries[n].value)[i]
                      IN k[1] = "K" /\ v[1] = "V" => Tail(k) = Tail(v)
    BY DEF KeysMatchValues
  <2>1. i \in 1..Len(Contents(entries[n].key))
    BY EntryContents DEF CInv
  <2> QED BY <2>1 DEF MatchInv, PairAlike, Alike
<1> QED BY <1>1, <1>2, <1>3, ContentsInductive, PTL DEF Spec

-----------------------------------------------------------------------------
(* The order of tokens in a single lane *)

(* Contents c, read as one lane of sz rows of d data, hold toks in order. *)
InOrder(c, sz, d, toks) ==
  /\ Len(toks) = sz
  /\ \A j \in 0..(sz - 1), dim \in 0..(d - 1) :
       LET x == c[j * d + dim + 1]
       IN x[1] # "caller" => Tail(x) = <<toks[j + 1], 0, dim>>

PairInOrder(p, toks) ==
  /\ InOrder(Contents(p.key), p.key.shape.s, p.key.shape.d, toks)
  /\ InOrder(Contents(p.value), p.value.shape.s, p.value.shape.d, toks)

OneLane(p) == p.key.shape = p.value.shape /\ Lanes(p.key.shape) = 1

OrderInv ==
  /\ \A n \in Names : entries[n] # None /\ OneLane(entries[n]) => PairInOrder(entries[n], history[n])
  /\ held # None /\ OneLane(held) => PairInOrder(held, HeldTokens)

(* Where the datum of a token and a dimension is, in row-major order. *)
LEMMA InRow ==
  ASSUME NEW d \in Nat, NEW sz \in Nat, NEW j \in 0..(sz - 1), NEW dim \in 0..(d - 1)
  PROVE  /\ j * d + dim \in Nat /\ j * d + dim < sz * d
         /\ (j * d + dim) \div d = j /\ (j * d + dim) % d = dim
<1>1. j * d \in Nat /\ sz * d \in Nat /\ (sz - (j + 1)) * d \in Nat
  OBVIOUS
<1>2. (sz - (j + 1)) * d = sz * d - j * d - d
  OBVIOUS
<1>3. j * d + dim \in Nat /\ j * d + dim < sz * d
  BY <1>1, <1>2
<1>4. d \in Nat \ {0} /\ j \in Nat
  OBVIOUS
<1>5. \A a \in Nat \ {0}, b \in Nat : \A c \in 0..(a - 1) : (b * a + c) \div a = b /\ (b * a + c) % a = c
  OBVIOUS
<1> QED BY <1>3, <1>4, <1>5

LEMMA OneLaneNumel ==
  ASSUME NEW sh \in Shape, Lanes(sh) = 1
  PROVE  sh.s \in Nat /\ sh.d \in Nat /\ Numel(sh) = sh.s * sh.d
BY DEF Shape, Numel

(* One lane is read at its own positions. *)
LEMMA HoldsOneLane ==
  ASSUME NEW t, t.shape \in Shape, Lanes(t.shape) = 1,
         NEW toks, InOrder(Contents(t), t.shape.s, t.shape.d, toks)
  PROVE  Holds(t, toks)
<1>1. t.shape.s \in Nat /\ t.shape.d \in Nat
  BY DEF Shape
<1>2. 0..(Lanes(t.shape) - 1) = {0}
  OBVIOUS
<1>3. \A j \in 0..(t.shape.s - 1), dim \in 0..(t.shape.d - 1) :
        At(t, 0, j, dim) = Contents(t)[j * t.shape.d + dim + 1]
  BY <1>1 DEF At
<1> QED BY <1>2, <1>3 DEF Holds, InOrder

(* What the graph produces is in order. *)
LEMMA ProducedInOrder ==
  ASSUME NEW role \in {"K", "V"}, NEW sh \in InputShape, Lanes(sh) = 1, NEW tok \in Nat
  PROVE  InOrder(ContentsOf(role, sh, tok), sh.s, sh.d, [j \in 1..sh.s |-> tok + j - 1])
<1> DEFINE sz == sh.s
           d == sh.d
           n == sz * d
           c == ContentsOf(role, sh, tok)
           toks == [j \in 1..sz |-> tok + j - 1]
<1>1. sh \in Shape /\ sz \in Nat \ {0} /\ d \in Nat \ {0}
  BY DEF InputShape, Shape
<1>a. Numel(sh) = n /\ d * sz = n /\ n \in Nat \ {0}
  BY <1>1, OneLaneNumel
<1>2. ASSUME NEW x \in Nat, x < n
      PROVE  c[x + 1] = <<role, tok + ((x \div d) % sz), x \div n, x % d>>
  <2> DEFINE y == x + 1
  <2>1. y \in 1..Numel(sh) /\ y - 1 = x
    BY <1>a, <1>2
  <2> HIDE DEF y
  <2>2. c[y] = <<role, tok + (((y - 1) \div d) % sz), (y - 1) \div (d * sz), (y - 1) % d>>
    BY <2>1 DEF ContentsOf
  <2>3. c[y] = <<role, tok + ((x \div d) % sz), x \div n, x % d>>
    BY <1>a, <2>1, <2>2
  <2> QED BY <2>3 DEF y
<1> HIDE DEF sz, d, c
<1>3. Len(toks) = sz
  <2>1. toks \in [1..sz -> Int] /\ sz \in Nat
    BY <1>1
  <2> QED BY <2>1, SequenceOfLength
<1>4. ASSUME NEW j \in 0..(sz - 1), NEW dim \in 0..(d - 1)
      PROVE  Tail(c[j * d + dim + 1]) = <<toks[j + 1], 0, dim>>
  <2> DEFINE x == j * d + dim
  <2>1. x \in Nat /\ x < n /\ x \div d = j /\ x % d = dim
    BY <1>1, InRow
  <2> HIDE DEF x, n
  <2>3. c[x + 1] = <<role, tok + ((x \div d) % sz), x \div n, x % d>>
    BY <1>2, <2>1
  <2>5. x \div n = 0
    <3>1. \A a \in Nat \ {0}, y \in Nat : y < a => y \div a = 0
      OBVIOUS
    <3> QED BY <1>a, <2>1, <3>1
  <2>6. j % sz = j
    BY <1>1
  <2>7. c[x + 1] = <<role, tok + j, 0, dim>>
    BY <2>1, <2>3, <2>5, <2>6
  <2>8. Tail(<<role, tok + j, 0, dim>>) = <<tok + j, 0, dim>>
    BY TailOfDatum
  <2>9. toks[j + 1] = tok + j
    BY <1>1
  <2>10. Tail(c[x + 1]) = <<toks[j + 1], 0, dim>>
    BY <2>7, <2>8, <2>9
  <2> QED BY <2>10 DEF x
<1>5. InOrder(c, sz, d, toks)
  BY <1>3, <1>4 DEF InOrder
<1> QED BY <1>5 DEF sz, d, c

(* So is what the caller has overwritten: it is in no order to break. *)
LEMMA WrittenInOrder ==
  ASSUME NEW d \in Nat, NEW sz \in Nat, NEW toks, Len(toks) = sz,
         NEW c, \A i \in 1..(sz * d) : c[i][1] = "caller"
  PROVE  InOrder(c, sz, d, toks)
<1>1. ASSUME NEW j \in 0..(sz - 1), NEW dim \in 0..(d - 1)
      PROVE  c[j * d + dim + 1][1] = "caller"
  <2> DEFINE x == j * d + dim
             n == sz * d
  <2>1. x \in Nat /\ x < n /\ n \in Nat
    BY InRow
  <2> HIDE DEF x, n
  <2>2. x + 1 \in 1..n
    BY <2>1
  <2> QED BY <2>2 DEF x, n
<1> QED BY <1>1 DEF InOrder

(* Contents behind contents: the tokens of the first, then those of the    *)
(* second.  With one lane only is that the order in memory, too.           *)
LEMMA OrderConcat ==
  ASSUME NEW a \in Seq(Datum), NEW b \in Seq(Datum),
         NEW d \in Nat, NEW sa \in Nat, NEW sb \in Nat,
         Len(a) = sa * d, Len(b) = sb * d,
         NEW ta \in Seq(Nat), NEW tb \in Seq(Nat), InOrder(a, sa, d, ta), InOrder(b, sb, d, tb)
  PROVE  InOrder(a \o b, sa + sb, d, ta \o tb)
<1>1. Len(ta) = sa /\ Len(tb) = sb
  BY DEF InOrder
<1>2. /\ Len(ta \o tb) = sa + sb
      /\ \A i \in 1..(sa + sb) : (ta \o tb)[i] = IF i <= sa THEN ta[i] ELSE tb[i - sa]
  <2>1. /\ Len(ta \o tb) = Len(ta) + Len(tb)
        /\ \A i \in 1..(Len(ta) + Len(tb)) :
             (ta \o tb)[i] = IF i <= Len(ta) THEN ta[i] ELSE tb[i - Len(ta)]
    BY ConcatProperties
  <2> QED BY <1>1, <2>1
<1>3. \A i \in 1..(Len(a) + Len(b)) : (a \o b)[i] = IF i <= Len(a) THEN a[i] ELSE b[i - Len(a)]
  BY ConcatProperties
<1>4. Len(a) \in Nat /\ Len(b) \in Nat
  BY LenProperties
<1> DEFINE c == a \o b
           toks == ta \o tb
           sz == sa + sb
<1>5. ASSUME NEW j \in 0..(sz - 1), NEW dim \in 0..(d - 1), c[j * d + dim + 1][1] # "caller"
      PROVE  Tail(c[j * d + dim + 1]) = <<toks[j + 1], 0, dim>>
  <2>1. CASE j < sa
    <3>1. j \in 0..(sa - 1)
      BY <2>1
    <3> DEFINE x == j * d + dim
    <3>2. x \in Nat /\ x < Len(a)
      BY <3>1, InRow
    <3>3. (a \o b)[x + 1] = a[x + 1]
      <4> HIDE DEF x
      <4> QED BY <1>3, <1>4, <3>2
    <3>4. (ta \o tb)[j + 1] = ta[j + 1]
      BY <1>2, <3>1
    <3>5. a[x + 1][1] # "caller" => Tail(a[x + 1]) = <<ta[j + 1], 0, dim>>
      BY <3>1 DEF InOrder
    <3>6. (a \o b)[x + 1][1] # "caller"
      BY <1>5
    <3> HIDE DEF x
    <3>7. Tail((a \o b)[x + 1]) = <<(ta \o tb)[j + 1], 0, dim>>
      BY <3>3, <3>4, <3>5, <3>6
    <3> QED BY <3>7 DEF x
  <2>2. CASE j >= sa
    <3>1. PICK k \in 0..(sb - 1) : j = sa + k
      <4>1. j - sa \in 0..(sb - 1) /\ j = sa + (j - sa)
        BY <2>2
      <4> QED BY <4>1
    <3> DEFINE x == k * d + dim
    <3>2. x \in Nat /\ x < Len(b)
      BY <3>1, InRow
    <3> DEFINE y == Len(a) + x + 1
    <3>3. (a \o b)[y] = b[x + 1]
      <4> HIDE DEF x
      <4>1. y \in 1..(Len(a) + Len(b)) /\ ~(y <= Len(a)) /\ y - Len(a) = x + 1
        BY <1>4, <3>2
      <4> HIDE DEF y
      <4>2. (a \o b)[y] = b[y - Len(a)]
        BY <1>3, <4>1
      <4> QED BY <4>1, <4>2
    <3>4. j * d + dim + 1 = y
      <4>1. j * d = sa * d + k * d /\ k * d \in Int /\ sa * d \in Int
        BY <3>1
      <4> QED BY <4>1
    <3>5. (ta \o tb)[j + 1] = tb[k + 1]
      <4>1. j + 1 \in 1..(sa + sb) /\ ~(j + 1 <= sa) /\ j + 1 - sa = k + 1
        BY <3>1
      <4>2. (ta \o tb)[j + 1] = tb[j + 1 - sa]
        BY <1>2, <4>1
      <4> QED BY <4>1, <4>2
    <3>6. b[x + 1][1] # "caller" => Tail(b[x + 1]) = <<tb[k + 1], 0, dim>>
      BY <3>1 DEF InOrder
    <3> HIDE DEF x, y
    <3>7. (a \o b)[y][1] # "caller"
      BY <1>5, <3>4
    <3>8. Tail((a \o b)[y]) = <<(ta \o tb)[j + 1], 0, dim>>
      BY <3>3, <3>5, <3>6, <3>7
    <3> QED BY <3>4, <3>8
  <2>3. j < sa \/ j >= sa
    OBVIOUS
  <2> QED BY <2>1, <2>2, <2>3
<1>6. Len(toks) = sz
  BY <1>2
<1> HIDE DEF c, toks, sz
<1>7. InOrder(c, sz, d, toks)
  BY <1>5, <1>6 DEF InOrder
<1> QED BY <1>7 DEF c, toks, sz

(* What is in order stays in order while its data and its tokens stay. *)
LEMMA StaysInOrder ==
  ASSUME NEW p, NEW toks, SameData(p), PairInOrder(p, toks)
  PROVE  /\ InOrder(mem'[p.key.store], p.key.shape.s, p.key.shape.d, toks)
         /\ InOrder(mem'[p.value.store], p.value.shape.s, p.value.shape.d, toks)
BY SameContents DEF PairInOrder

(* The caller's overwriting of one tensor of its pair breaks no order. *)
LEMMA OverwrittenInOrder ==
  ASSUME CInv, CallerWrite, OneLane(held), NEW toks, PairInOrder(held, toks)
  PROVE  /\ InOrder(mem'[held.key.store], held.key.shape.s, held.key.shape.d, toks)
         /\ InOrder(mem'[held.value.store], held.value.shape.s, held.value.shape.d, toks)
<1>1. held # None
  BY DEF CallerWrite
<1>2. PICK s \in StoresIn(held) :
        mem' = [mem EXCEPT ![s] = [i \in DOMAIN mem[s] |-> <<"caller", 0, 0, 0>>]]
  BY DEF CallerWrite, StoresIn
<1>3. /\ Fits(held.key) /\ Fits(held.value) /\ s \in DOMAIN mem /\ mem[s] \in Seq(Datum)
      /\ held.key.shape \in Shape
  BY <1>1 DEF CInv, IInv, TypeOK, MemFits, PairFits, Fits, StoresIn, Pair, Tensor
<1>4. DOMAIN mem[s] = 1..Len(mem[s]) /\ Len(mem[s]) \in Nat
  BY <1>3, LenProperties
<1>5. \A i \in 1..Len(mem[s]) : mem'[s][i][1] = "caller"
  BY <1>2, <1>3, <1>4
<1>6. \A x : x # s => mem'[x] = mem[x]
  BY <1>2
<1> DEFINE sz == held.key.shape.s
           d == held.key.shape.d
           n == Numel(held.key.shape)
<1>7. sz \in Nat /\ d \in Nat /\ n = sz * d
  BY <1>3, OneLaneNumel DEF OneLane
<1>8. held.value.shape = held.key.shape
  BY DEF OneLane
<1>9. Len(mem[s]) = n
  BY <1>2, <1>3, <1>8 DEF Fits, StoresIn
<1>10. Len(toks) = sz
  BY DEF PairInOrder, InOrder
<1>11. InOrder(mem[held.key.store], sz, d, toks) /\ InOrder(mem[held.value.store], sz, d, toks)
  BY <1>8 DEF PairInOrder, Contents
<1> HIDE DEF sz, d, n
<1>12. InOrder(mem'[s], sz, d, toks)
  <2>1. \A i \in 1..(sz * d) : mem'[s][i][1] = "caller"
    BY <1>5, <1>7, <1>9
  <2> QED BY <1>7, <1>10, <2>1, WrittenInOrder
<1>13. InOrder(mem'[held.key.store], sz, d, toks) /\ InOrder(mem'[held.value.store], sz, d, toks)
  BY <1>6, <1>11, <1>12
<1> QED BY <1>8, <1>13 DEF sz, d

(* One lane behind one lane. *)
LEMMA ExtendedInOrder ==
  ASSUME IInv, OrderInv, NEW n \in Names, NEW new, Extends(n, new), OneLane(new)
  PROVE  /\ InOrder(mem'[new.key.store], new.key.shape.s, new.key.shape.d, history[n] \o HeldTokens)
         /\ InOrder(mem'[new.value.store], new.value.shape.s, new.value.shape.d, history[n] \o HeldTokens)
<1> DEFINE e == entries[n]
           sa == e.key.shape.s
           sb == held.key.shape.s
           d == e.key.shape.d
<1>1. /\ held # None /\ e # None /\ held.value.shape = held.key.shape
      /\ SameLayout(e.key.shape, held.key.shape)
      /\ new.key.shape = [e.key.shape EXCEPT !.s = @ + sb]
      /\ new.value.shape = new.key.shape
  BY DEF Extends
<1>2. /\ Contents(e.key) \in Seq(Datum) /\ Contents(e.value) \in Seq(Datum)
      /\ Len(Contents(e.key)) = Numel(e.key.shape)
      /\ Len(Contents(e.value)) = Numel(e.key.shape)
      /\ e.value.shape = e.key.shape /\ e.key.shape \in Shape
  BY <1>1, EntryContents DEF Pair, Tensor
<1>3. /\ Contents(held.key) \in Seq(Datum) /\ Contents(held.value) \in Seq(Datum)
      /\ Len(Contents(held.key)) = Numel(held.key.shape)
      /\ Len(Contents(held.value)) = Numel(held.key.shape)
      /\ held.key.shape \in Shape
  BY <1>1, HeldContents DEF Pair, Tensor
<1>4. /\ new.key.shape.s = sa + sb /\ new.key.shape.d = d
      /\ new.key.shape.b = e.key.shape.b /\ new.key.shape.h = e.key.shape.h
      /\ held.key.shape.d = d
  BY <1>1, <1>2 DEF SameLayout, Shape
<1>5. Lanes(e.key.shape) = 1 /\ Lanes(held.key.shape) = 1
  <2>1. Lanes(e.key.shape) = Lanes(new.key.shape) /\ Lanes(held.key.shape) = Lanes(new.key.shape)
    BY <1>1, <1>4 DEF Lanes, SameLayout
  <2> QED BY <2>1 DEF OneLane
<1>6. PairInOrder(e, history[n]) /\ PairInOrder(held, HeldTokens)
  BY <1>1, <1>2, <1>5 DEF OrderInv, OneLane
<1>7. /\ sa \in Nat /\ d \in Nat /\ Numel(e.key.shape) = sa * d
      /\ sb \in Nat /\ Numel(held.key.shape) = sb * d
  BY <1>2, <1>3, <1>4, <1>5, OneLaneNumel
<1>8. /\ InOrder(Contents(e.key), sa, d, history[n]) /\ InOrder(Contents(held.key), sb, d, HeldTokens)
      /\ InOrder(Contents(e.value), sa, d, history[n]) /\ InOrder(Contents(held.value), sb, d, HeldTokens)
  BY <1>1, <1>2, <1>4, <1>6 DEF PairInOrder
<1>9. history[n] \in Seq(Nat) /\ HeldTokens \in Seq(Nat)
  BY <1>1, HeldTokensType DEF IInv, TypeOK, TokensOK, Pair, Tensor, Shape
<1>10. /\ mem'[new.key.store] = Contents(e.key) \o Contents(held.key)
       /\ mem'[new.value.store] = Contents(e.value) \o Contents(held.value)
  BY DEF Extends, Contents
<1> HIDE DEF e, sa, sb, d
<1>11. InOrder(Contents(e.key) \o Contents(held.key), sa + sb, d, history[n] \o HeldTokens)
  BY <1>2, <1>3, <1>7, <1>8, <1>9, OrderConcat
<1>12. InOrder(Contents(e.value) \o Contents(held.value), sa + sb, d, history[n] \o HeldTokens)
  BY <1>2, <1>3, <1>7, <1>8, <1>9, OrderConcat
<1> QED BY <1>1, <1>4, <1>10, <1>11, <1>12

LEMMA OrderStep ==
  ASSUME CInv, OrderInv, [Next]_vars
  PROVE  OrderInv'
<1>0. IInv /\ Separate /\ Filled
  BY DEF CInv
<1>a. ASSUME NEW n \in Names, entries'[n] # None, entries'[n] = entries[n], SameData(entries[n]),
             OneLane(entries'[n]), history'[n] = history[n]
      PROVE  PairInOrder(entries[n], history[n])'
  BY <1>a, StaysInOrder DEF OrderInv, PairInOrder, Contents
<1>b. ASSUME held' = held, tokens' = tokens, held # None, OneLane(held), SameData(held)
      PROVE  PairInOrder(held, HeldTokens)'
  <2>1. HeldTokens' = HeldTokens
    BY <1>b DEF HeldTokens
  <2>2. PairInOrder(held, HeldTokens)
    BY <1>b DEF OrderInv
  <2> QED BY <1>b, <2>1, <2>2, StaysInOrder DEF PairInOrder, Contents
<1>c. ASSUME Quiet
      PROVE  OrderInv'
  BY <1>a, <1>b, <1>c DEF Quiet, OrderInv
<1>1. ASSUME NEW in \in Inputs, Produce(in)
      PROVE  OrderInv'
  <2>1. entries' = entries /\ history' = history /\ tokens' = tokens + in.key.s
    BY <1>1 DEF Produce
  <2>2. in.key \in InputShape /\ tokens \in Nat /\ in.key.s \in Nat
    BY <1>0, KVCacheAssumption DEF IInv, TypeOK, InputShape
  <2>3. /\ mem'[held'.key.store] = ContentsOf("K", in.key, tokens)
        /\ mem'[held'.value.store] = ContentsOf("V", in.value, tokens)
        /\ held'.key.shape = in.key /\ held'.value.shape = in.value
    BY <1>0, <1>1, ProduceIsFresh
  <2>4. HeldTokens' = [j \in 1..in.key.s |-> tokens + j - 1]
    BY <2>1, <2>2, <2>3 DEF HeldTokens
  <2>5. ASSUME OneLane(held')
        PROVE  PairInOrder(held, HeldTokens)'
    <3>1. in.value = in.key /\ Lanes(in.key) = 1
      BY <2>3, <2>5 DEF OneLane
    <3>2. InOrder(ContentsOf("K", in.key, tokens), in.key.s, in.key.d, HeldTokens')
      BY <2>2, <2>4, <3>1, ProducedInOrder
    <3>3. InOrder(ContentsOf("V", in.key, tokens), in.key.s, in.key.d, HeldTokens')
      BY <2>2, <2>4, <3>1, ProducedInOrder
    <3> QED BY <2>3, <3>1, <3>2, <3>3 DEF PairInOrder, Contents
  <2> QED BY <1>0, <1>1, <1>a, <2>1, <2>5, ProduceIsFresh DEF OrderInv
<1>2. CASE CallerWrite
  <2>1. UNCHANGED <<entries, held, tokens, history>> /\ held # None
    BY <1>2 DEF CallerWrite
  <2>2. ASSUME OneLane(held)
        PROVE  PairInOrder(held, HeldTokens)'
    <3>1. HeldTokens' = HeldTokens /\ PairInOrder(held, HeldTokens)
      BY <2>1, <2>2 DEF HeldTokens, OrderInv
    <3> QED BY <1>2, <2>1, <2>2, <3>1, OverwrittenInOrder DEF PairInOrder, Contents
  <2>3. ASSUME NEW n \in Names, entries[n] # None, OneLane(entries[n])
        PROVE  PairInOrder(entries[n], history[n])'
    <3>1. CASE entries[n] = held
      <4>1. PairInOrder(held, history[n]) /\ OneLane(held)
        BY <2>3, <3>1 DEF OrderInv
      <4> QED BY <1>2, <2>1, <3>1, <4>1, OverwrittenInOrder DEF PairInOrder, Contents
    <3>2. CASE entries[n] # held
      BY <1>2, <1>a, <2>1, <2>3, <3>2, WrittenAlike
    <3> QED BY <3>1, <3>2
  <2> QED BY <2>1, <2>2, <2>3 DEF OrderInv
<1>3. ASSUME NEW n \in Names, AppendCreates(n)
      PROVE  OrderInv'
  <2>1. /\ held' = held /\ tokens' = tokens /\ mem' = mem /\ held # None
        /\ \A m \in Names : entries'[m] = IF m = n THEN held ELSE entries[m]
        /\ \A m \in Names : history'[m] = IF m = n THEN HeldTokens ELSE history[m]
    BY <1>0, <1>3 DEF AppendCreates, IInv, TypeOK
  <2>2. HeldTokens' = HeldTokens
    BY <2>1 DEF HeldTokens
  <2>3. \A p : SameData(p)
    BY <2>1 DEF SameData
  <2>4. OneLane(held) => PairInOrder(held, HeldTokens)'
    BY <1>b, <2>1, <2>3
  <2>5. ASSUME NEW m \in Names, entries'[m] # None, OneLane(entries'[m])
        PROVE  PairInOrder(entries[m], history[m])'
    <3>1. CASE m = n
      BY <2>1, <2>2, <2>4, <2>5, <3>1 DEF PairInOrder
    <3>2. CASE m # n
      BY <1>a, <2>1, <2>3, <2>5, <3>2
    <3> QED BY <3>1, <3>2
  <2> QED BY <2>1, <2>4, <2>5 DEF OrderInv
<1>4. ASSUME NEW n \in Names, NEW new, Extends(n, new)
      PROVE  OrderInv'
  <2>1. /\ held' = held /\ tokens' = tokens /\ held # None /\ SameData(held)
        /\ \A m \in Names : entries'[m] = IF m = n THEN new ELSE entries[m]
        /\ \A m \in Names : history'[m] = IF m = n THEN history[n] \o HeldTokens ELSE history[m]
    BY <1>0, <1>4 DEF Extends, IInv, TypeOK
  <2>2. OneLane(held) => PairInOrder(held, HeldTokens)'
    BY <1>b, <2>1
  <2>3. OneLane(new) => PairInOrder(entries[n], history[n])'
    BY <1>0, <1>4, <2>1, ExtendedInOrder DEF PairInOrder, Contents
  <2>4. ASSUME NEW m \in Names, entries'[m] # None, OneLane(entries'[m])
        PROVE  PairInOrder(entries[m], history[m])'
    <3>1. CASE m = n
      BY <2>1, <2>3, <2>4, <3>1
    <3>2. CASE m # n
      BY <1>4, <1>a, <2>1, <2>4, <3>2 DEF Extends
    <3> QED BY <3>1, <3>2
  <2> QED BY <2>1, <2>2, <2>4 DEF OrderInv
<1>5. CASE Clear
  <2>1. /\ held' = held /\ tokens' = tokens /\ mem' = Keep(HeldPairs)
        /\ entries' = [n \in Names |-> None]
    BY <1>5 DEF Clear
  <2>2. held # None => SameData(held)
    BY <2>1, KeptIsSame DEF HeldPairs
  <2> QED BY <1>b, <2>1, <2>2 DEF OrderInv
<1>6. CASE \/ \E n \in Names : AppendRejects(n) \/ AppendGrows(n)
           \/ Alloc \/ Copy \/ PhaseThrows \/ UNCHANGED vars
  BY <1>0, <1>6, <1>c, QuietSteps
<1>7. CASE Assign
  BY <1>0, <1>4, <1>7, AssignExtends
<1> QED BY <1>1, <1>2, <1>3, <1>5, <1>6, <1>7 DEF Next

(* With one batch row and one head, an entry holds the tokens in the order *)
(* they were appended, whichever appends failed in between.                *)
THEOREM SingleLanesInOrder == Spec => []SingleLaneInOrder
<1>1. Init => OrderInv
  BY DEF Init, OrderInv
<1>2. CInv /\ OrderInv /\ [Next]_vars => OrderInv'
  BY OrderStep
<1>3. CInv /\ OrderInv => SingleLaneInOrder
  <2> SUFFICES ASSUME CInv, OrderInv,
                      NEW n \in Names, entries[n] # None, Lanes(entries[n].key.shape) = 1
               PROVE  InSequenceOrder(n)
    BY DEF SingleLaneInOrder
  <2>1. entries[n].value.shape = entries[n].key.shape /\ entries[n].key.shape \in Shape
    BY EntryContents DEF CInv, Pair, Tensor
  <2>2. PairInOrder(entries[n], history[n])
    BY <2>1 DEF OrderInv, OneLane
  <2>3. Holds(entries[n].key, history[n])
    BY <2>1, <2>2, HoldsOneLane DEF PairInOrder
  <2>4. Holds(entries[n].value, history[n])
    BY <2>1, <2>2, HoldsOneLane DEF PairInOrder
  <2> QED BY <2>3, <2>4 DEF InSequenceOrder
<1> QED BY <1>1, <1>2, <1>3, ContentsInductive, PTL DEF Spec

=============================================================================
