--------------------------- MODULE Weights_proofs ---------------------------
(* Proofs about Weights: the loader stays inside the data file, and what   *)
(* it returns from files nobody is writing is what was added to them.      *)
EXTENDS Weights, SequenceTheorems, TLAPS

(* A manifest locates every tensor of `content` in the buffer. *)
Locates(m, buffer, content) ==
  /\ DOMAIN m = DOMAIN content
  /\ \A n \in DOMAIN content :
       /\ m[n].offset \in Nat
       /\ m[n].nbytes = Len(content[n])
       /\ m[n].offset + Len(content[n]) <= Len(buffer)
       /\ \A i \in 1..Len(content[n]) : content[n][i] = buffer[m[n].offset + i]

StartOf(s, t) == Len(s) <= Len(t) /\ \A i \in 1..Len(s) : s[i] = t[i]

(* The exporter's tensors are packed, and its data file is what it has     *)
(* flushed of them.                                                        *)
Packed == Locates(tensors, payload, added) /\ Len(payload) <= MaxBytes
Flushed ==
  /\ writer = "data" => data \in Seq(Byte) /\ StartOf(data, payload)
  /\ writer = "manifest" => data = payload

(* Files that are whole are not being written and belong together. *)
WholeFiles ==
  whole => /\ writer \in {"adding", "done"}
           /\ data \in Seq(Byte)
           /\ Locates(manifest, data, saved)

(* A load of whole files has read nothing else. *)
SteadyLoad ==
  /\ loader = "manifest" => bytes = << >>
  /\ steady => /\ whole
               /\ loader = "data" => parsed = manifest /\ StartOf(bytes, data)
               /\ loader = "returned" => loaded = saved

FilesInv == TypeOK /\ Packed /\ Flushed /\ WholeFiles /\ SteadyLoad

-----------------------------------------------------------------------------
(* Helpers *)

(* What With does to a partial map. *)
LEMMA WithTyped ==
  ASSUME NEW S, NEW f, NamedBy(f, S), NEW n \in Names, NEW v \in S
  PROVE  /\ NamedBy(With(f, n, v), S)
         /\ DOMAIN With(f, n, v) = DOMAIN f \union {n}
         /\ \A m \in DOMAIN With(f, n, v) : With(f, n, v)[m] = IF m = n THEN v ELSE f[m]
BY DEF NamedBy, With

LEMMA EmptyTyped == ASSUME NEW S PROVE NamedBy(Empty, S) /\ DOMAIN Empty = {}
BY DEF NamedBy, Empty

(* The bytes of a new tensor are typed and as many as asked for. *)
LEMMA FreshTyped ==
  ASSUME TypeOK, NEW size \in Nat
  PROVE  Fresh(size) \in Seq(Byte) /\ Len(Fresh(size)) = size
<1>1. Len(payload) \in Nat /\ exports \in Nat \ {0}
  BY LenProperties DEF TypeOK
<1>2. \A i \in 1..size : <<exports, Len(payload), i>> \in Byte
  BY <1>1 DEF Byte
<1>3. Fresh(size) \in [1..size -> Byte]
  BY <1>2 DEF Fresh
<1>4. Fresh(size) \in Seq(Byte)
  BY <1>3, SeqDef
<1> QED BY <1>3, <1>4, LenProperties

(* The range check of loadWeights() is exact: with signed integers cast to *)
(* an unsigned width and no sum formed, it accepts just the ranges that    *)
(* lie inside the buffer.                                                  *)
LEMMA RangeCheckExact ==
  ASSUME NEW off \in Word, NEW nbytes \in Word, NEW size \in Nat, size < Half
  PROVE  InRange(ToSize(off), ToSize(nbytes), size)
           <=> off >= 0 /\ nbytes >= 0 /\ off + nbytes <= size
BY WeightsAssumption DEF Word, ToSize, InRange

-----------------------------------------------------------------------------
(* One lemma per action that the invariant notices *)

LEMMA FilesInit == Init => FilesInv
<1> SUFFICES ASSUME Init PROVE FilesInv
  OBVIOUS
<1>1. << >> \in Seq(Byte) /\ Len(<< >>) = 0
  BY EmptySeq
<1>2. TypeOK
  <2>1. NamedBy(Empty, Entry) /\ NamedBy(Empty, Seq(Byte))
    BY EmptyTyped
  <2>2. IsManifest(tensors) /\ IsManifest(parsed)
    BY <2>1 DEF Init, IsManifest
  <2>3. NamedBy(added, Seq(Byte)) /\ NamedBy(saved, Seq(Byte))
    BY <2>1 DEF Init
  <2>4. payload \in Seq(Byte) /\ bytes \in Seq(Byte) /\ offset = Len(payload)
    BY <1>1 DEF Init
  <2>5. whole \in BOOLEAN /\ steady \in BOOLEAN
    BY Zenon DEF Init
  <2>6. exports \in Nat \ {0}
    BY DEF Init
  <2>7. data \in Seq(Byte) \union {None}
    BY DEF Init
  <2>8. manifest \in {None, Torn} \/ IsManifest(manifest)
    BY DEF Init
  <2>9. writer = "adding" /\ loader = "idle"
    BY DEF Init
  <2> QED BY <2>2, <2>3, <2>4, <2>5, <2>6, <2>7, <2>8, <2>9 DEF TypeOK
<1>3. Packed
  BY <1>1, EmptyTyped, WeightsAssumption DEF Init, Packed, Locates
<1>4. Flushed /\ WholeFiles /\ SteadyLoad
  BY DEF Init, Flushed, WholeFiles, SteadyLoad
<1> QED BY <1>2, <1>3, <1>4 DEF FilesInv

(* A tensor that is added is packed behind the others. *)
LEMMA AddKeeps ==
  ASSUME FilesInv, NEW n \in Names, NEW size \in Sizes, Add(n, size)
  PROVE  FilesInv'
<1> DEFINE e == [offset |-> offset, nbytes |-> size, expected |-> size]
           new == Fresh(size)
<1>1. TypeOK /\ Packed /\ size \in Nat /\ payload \in Seq(Byte)
  BY WeightsAssumption DEF FilesInv, TypeOK
<1>2. new \in Seq(Byte) /\ Len(new) = size
  BY <1>1, FreshTyped
<1>3. Len(payload) \in Nat /\ offset = Len(payload)
  BY <1>1, LenProperties DEF TypeOK
<1>4. Len(payload) + size <= MaxBytes /\ MaxBytes \in Nat /\ Half \in Nat /\ MaxBytes < Half
  BY WeightsAssumption DEF Add
<1>5. e \in Entry
  BY <1>1, <1>3, <1>4 DEF Entry, Word
<1>6. /\ payload' \in Seq(Byte)
      /\ Len(payload') = Len(payload) + size
      /\ \A i \in 1..(Len(payload) + size) :
           payload'[i] = IF i <= Len(payload) THEN payload[i] ELSE new[i - Len(payload)]
  BY <1>1, <1>2, ConcatProperties DEF Add
<1>7. /\ IsManifest(tensors')
      /\ DOMAIN tensors' = DOMAIN tensors \union {n}
      /\ \A m \in DOMAIN tensors' : tensors'[m] = IF m = n THEN e ELSE tensors[m]
  <2>1. NamedBy(tensors, Entry) /\ tensors' = With(tensors, n, e)
    BY <1>1 DEF TypeOK, IsManifest, Add
  <2> QED BY <2>1, <1>5, WithTyped DEF IsManifest, NamedBy, With
<1>8. /\ NamedBy(added', Seq(Byte))
      /\ DOMAIN added' = DOMAIN added \union {n}
      /\ \A m \in DOMAIN added' : added'[m] = IF m = n THEN new ELSE added[m]
  <2>1. NamedBy(added, Seq(Byte)) /\ added' = With(added, n, new)
    BY <1>1 DEF TypeOK, Add
  <2> HIDE DEF new
  <2> QED BY <2>1, <1>2, WithTyped DEF NamedBy, With
<1>9. TypeOK'
  BY <1>1, <1>3, <1>6, <1>7, <1>8 DEF TypeOK, Add, diskVars, loaderVars
<1>10. Packed'
  <2>1. DOMAIN tensors' = DOMAIN added'
    BY <1>1, <1>7, <1>8 DEF Packed, Locates
  <2>2. ASSUME NEW m \in DOMAIN added'
        PROVE  /\ tensors'[m].offset \in Nat
               /\ tensors'[m].nbytes = Len(added'[m])
               /\ tensors'[m].offset + Len(added'[m]) <= Len(payload')
               /\ \A i \in 1..Len(added'[m]) :
                    added'[m][i] = payload'[tensors'[m].offset + i]
    <3>1. CASE m = n
      <4>1. tensors'[m] = e /\ added'[m] = new
        BY <2>1, <2>2, <3>1, <1>7, <1>8
      <4> QED BY <4>1, <1>1, <1>2, <1>3, <1>6
    <3>2. CASE m # n
      <4>1. m \in DOMAIN added /\ tensors'[m] = tensors[m] /\ added'[m] = added[m]
        BY <2>1, <2>2, <3>2, <1>7, <1>8
      <4>2. /\ tensors[m].offset \in Nat
            /\ tensors[m].nbytes = Len(added[m])
            /\ tensors[m].offset + Len(added[m]) <= Len(payload)
            /\ \A i \in 1..Len(added[m]) : added[m][i] = payload[tensors[m].offset + i]
        BY <4>1, <1>1 DEF Packed, Locates
      <4>3. Len(added[m]) \in Nat
        BY <4>1, <1>1, LenProperties DEF TypeOK, NamedBy
      <4>4. \A i \in 1..Len(added[m]) :
              tensors[m].offset + i \in 1..Len(payload)
        BY <4>2, <4>3, <1>3
      <4>5. \A i \in 1..Len(payload) : payload'[i] = payload[i]
        BY <1>1, <1>3, <1>6
      <4>6. Len(payload) <= Len(payload')
        BY <1>1, <1>3, <1>6
      <4> HIDE DEF new
      <4> QED BY <4>1, <4>2, <4>3, <4>4, <4>5, <4>6, <1>3, <1>6
    <3> QED BY <3>1, <3>2
  <2> QED BY <2>1, <2>2, <1>4, <1>6 DEF Packed, Locates, Add
<1>11. Flushed' /\ WholeFiles' /\ SteadyLoad'
  BY DEF FilesInv, Flushed, WholeFiles, SteadyLoad, Locates, StartOf, Add, diskVars, loaderVars
<1> QED BY <1>9, <1>10, <1>11 DEF FilesInv

(* The data file only ever holds a beginning of what was added. *)
LEMMA FlushKeeps == FilesInv /\ FlushData => FilesInv'
<1> SUFFICES ASSUME FilesInv, FlushData PROVE FilesInv'
  OBVIOUS
<1>1. TypeOK /\ Packed /\ ~whole /\ ~steady /\ data \in Seq(Byte) /\ payload \in Seq(Byte)
  BY DEF FilesInv, TypeOK, Flushed, WholeFiles, SteadyLoad, FlushData
<1>2. PICK k \in Len(data)..Len(payload) : k > Len(data) /\ data' = SubSeq(payload, 1, k)
  BY DEF FlushData
<1>3. Len(data) \in Nat /\ Len(payload) \in Nat /\ k \in 1..Len(payload)
  BY <1>1, <1>2, LenProperties
<1>4. \A i \in 1..k : payload[i] \in Byte
  BY <1>1, <1>3, ElementOfSeq
<1>5. data' \in Seq(Byte) /\ Len(data') = k /\ \A i \in 1..k : data'[i] = payload[i]
  BY <1>2, <1>3, <1>4, SubSeqProperties
<1>6. TypeOK'
  BY <1>1, <1>5 DEF TypeOK, FlushData, writerVars, loaderVars
<1>7. Packed' /\ SteadyLoad' /\ WholeFiles'
  BY <1>1 DEF FilesInv, Packed, SteadyLoad, WholeFiles, FlushData, writerVars, loaderVars
<1>8. Flushed'
  BY <1>3, <1>5 DEF Flushed, StartOf, FlushData, writerVars
<1> QED BY <1>6, <1>7, <1>8 DEF FilesInv

(* The other steps of an exporter.  The data file is complete before the   *)
(* manifest is written.                                                    *)
LEMMA ExporterKeeps ==
  FilesInv /\ (OpenData \/ OpenManifest \/ WriteManifest \/ NextExport \/ ForeignManifest)
    => FilesInv'
<1> SUFFICES ASSUME FilesInv,
                    OpenData \/ OpenManifest \/ WriteManifest \/ NextExport \/ ForeignManifest
             PROVE  FilesInv'
  OBVIOUS
<1> USE DEF writerVars, diskVars, loaderVars
<1>1. CASE OpenData
  <2>1. TypeOK'
    BY <1>1, EmptySeq DEF FilesInv, TypeOK, OpenData
  <2>2. Packed' /\ WholeFiles' /\ SteadyLoad'
    BY <1>1 DEF FilesInv, Packed, WholeFiles, SteadyLoad, OpenData
  <2>3. Flushed'
    <3>1. << >> \in Seq(Byte) /\ Len(<< >>) = 0 /\ Len(payload) \in Nat
      BY EmptySeq, LenProperties DEF FilesInv, TypeOK
    <3> QED BY <1>1, <3>1 DEF Flushed, StartOf, OpenData
  <2> QED BY <2>1, <2>2, <2>3 DEF FilesInv
<1>2. CASE OpenManifest
  <2>1. TypeOK'
    BY <1>2 DEF FilesInv, TypeOK, OpenManifest
  <2>2. ~whole
    BY <1>2 DEF FilesInv, WholeFiles, OpenManifest
  <2>3. Packed' /\ Flushed' /\ WholeFiles' /\ SteadyLoad'
    BY <1>2, <2>2 DEF FilesInv, Packed, Flushed, WholeFiles, SteadyLoad, OpenManifest
  <2> QED BY <2>1, <2>3 DEF FilesInv
<1>3. CASE WriteManifest
  <2>1. ~steady /\ data = payload
    BY <1>3 DEF FilesInv, WholeFiles, SteadyLoad, Flushed, WriteManifest
  <2>2. TypeOK'
    BY <1>3 DEF FilesInv, TypeOK, WriteManifest
  <2>3. Packed' /\ Flushed' /\ SteadyLoad'
    BY <1>3, <2>1 DEF FilesInv, Packed, Flushed, SteadyLoad, WriteManifest
  <2>4. WholeFiles'
    BY <1>3, <2>1 DEF FilesInv, TypeOK, Packed, WholeFiles, WriteManifest
  <2> QED BY <2>2, <2>3, <2>4 DEF FilesInv
<1>4. CASE NextExport
  <2>1. << >> \in Seq(Byte) /\ Len(<< >>) = 0
    BY EmptySeq
  <2>2. TypeOK'
    <3>1. IsManifest(tensors')
      BY <1>4, EmptyTyped DEF NextExport, IsManifest
    <3>2. NamedBy(added', Seq(Byte))
      BY <1>4, EmptyTyped DEF NextExport
    <3>3. exports' \in Nat \ {0}
      BY <1>4 DEF FilesInv, TypeOK, NextExport
    <3> QED BY <1>4, <2>1, <3>1, <3>2, <3>3 DEF FilesInv, TypeOK, NextExport
  <2>3. Packed'
    BY <1>4, <2>1, EmptyTyped, WeightsAssumption DEF Packed, Locates, NextExport
  <2>4. Flushed' /\ WholeFiles' /\ SteadyLoad'
    BY <1>4 DEF FilesInv, Flushed, WholeFiles, SteadyLoad, NextExport
  <2> QED BY <2>2, <2>3, <2>4 DEF FilesInv
<1>5. CASE ForeignManifest
  <2>1. TypeOK'
    BY <1>5, WeightsAssumption DEF FilesInv, TypeOK, ForeignManifest
  <2>2. Packed' /\ Flushed' /\ WholeFiles' /\ SteadyLoad'
    BY <1>5 DEF FilesInv, Packed, Flushed, WholeFiles, SteadyLoad, ForeignManifest
  <2> QED BY <2>1, <2>2 DEF FilesInv
<1> QED BY <1>1, <1>2, <1>3, <1>4, <1>5

(* A block extends what is already a beginning of the data file. *)
LEMMA ReadBlockKeeps == FilesInv /\ ReadBlock => FilesInv'
<1> SUFFICES ASSUME FilesInv, ReadBlock PROVE FilesInv'
  OBVIOUS
<1>1. TypeOK /\ data \in Seq(Byte) /\ bytes \in Seq(Byte)
  BY DEF FilesInv, TypeOK, ReadBlock
<1>2. PICK k \in Len(bytes)..Len(data) :
        k > Len(bytes) /\ bytes' = bytes \o SubSeq(data, Len(bytes) + 1, k)
  BY DEF ReadBlock
<1> DEFINE l == Len(bytes)
           block == SubSeq(data, l + 1, k)
<1>3. l \in Nat /\ Len(data) \in Nat /\ k \in Nat /\ l < k /\ k <= Len(data)
  BY <1>1, <1>2, LenProperties
<1>4. \A i \in (l + 1)..k : data[i] \in Byte
  BY <1>1, <1>3, ElementOfSeq
<1>5. block \in Seq(Byte) /\ Len(block) = k - l /\ \A i \in 1..(k - l) : block[i] = data[l + i]
  <2>1. /\ block \in Seq(Byte)
        /\ Len(block) = IF l + 1 <= k THEN k - (l + 1) + 1 ELSE 0
        /\ \A i \in 1..(k - (l + 1) + 1) : block[i] = data[l + 1 + i - 1]
    BY <1>3, <1>4, SubSeqProperties
  <2> QED BY <1>3, <2>1
<1>6. /\ bytes' \in Seq(Byte)
      /\ Len(bytes') = k
      /\ \A i \in 1..k : bytes'[i] = IF i <= l THEN bytes[i] ELSE block[i - l]
  <2>1. /\ bytes' \in Seq(Byte)
        /\ Len(bytes') = l + Len(block)
        /\ \A i \in 1..(l + Len(block)) : bytes'[i] = IF i <= l THEN bytes[i] ELSE block[i - l]
    BY <1>1, <1>2, <1>5, ConcatProperties
  <2>2. l + Len(block) = k
    BY <1>3, <1>5
  <2> HIDE DEF l, block
  <2> QED BY <2>1, <2>2
<1>7. TypeOK'
  BY <1>1, <1>6 DEF TypeOK, ReadBlock, writerVars, diskVars
<1>8. Packed' /\ Flushed' /\ WholeFiles'
  BY DEF FilesInv, Packed, Flushed, WholeFiles, ReadBlock, writerVars, diskVars
<1>9. SteadyLoad'
  <2>1. SUFFICES ASSUME steady PROVE StartOf(bytes', data)
    BY DEF FilesInv, SteadyLoad, ReadBlock, diskVars
  <2>2. StartOf(bytes, data)
    BY <2>1 DEF FilesInv, SteadyLoad, ReadBlock
  <2>3. ASSUME NEW i \in 1..k PROVE bytes'[i] = data[i]
    <3>1. CASE i <= l
      <4>1. i \in 1..l
        BY <3>1, <2>3, <1>3
      <4> QED BY <3>1, <4>1, <2>2, <1>6 DEF StartOf
    <3>2. CASE ~(i <= l)
      <4>1. i - l \in 1..(k - l) /\ l + (i - l) = i
        BY <3>2, <2>3, <1>3
      <4> HIDE DEF block, l
      <4> QED BY <3>2, <4>1, <2>3, <1>5, <1>6
    <3> QED BY <3>1, <3>2
  <2> QED BY <2>3, <1>3, <1>6 DEF StartOf
<1> QED BY <1>7, <1>8, <1>9 DEF FilesInv

(* A load that returns whole files' tensors returns what was added. *)
LEMMA ReturnsKeeps == FilesInv /\ Returns => FilesInv'
<1> SUFFICES ASSUME FilesInv, Returns PROVE FilesInv'
  OBVIOUS
<1>1. TypeOK' /\ Packed' /\ Flushed' /\ WholeFiles'
  BY DEF FilesInv, TypeOK, Packed, Flushed, WholeFiles, Returns, writerVars, diskVars
<1>2. SteadyLoad'
  <2> SUFFICES ASSUME steady PROVE loaded' = saved
    BY DEF FilesInv, SteadyLoad, Returns, diskVars
  <2>1. /\ parsed = manifest
        /\ StartOf(bytes, data)
        /\ data \in Seq(Byte)
        /\ Locates(manifest, data, saved)
        /\ whole
    BY DEF FilesInv, SteadyLoad, WholeFiles, Returns, AtEnd
  <2>2. bytes \in Seq(Byte) /\ Len(bytes) \in Nat /\ Len(data) \in Nat /\ Len(bytes) >= Len(data)
    BY <2>1, LenProperties DEF FilesInv, TypeOK, Returns, AtEnd
  <2>3. bytes = data
    BY <2>1, <2>2, SeqEqual DEF StartOf
  <2>4. saved \in [DOMAIN saved -> Seq(Byte)] /\ DOMAIN manifest = DOMAIN saved
    BY <2>1 DEF FilesInv, TypeOK, NamedBy, Locates
  <2>5. ASSUME NEW n \in DOMAIN saved
        PROVE  Slice(bytes, ToSize(parsed[n].offset), ToSize(parsed[n].nbytes)) = saved[n]
    <3> DEFINE off == manifest[n].offset
               len == Len(saved[n])
    <3>1. /\ off \in Nat
          /\ manifest[n].nbytes = len
          /\ off + len <= Len(data)
          /\ \A i \in 1..len : saved[n][i] = data[off + i]
      BY <2>1 DEF Locates
    <3>2. saved[n] \in Seq(Byte) /\ len \in Nat /\ saved[n] \in [1..len -> Byte]
      BY <2>4, LenProperties
    <3>3. ToSize(off) = off /\ ToSize(len) = len
      BY <3>1, <3>2 DEF ToSize
    <3>4. \A i \in 1..len : off + i \in 1..Len(data)
      BY <3>1, <3>2, <2>2
    <3>5. Slice(bytes, off, len) = [i \in 1..len |-> saved[n][i]]
      BY <2>3, <3>1, <3>4 DEF Slice
    <3> HIDE DEF off, len
    <3>6. [i \in 1..len |-> saved[n][i]] = saved[n]
      BY <3>2
    <3> QED BY <2>1, <3>1, <3>3, <3>5, <3>6 DEF off
  <2> QED BY <2>1, <2>4, <2>5 DEF Returns
<1> QED BY <1>1, <1>2 DEF FilesInv

(* The other steps of a load. *)
LEMMA LoaderKeeps ==
  FilesInv /\ (Load \/ NoManifest \/ ReadManifest \/ NoData \/ Rejects) => FilesInv'
<1> SUFFICES ASSUME FilesInv, Load \/ NoManifest \/ ReadManifest \/ NoData \/ Rejects
             PROVE  FilesInv'
  OBVIOUS
<1> USE DEF writerVars, diskVars
<1>1. CASE Load
  <2>1. TypeOK'
    <3>1. IsManifest(parsed') /\ bytes' \in Seq(Byte)
      BY <1>1, EmptyTyped, EmptySeq DEF Load, IsManifest
    <3>2. steady' \in BOOLEAN
      BY <1>1 DEF Load, FilesInv, TypeOK
    <3> QED BY <1>1, <3>1, <3>2 DEF FilesInv, TypeOK, Load
  <2>2. Packed' /\ Flushed' /\ WholeFiles' /\ SteadyLoad'
    BY <1>1 DEF FilesInv, Packed, Flushed, WholeFiles, SteadyLoad, Load
  <2> QED BY <2>1, <2>2 DEF FilesInv
<1>2. CASE ReadManifest
  <2>1. TypeOK'
    BY <1>2 DEF FilesInv, TypeOK, ReadManifest
  <2>2. Packed' /\ Flushed' /\ WholeFiles'
    BY <1>2 DEF FilesInv, Packed, Flushed, WholeFiles, ReadManifest
  <2>3. SteadyLoad'
    <3>1. steady => StartOf(<< >>, data)
      <4>1. steady => Len(data) \in Nat
        BY LenProperties DEF FilesInv, SteadyLoad, WholeFiles
      <4> QED BY <4>1, EmptySeq DEF StartOf
    <3> QED BY <1>2, <3>1 DEF FilesInv, SteadyLoad, ReadManifest
  <2> QED BY <2>1, <2>2, <2>3 DEF FilesInv
<1>3. CASE NoManifest \/ NoData \/ Rejects
  <2>1. Fails
    BY <1>3 DEF NoManifest, NoData, Rejects
  <2>2. TypeOK'
    BY <2>1 DEF FilesInv, TypeOK, Fails
  <2>3. Packed' /\ Flushed' /\ WholeFiles' /\ SteadyLoad'
    BY <2>1 DEF FilesInv, Packed, Flushed, WholeFiles, SteadyLoad, Fails
  <2> QED BY <2>2, <2>3 DEF FilesInv
<1> QED BY <1>1, <1>2, <1>3

-----------------------------------------------------------------------------
(* Theorems *)

LEMMA FilesStep == FilesInv /\ [Next]_vars => FilesInv'
<1> SUFFICES ASSUME FilesInv, [Next]_vars PROVE FilesInv'
  OBVIOUS
<1>1. CASE UNCHANGED vars
  BY <1>1 DEF FilesInv, TypeOK, Packed, Flushed, WholeFiles, SteadyLoad,
              vars, writerVars, diskVars, loaderVars
<1>2. CASE Next
  BY <1>2, AddKeeps, FlushKeeps, ExporterKeeps, ReadBlockKeeps, ReturnsKeeps, LoaderKeeps DEF Next
<1> QED BY <1>1, <1>2

(* The exporter's and the loader's states are well typed: the offsets a    *)
(* manifest gets are those of the bytes, and blocks make up sequences.     *)
THEOREM FilesTyped == Spec => []TypeOK
<1>1. FilesInv => TypeOK
  BY DEF FilesInv
<1> QED BY <1>1, FilesInit, FilesStep, PTL DEF Spec

(* A load of files that are whole and stay so returns exactly what the     *)
(* last export to finish has added, for any tensors and any interleaving   *)
(* of its reads with an exporter that is still collecting tensors.         *)
THEOREM LoadsAreFaithful == Spec => []LoadsWhatWasAdded
<1>1. FilesInv => LoadsWhatWasAdded
  BY DEF FilesInv, SteadyLoad, LoadsWhatWasAdded
<1> QED BY <1>1, FilesInit, FilesStep, PTL DEF Spec

(* What loadWeights() copies is inside the buffer, for any integers a      *)
(* manifest may hold and any part of the data file it may get to see.      *)
THEOREM CopiesAreInside == Spec => []ReadsInside
<1>1. Init => ReadsInside
  BY EmptyTyped DEF Init, ReadsInside
<1>2. TypeOK /\ ReadsInside /\ [Next]_vars => ReadsInside'
  <2> SUFFICES ASSUME TypeOK, ReadsInside, [Next]_vars PROVE ReadsInside'
    OBVIOUS
  <2>1. CASE Returns
    <3> SUFFICES ASSUME NEW n \in DOMAIN loaded', NEW i \in DOMAIN loaded'[n]
                 PROVE  loaded'[n][i] # Junk
      BY DEF ReadsInside
    <3> DEFINE off == ToSize(parsed[n].offset)
               len == ToSize(parsed[n].nbytes)
    <3>1. loaded'[n] = Slice(bytes, off, len) /\ n \in DOMAIN parsed /\ i \in 1..len
      BY <2>1 DEF Returns, Slice
    <3>2. off \in Nat /\ len \in Nat
      BY <3>1, WeightsAssumption DEF TypeOK, IsManifest, NamedBy, Entry, Word, ToSize
    <3>3. bytes \in Seq(Byte) /\ Len(bytes) \in Nat
      BY LenProperties DEF TypeOK
    <3>4. off <= Len(bytes) /\ len <= Len(bytes) - off
      BY <2>1, <3>1 DEF Returns, Accepts, InRange
    <3> HIDE DEF off, len
    <3>5. off + i \in 1..Len(bytes)
      BY <3>1, <3>2, <3>3, <3>4
    <3>6. loaded'[n][i] = bytes[off + i] /\ bytes[off + i] \in Byte
      BY <3>1, <3>3, <3>5, ElementOfSeq DEF Slice
    <3> QED BY <3>6 DEF Byte, Junk
  <2>2. CASE loaded' = loaded
    BY <2>2 DEF ReadsInside
  <2>3. CASE loaded' = Empty
    BY <2>3, EmptyTyped DEF ReadsInside
  <2> QED BY <2>1, <2>2, <2>3
        DEF Next, vars, loaderVars, Add, OpenData, FlushData, OpenManifest, WriteManifest,
            NextExport, ForeignManifest, Load, NoManifest, ReadManifest, NoData, ReadBlock,
            Rejects, Fails
<1> QED BY <1>1, <1>2, FilesTyped, PTL DEF Spec
=============================================================================
