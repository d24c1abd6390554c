------------------------------ MODULE Weights ------------------------------
(***************************************************************************)
(* Model weights on disk: WeightWriter (python/dli_export/weights.py)      *)
(* writes a data file and then a manifest under fixed names, and           *)
(* dli::loadWeights (src/weights.cc) reads the manifest and then the data. *)
(*                                                                         *)
(* The exporter may die at any point and be started again over the same    *)
(* directory, and a loader may be at work meanwhile: neither file is       *)
(* replaced atomically and nothing locks them.  A manifest may also come   *)
(* from elsewhere; its integers are signed, the loader's sizes are not.    *)
(* A cell of the data file is one byte, tagged with the tensor it is of.   *)
(***************************************************************************)
EXTENDS Integers, Sequences

CONSTANTS
  Names,       \* tensor names
  Sizes,       \* byte counts of the tensors that are added
  Foreign,     \* manifests that no exporter has written
  Half,        \* 2^63: integers are -Half..Half-1, size_t is 0..2*Half-1
  MaxBytes,    \* bound: bytes of one export
  MaxExports,  \* bound: exporter processes
  Torn,        \* a manifest that is cut short
  None         \* no file

Word == (0 - Half)..(Half - 1)
Byte == (Nat \ {0}) \X Nat \X Nat
Junk == <<0, 0, 0>>  \* memory outside the buffer

(* A tensor's line in the manifest; `expected` is what dtype and shape ask *)
(* for.                                                                    *)
Entry == [offset: Word, nbytes: Word, expected: Nat]
NamedBy(m, S) == DOMAIN m \subseteq Names /\ m \in [DOMAIN m -> S]
IsManifest(m) == NamedBy(m, Entry)

ASSUME WeightsAssumption ==
  /\ Half \in Nat /\ MaxBytes \in Nat /\ MaxExports \in Nat
  /\ MaxBytes < Half
  /\ Sizes \subseteq Nat
  /\ \A m \in Foreign : IsManifest(m)

VARIABLES
  tensors,   \* WeightWriter.tensors
  payload,   \* WeightWriter.payloads, joined
  offset,    \* WeightWriter.offset
  added,     \* per name: the bytes added last
  writer,    \* where the exporter is
  data,      \* the data file, or None
  manifest,  \* the manifest: parsed, Torn, or None
  saved,     \* what the last export to finish has added
  whole,     \* both files are those of the last export to finish
  loader,    \* where loadWeights() is
  parsed,    \* its manifest
  bytes,     \* what it has read of the data file
  loaded,    \* its result
  steady,    \* the files have been whole since it started
  exports    \* exporter processes

writerVars == <<tensors, payload, offset, added>>
diskVars == <<data, manifest, saved, whole>>
loaderVars == <<loader, parsed, bytes, loaded>>
vars == <<writerVars, writer, diskVars, loaderVars, steady, exports>>

Empty == [n \in {} |-> 0]
With(f, n, v) == [m \in DOMAIN f \union {n} |-> IF m = n THEN v ELSE f[m]]

-----------------------------------------------------------------------------
(* The exporter *)

(* The bytes of the tensor that is added next. *)
Fresh(size) == [i \in 1..size |-> <<exports, Len(payload), i>>]

(* add(name, tensor): a name that was there before gets a new line. *)
Add(n, size) ==
  /\ writer = "adding"
  /\ Len(payload) + size <= MaxBytes
  /\ tensors' = With(tensors, n, [offset |-> offset, nbytes |-> size, expected |-> size])
  /\ offset' = offset + size
  /\ payload' = payload \o Fresh(size)
  /\ added' = With(added, n, Fresh(size))
  /\ UNCHANGED <<writer, diskVars, loaderVars, steady, exports>>

(* write() opens the data file, which empties it. *)
OpenData ==
  /\ writer = "adding"
  /\ writer' = "data"
  /\ data' = << >>
  /\ whole' = FALSE
  /\ steady' = FALSE
  /\ UNCHANGED <<writerVars, manifest, saved, loaderVars, exports>>

(* The buffered writes reach the file in pieces of any size. *)
FlushData ==
  /\ writer = "data"
  /\ \E k \in Len(data)..Len(payload) : k > Len(data) /\ data' = SubSeq(payload, 1, k)
  /\ UNCHANGED <<writerVars, writer, manifest, saved, whole, loaderVars, steady, exports>>

(* The data file is closed and the manifest opened, which empties it. *)
OpenManifest ==
  /\ writer = "data"
  /\ data = payload
  /\ writer' = "manifest"
  /\ manifest' = Torn
  /\ UNCHANGED <<writerVars, data, saved, whole, loaderVars, steady, exports>>

WriteManifest ==
  /\ writer = "manifest"
  /\ writer' = "done"
  /\ manifest' = tensors
  /\ saved' = added
  /\ whole' = TRUE
  /\ UNCHANGED <<writerVars, data, loaderVars, steady, exports>>

(* Mutant: offset is one variable of the class, which all writers share.   *)
NextExportSharesOffset ==
  /\ exports < MaxExports
  /\ exports' = exports + 1
  /\ writer' = "adding"
  /\ tensors' = Empty
  /\ payload' = << >>
  /\ added' = Empty
  /\ UNCHANGED <<offset, diskVars, loaderVars, steady>>

(* The exporter is done or dies, and another one starts with the same      *)
(* directory and stem.                                                     *)
NextExport ==
  /\ exports < MaxExports
  /\ exports' = exports + 1
  /\ writer' = "adding"
  /\ tensors' = Empty
  /\ payload' = << >>
  /\ offset' = 0
  /\ added' = Empty
  /\ UNCHANGED <<diskVars, loaderVars, steady>>

(* Somebody else writes a manifest for the data file. *)
ForeignManifest ==
  /\ writer \in {"adding", "done"}
  /\ manifest' \in Foreign
  /\ whole' = FALSE
  /\ steady' = FALSE
  /\ UNCHANGED <<writerVars, writer, data, saved, loaderVars, exports>>

-----------------------------------------------------------------------------
(* loadWeights() *)

(* static_cast<std::size_t> *)
ToSize(x) == IF x >= 0 THEN x ELSE x + 2 * Half

(* Mutant: the sum is compared, and may wrap. *)
InRangeSum(off, nbytes, size) == (off + nbytes) % (2 * Half) <= size

(* "Written to avoid overflow in offset + nbytes." *)
InRange(off, nbytes, size) == off <= size /\ nbytes <= size - off

Accepts(e, buffer) ==
  /\ InRange(ToSize(e.offset), ToSize(e.nbytes), Len(buffer))
  /\ e.expected = ToSize(e.nbytes)

(* Mutant: offset is not added to bytes.data(). *)
SliceAtStart(buffer, off, n) ==
  [i \in 1..n |-> IF i \in 1..Len(buffer) THEN buffer[i] ELSE Junk]

(* memcpy of n bytes from off on. *)
Slice(buffer, off, n) ==
  [i \in 1..n |-> IF off + i \in 1..Len(buffer) THEN buffer[off + i] ELSE Junk]

Fails ==
  /\ loader' = "threw"
  /\ loaded' = Empty
  /\ UNCHANGED <<writerVars, writer, diskVars, parsed, bytes, steady, exports>>

(* A call begins, whatever the last one has returned. *)
Load ==
  /\ loader \in {"idle", "threw", "returned"}
  /\ loader' = "manifest"
  /\ parsed' = Empty
  /\ bytes' = << >>
  /\ loaded' = Empty
  /\ steady' = whole
  /\ UNCHANGED <<writerVars, writer, diskVars, exports>>

(* The text of a manifest that is cut short does not parse. *)
NoManifest == loader = "manifest" /\ manifest \in {None, Torn} /\ Fails

ReadManifest ==
  /\ loader = "manifest"
  /\ manifest \notin {None, Torn}
  /\ parsed' = manifest
  /\ loader' = "data"
  /\ UNCHANGED <<writerVars, writer, diskVars, bytes, loaded, steady, exports>>

NoData == loader = "data" /\ data = None /\ Fails

(* The data file is read block by block. *)
ReadBlock ==
  /\ loader = "data"
  /\ data # None
  /\ \E k \in Len(bytes)..Len(data) :
       k > Len(bytes) /\ bytes' = bytes \o SubSeq(data, Len(bytes) + 1, k)
  /\ UNCHANGED <<writerVars, writer, diskVars, loader, parsed, loaded, steady, exports>>

AtEnd == loader = "data" /\ data # None /\ Len(bytes) >= Len(data)

Rejects == AtEnd /\ (\E n \in DOMAIN parsed : ~Accepts(parsed[n], bytes)) /\ Fails

Returns ==
  /\ AtEnd
  /\ \A n \in DOMAIN parsed : Accepts(parsed[n], bytes)
  /\ loaded' = [n \in DOMAIN parsed |->
                  Slice(bytes, ToSize(parsed[n].offset), ToSize(parsed[n].nbytes))]
  /\ loader' = "returned"
  /\ UNCHANGED <<writerVars, writer, diskVars, parsed, bytes, steady, exports>>

-----------------------------------------------------------------------------
Init ==
  /\ tensors = Empty
  /\ payload = << >>
  /\ offset = 0
  /\ added = Empty
  /\ writer = "adding"
  /\ data = None
  /\ manifest = None
  /\ saved = Empty
  /\ whole = FALSE
  /\ loader = "idle"
  /\ parsed = Empty
  /\ bytes = << >>
  /\ loaded = Empty
  /\ steady = FALSE
  /\ exports = 1

Next ==
  \/ \E n \in Names, size \in Sizes : Add(n, size)
  \/ OpenData
  \/ FlushData
  \/ OpenManifest
  \/ WriteManifest
  \/ NextExport
  \/ ForeignManifest
  \/ Load
  \/ NoManifest
  \/ ReadManifest
  \/ NoData
  \/ ReadBlock
  \/ Rejects
  \/ Returns

Spec == Init /\ [][Next]_vars

-----------------------------------------------------------------------------
(* Properties *)

TypeOK ==
  /\ IsManifest(tensors)
  /\ payload \in Seq(Byte)
  /\ offset = Len(payload)
  /\ NamedBy(added, Seq(Byte))
  /\ writer \in {"adding", "data", "manifest", "done"}
  /\ data \in Seq(Byte) \union {None}
  /\ manifest \in {None, Torn} \/ IsManifest(manifest)
  /\ NamedBy(saved, Seq(Byte))
  /\ whole \in BOOLEAN
  /\ loader \in {"idle", "manifest", "data", "threw", "returned"}
  /\ IsManifest(parsed)
  /\ bytes \in Seq(Byte)
  /\ steady \in BOOLEAN
  /\ exports \in Nat \ {0}

(* The memcpy of loadWeights() never leaves the buffer, whatever integers  *)
(* the manifest holds and however much of the data file there is.          *)
ReadsInside ==
  \A n \in DOMAIN loaded : \A i \in DOMAIN loaded[n] : loaded[n][i] # Junk

(* A load returns exactly the tensors that were added, the last one under  *)
(* each name, unless an exporter was or had been interrupted while writing *)
(* the files, or somebody has replaced the manifest.                       *)
LoadsWhatWasAdded == loader = "returned" /\ steady => loaded = saved
=============================================================================
