# dl-inference in TLA+

A verification development kept beside the dl-inference sources: a C++ engine
that runs exported PyTorch graphs node by node, a Python exporter that writes
the graph and its weights, and Triton kernels compiled ahead of time into an
operator plugin. The models follow the code under `src/`; `PROJECT.json` maps
every definition to the lines it stands for.

Paths below are relative to the repository root.

## 1. The system

| component | state it keeps | operations |
|---|---|---|
| KV cache (`src/kv_cache.cc`) | `entries_`: name to key and value tensor | `append`, `get`, `clear` |
| Engine (`src/engine.cc`) | registry, KV cache; per run the tensor map | `run`, accessors |
| Operator registry (`src/operator_registry.cc`) | factories by type, `dlopen` handles | `registerFactory`, `create`, `loadLibrary` |
| AOT operators (`python/dli_ops/aot/*/template.cc`) | none of their own; static kernel objects in the plugin | `compute` |
| AOT kernels, CUDA driver (`src/cuda_driver.cc`) | driver singleton; per kernel module and function | `launch`, `load` |
| CUDA runtime (`src/cuda_runtime.cc`) | library singleton | malloc, free, memcpy |
| Tensor (`src/tensor.cc`) | shared storage (host bytes, device bytes or torch) | views, copies, conversions |
| Aten operator (`src/aten_operator.cc`) | none | dispatch by name to ATen |
| Graph codec (`src/graph.cc`) | none | JSON text to `Graph` and back |
| Exporter (`python/dli_export/export.py`) | the node list under construction | Qwen2 path, FX path |
| Weights (`python/dli_export/weights.py`, `src/weights.cc`) | manifest and data file | `add`, `write`, `loadWeights` |
| Plugin generator (`tools/build_triton_aot_ops.py`) | none | compile kernels, splice templates |
| Logging (`src/logging.cc`) | level, sink, mutex | `setLogLevel`, `setLogSink`, emit |
| Python bindings (`src/python_bindings.cc`) | none | `Engine.run` with the GIL released |
| gRPC client, server (`src/grpc`) | placeholders | none |

How they interact. The exporter names every tensor of the graph and every
weight; `Engine::run` looks these names up in one map, creates each node's
operator through the registry and calls its `compute`. Plugins put factories in
the registry through `dli_register_operators`, called by `loadLibrary`. The
attention operator appends its key and value to the engine's KV cache, which
outlives the run, then picks a compiled kernel by the sizes it finds. Kernels
are process-wide objects that load their module at the first launch. Every
error is a C++ exception that passes through `run` to the caller, who may call
`run` again on the same engine.

What is hard here:

* **Partial failure and retry.** Nothing is rolled back. `append` makes six
  calls that can throw; attention appends before the rest of its checks; a run
  that throws in layer 3 has already changed the caches of layers 0 to 3.
* **State across calls.** The cache persists over runs with different inputs,
  and the checks that make its copies safe are spread over several appends.
* **Sharing.** Tensors share storage; the cache keeps the caller's tensor on
  the first append. Libraries are reference-counted by the dynamic linker
  across engines.
* **Names built in two places.** Node inputs, node outputs and weight names are
  strings assembled by different lines of the exporter.
* **Threads.** `Engine.run` releases the GIL; kernel objects are shared by all
  engines of a process; logging runs a user's sink under a mutex.
* **Fixed sizes.** Kernels exist for a table of sizes while the cache grows by
  one token per run.

What makes each component correct, briefly: the cache holds exactly what was
appended, in order, whatever failed, and its copies stay inside their
allocations; the engine's layers see the same context; an exported graph can be
run from its weights file; a library stays mapped while something can call into
it; a kernel is launched only with a function of a loaded module; the codec
returns the graph it was given; the loader reads only inside the data file;
log records meet the sink and level in force.

## 2. Modules

### ChunkLog — what the cache promises
Per name a log of keys and a log of values. `Create`, `Extend`, `Throw`,
`Clear` are the operations; `Offer` and `Overwrite` are the caller taking
another chunk and writing into the one it holds (a first append shares the
caller's memory, so such a write shows in the log).

### KVCache — `KVCache::append` and `clear`
State: `entries` (the map), `mem` (device allocations, one datum per float),
`held` (the caller's tensors), and the locals of an `append` in progress
(`pc`, `target`, `grown`). One action per step that can throw:

| action | code |
|---|---|
| `Produce`, `CallerWrite` | the caller's tensors and its writes into them |
| `AppendRejects`, `AppendCreates`, `AppendGrows` | kv_cache.cc:14-38 |
| `Alloc` (key, value) | kv_cache.cc:40-41 |
| `Copy` (old key, new key, old value, new value) | kv_cache.cc:42-49 |
| `PhaseThrows` | any of those six failing |
| `Assign` | kv_cache.cc:50 |
| `Clear` | kv_cache.h:52 |

A tensor is a shape and a reference to a storage; the last reference frees it.
A datum is `<<"K" or "V", token, lane, dimension>>`, so that the placement of a
copy shows. `history` records which tokens were appended to each name.

### Qwen2Export — the exported graph
`_export_qwen2_causal_lm` as a function of a node's number: `NodeAt(i)`,
19 nodes per layer between the embedding and the head, with the names each node
reads and writes, and `Weights`, the names the weights file gets.
`TopologicallySorted` is a property of the data; that no node overwrites a
name is checked where it would happen, in `Engine` (`WritesAreFresh`).

### Engine — a decode session
`Engine::run` over the exported graph with the operators of the AOT plugin and
ChunkLog as the cache. State: the registry's types, the cache, the tensor map
`env` of the run in progress, the node it is at, and what the caller submitted.
A node is one step (`Compute`, `Reshape`, `Rotary`); attention is two
(`AttentionAppend`, then `Attend`), as everything it can still throw for comes
after its append. `Throw` is an exception leaving `run`: the tensor map dies,
the cache stays. `Submit` lets the caller retry the last token, send several
tokens, or forget the weights or the token ids. Of a tensor the model keeps its
token rows, the token they come from and the position they were rotated to.

### OperatorRegistry — plugins
`loadLibrary` call by call in several registries of a process, with the
linker's handle counts (`refs`) and mappings as the environment. The entry
point may register some types and then accept, refuse or throw. `Renew`
destroys an engine and makes another one.

### CudaAotKernel — lazily loaded kernels
The kernel objects of a plugin live as long as the process and are shared by
every engine, and `launch` takes no lock. State: the driver singleton
(`driver`), per kernel `module_` and `function_` and, beside the code's state,
the modules the driver holds (`loaded`), how many it has made (`made`) and how
many lookups failed (`unresolved`); per thread `pc` and the kernel it is `at`.

| action | code |
|---|---|
| `DriverStarts` | cuda_driver.cc:44-86, the singleton's constructor |
| `LaunchEmpty`, `Launch`, `LoadRefused` | cuda_driver.cc:119-136 |
| `LoadModule`, `LoadModuleFails` | cuda_driver.cc:125-127 |
| `GetFunction`, `GetFunctionFails` | cuda_driver.cc:128-130 |
| `LaunchKernel` | cuda_driver.cc:137-140 |

### Weights — the weights file
`WeightWriter` and `dli::loadWeights` over one directory. An exporter adds
tensors (`Add`), writes the data file in pieces (`OpenData`, `FlushData`), then
the manifest (`OpenManifest`, `WriteManifest`); at any point it may be gone and
another one start over (`NextExport`). A manifest may also come from elsewhere
(`ForeignManifest`). The loader reads the manifest, then the data file block by
block, then checks and copies each tensor (`Load`, `ReadManifest`, `ReadBlock`,
`Returns`), or fails on the way (`NoManifest`, `NoData`, `Rejects`). A cell of
the data file is a byte tagged with the export and the position it was added
at, so that bytes of different tensors differ. Integers of a manifest are
signed; the loader casts them, and `2 * Half` is where its sizes wrap. Of the
JSON the model keeps that a text cut short does not parse, which holds because
an object of the parser is complete only with its closing brace. `saved`,
`whole` and `steady` are history: what the last finished export held, and
whether the files are, and have been, those of one finished export.

### GraphCodec — graph files
`Graph::fromJson`, `Graph::toJson` and a program that reads a file, sets an
attribute, writes the graph and reads it again. A document is what its text
says: per field a value, `Missing` or `Wrong` (another JSON type), and per
attribute an array of tokens or a single one. Tokens keep whether a number is
written as an integer, because `toAttributeValue` recovers the type of an
attribute from that alone. `DoubleToken` is `out << double`: rounding to
`Precision` significant digits, and neither point nor exponent when the result
is whole and small. A double is a decimal with `Places` digits behind the point;
inf and nan are one special value (`NonFinite`). `strtod` reports a number
nearer to 0 than `MinNormal` as out of range (`IsSubnormal`), and the printed
digits of a normal double may be such a number. An integer in a list of doubles
is converted to the nearest double (`DoubleOf`): up to `Exact` all integers are
doubles, beyond it only multiples of one of the `Spacings`. An attribute that a
node does not have is `None` in the graph and `Missing` in its document.
`GraphOf` with `Accepted` and `Throws` is
`fromJson`, `Json` is `toJson`; `origin` and `written` are history: how the
program came by its graph, and which graph the file was written from.

### Shapes, Tensors — shapes, views and element counts
`Shapes` holds the arithmetic as operators: `CheckedNumel` (`numel()` of a
tensor without ATen), `Requested` (the count `withShape` asks for), `Product`
and `ReshapeShape` (`utils.cc`), `Stride` and `ContiguousOffset`. A dimension is
an `int64_t` and a count a `size_t`; both wrap at `Word = 2 * Half`, and `Count`
is the count on paper. A function that may throw is the set of its results, one
or none. `Tensors` is a `Tensor` variable of a program: allocated through ATen
(`Allocate`), wrapped around foreign memory (`External`), viewed (`TakeView`,
`Reshape`) and moved from (`Move`). `last` records the call and its result.
Not given to `Reshape` is what makes `reshapeShape` divide with no defined
outcome (`DivisionTraps`): a divisor whose product has wrapped to 0, or to -1
where the count has wrapped to the least `int64_t`.

### Logging — level, sink and mutex
The setters and a record's destructor, lock by lock, on several threads. `pc`
goes from `streams` (a `LogMessage` exists) over `waits` and `locked` to `emits`
(the sink runs, with the mutex held) and back to `idle`; an exception of the
formatting or of a sink ends in `idle`, too. A sink in `Reentrant` may call back
into the logger and then waits for itself (`reenters`), for ever: the mutex is
not recursive, and the header forbids it. `levels` and `sinks` are history:
what was in force since a thread asked for the mutex; `retired` holds the sinks
that were replaced, which their owner may have destroyed.

### AotPlugin — which kernels there are
Two lists that are kept by hand in different files: `DefaultSpecs`, the
specializations `default_specs()` compiles, and `TemplateKernels`, the
`{{HASH_...}}` placeholders of the sixteen operator templates. `Unresolved` is
what `emit_plugin` refuses.

### FxExport — the FX path, from trace to result
`_export_fx` lowers a trace one node at a time (`Placeholder`, `GetAttr`,
`CallModule`, `CallView`, `Output`), or raises; then `Engine::run` executes the
graph node by node (`RunNode`, `Return`) with the vision operators and the
kernels the plugin has (`BuildPlugin`). A value is its shape and a term for how
its elements were computed. `TorchModule` is PyTorch: the shape and the term a
module gives, or nothing if it refuses the input; `Compute` is the operator of
the plugin. A trace carries both the example's values and those of a later
input with another batch, so that what the engine returns can be compared with
what the model would have computed. `lost` records a construct that left no
mark in the graph: a dilation, groups, or a value read after an in-place
operation on its storage.

Dimensions and counts are `int64_t` in a tensor, but the templates put them
into `int`s and the kernels compute offsets in 32 bits. `Narrow` (`AsInt32`) is
that conversion, with `HalfInt` for 2^31; `OutShape`, `Kernel` and the
comparisons of `batch_norm2d` see narrowed dimensions where the templates do.
Where some dimension, attribute or element count does not fit (`Wide`), the
launch may compute anything, which `Compute` shows as a term with a dropped
`"width"`, or be refused by CUDA, and `lost` gets `"width"`. `MaxColumns` is the
width of a linear layer for which CUDA still takes the grid's second dimension.

A name of the graph is a tuple: `<<base>>` or `<<base, "_", k>>` for a node, as
FX numbers the nodes of one target, `<<path, which>>` for a parameter of a
module, `<<name>>` for one of the model itself. The first dimension of the
input is the batch unless it is the only one. PyTorch and CUDA refuse what does
not fit into memory (`InMemory`). `Put` is a Python dictionary or the engine's
map, in which a later entry replaces an earlier one of its name. `FxAssumption`
says what PyTorch's constructors guarantee: sizes, strides and groups are
positive, no tensor is empty or without dimensions, a path belongs to one
module. Its state is named `FxInit`, `FxNext`, `FxSpec`, as its proofs stand in
one module with those of Tensors.

### MC modules
`MCKVCache`, `MCEngine`, `MCOperatorRegistry`, `MCCudaAotKernel`,
`MCWeights`, `MCGraphCodec`, `MCTensors`, `MCLogging` and `MCFxExport` give the
constants their values for TLC.

## 3. Runs

| run | checks | bounds |
|---|---|---|
| `kv_cache` | type, key/value shapes, copy bounds, keys match values, order in one lane, refinement of ChunkLog | 2 names, 8 storages, 2 tokens, length 3, 10 kinds of input |
| `kv_cache_heads` | violated: `GrowsAlongSequence` | shape [1, 2, 1, 1] |
| `engine` | names resolve, layers in lockstep, bounded drift, no name written twice, prompts refused early, refinement of ChunkLog, contexts nested and in order | 2 layers, 4 runs, 1 or 2 token rows |
| `engine_rotary` | violated: `RotatedToItsPosition` | 1 layer, 3 runs |
| `registry` | type, handle accounting, loaded stays mapped, only refusals dangle | 2 registries, 1 plugin, 1 other library, 4 opens |
| `registry_dangling` | violated: `FactoriesAreMapped` | as `registry` |
| `aot_kernel` | type, launches use a function of a loaded module, extra modules are bounded | 2 threads, 3 kernels (one without a cubin), 3 modules per kernel |
| `weights` | type and offsets, copies stay inside the data, loads return what was added | 2 names, tensors of 1 and 2 bytes, 3 bytes, 2 exporters, 6 foreign entries per name, sizes of 4 bits |
| `graph_codec` | type, what toJson writes is accepted, only doubles and empty lists drift, a second round trip is exact | 1 node, 1 attribute, 54 documents, 22 attribute values, 2 significant digits, 9-bit integers, doubles of 7 bits beside integers, least normal 0.222, 1 edit between two reads |
| `tensors` | type, views keep the count, reshape follows its rule, offsets are distinct | 21 shapes, counts of 4 bits |
| `logging` | type and mutual exclusion, sink and level in force, changes take effect, only callbacks hang | 2 threads, 2 calls each, 3 severities, 2 sinks, one of which calls back |
| `fx_export` | names and order, plugin and templates agree, exports are faithful, the example runs | 12 modules, 3 calls, batched and unbatched image, batches of 1, 2 and 64, 2 outputs, 6-bit `int`s (`HalfInt` 32), `MaxColumns` 16 |

Why the bounds are enough. The inputs of `kv_cache` differ from each other in
one dimension each, so each comparison of `append` decides some case; two
tokens create an entry and grow it, one chunk of two tokens tells an offset
from a count, and a chunk appended twice needs no new token. Eight storages
hold two entries (four), the caller's pair and the pair being built, so
allocation never blocks for the bound. In `engine` two layers are the fewest
that can drift, and two rows are a prompt. The attention kernels of head
dimension 2 take at most two cached rows, so two runs at most get past the
attention of a layer before a `clear`; of the four runs, one may fail between
the layers, one return with the layers' caches apart, and the others are refused
by the first layer after it has appended, or begin again after a `clear`. In
`registry` four opens let each engine
load a library, fail and load it again. In `aot_kernel` two threads race for a
kernel, and three modules are one for the loader, one for the other thread and
one after a failed lookup. In `weights` the sizes let two tensors be told
apart, a tensor be added again under its name, and the second exporter produce
files as long as the first one's; the foreign entries have an offset or a size
that is negative, one past the end, or not what the shape asks for (`Misfit`). In
`graph_codec` the doubles are whole and not, round up to another digit, tie,
and lie on both sides of the exponent limit, alone and in lists; one is normal
and printed as a subnormal one, and integers beside doubles are on both sides
of what a double holds exactly; every field is missing or wrong in some
document. The number of significant digits and the
width of integers are parameters of the same rules, small so that their limits
are reached. In `tensors` products wrap to 0, to 1, to -1, to
the old count and to the least `int64_t`, and
every refusal of `reshapeShape` and `withShape` occurs. In `logging` one thread
replaces the sink while the other's record is in each of its stages, and a
second call meets a mutex whose owner has thrown. In `fx_export` three calls
are a convolution, a flatten and a linear layer, or a module called twice and a
third reading the first; the modules include one per kind, each unsupported
setting, and a convolution whose dilation changes the shape of its result. A
batch of 64 does not fit an `int`, and smaller ones have counts on both sides of
its limit.

Deadlock is checked in every run but two: in `logging` and `fx_export` the
program ends, and a sink that calls back stops every thread that logs. The
bounds are in the guards of `Produce` and
`AppendGrows`, `Submit`, `Open`, `LoadModule`, `Add`,
`NextExport`, `SetAttribute`, `Begin` (`MaxCalls` of Logging) and `Tracing`
(`MaxCalls` of FxExport).

**Fairness.** `OnlyCallbacksHang` needs it. In Logging, `FairSpec` adds weak
fairness of each thread's `Step`: a thread inside a call runs on, and a sink returns, throws or
calls back. Nothing is assumed of the order in which the mutex is handed out;
that nobody waits for ever follows because each thread makes finitely many
calls.

## 4. Proofs

For every value of the constants, checked by TLAPS:

| theorem | says |
|---|---|
| `KVCache_proofs!TypeCorrect` | `Spec => []TypeOK` |
| `KVCache_proofs!KeysAndValuesAlike` | `Spec => []KeyValueAlike` |
| `KVCache_proofs!CopiesStayInBounds` | `Spec => []CopiesInBounds` |
| `KVCache_proofs!AppendsAreAtomic` | `Spec => ImplementsChunkLog`, the refinement of ChunkLog |
| `KVCache_proofs!KeysAndValuesMatch` | `Spec => []KeysMatchValues` |
| `KVCache_proofs!SingleLanesInOrder` | `Spec => []SingleLaneInOrder` |
| `Engine_proofs!ExportIsSorted` | every name a node reads is given or written by an earlier node, for any number of layers and any set of biases |
| `Engine_proofs!ExportedNamesResolve` | `Spec => []NamesResolve` |
| `Engine_proofs!EngineTypes` | `Spec => []TypeOK` |
| `Engine_proofs!NodesWriteFreshNames` | `Spec => []WritesAreFresh` |
| `Engine_proofs!PromptsLeaveTheCache` | `Spec => PromptLeavesCache` |
| `Engine_proofs!LayersDriftByFailures` | `Spec => []DriftIsBounded` |
| `Engine_proofs!LayersStayInLockstep` | `Spec => []LayersInLockstep` |
| `Engine_proofs!ContextsStayNested` | `Spec => []ContextsNest` |
| `Engine_proofs!SessionsAppendChunks` | `Spec => CacheSeesAppends`, the refinement of ChunkLog |
| `CudaAotKernel_proofs!KernelsTyped` | `Spec => []TypeOK` |
| `CudaAotKernel_proofs!LaunchesAreLoaded` | `Spec => []LaunchesLoadedFunction` |
| `CudaAotKernel_proofs!ExtraModulesBounded` | `Spec => []ExtraModulesAreBounded` |
| `Weights_proofs!FilesTyped` | `Spec => []TypeOK` |
| `Weights_proofs!LoadsAreFaithful` | `Spec => []LoadsWhatWasAdded` |
| `Weights_proofs!CopiesAreInside` | `Spec => []ReadsInside` |
| `OperatorRegistry_proofs!RegistryTyped` | `Spec => []TypeOK` |
| `OperatorRegistry_proofs!HandlesAddUp` | `Spec => []HandlesAccountedFor` |
| `OperatorRegistry_proofs!LibrariesStayMapped` | `Spec => []LoadedStaysMapped` |
| `OperatorRegistry_proofs!DanglingIsRefused` | `Spec => []OnlyRefusalsDangle` |
| `Logging_proofs!MutexExcludes` | `Spec => []TypeOK` |
| `Logging_proofs!RetiredSinksAreSilent` | `Spec => []SinkInForce` |
| `Logging_proofs!RecordsMeetChanges` | `Spec => ChangesTakeEffect` |
| `Shapes_proofs!TensorsTyped` | `Spec => []TypeOK` |
| `Shapes_proofs!ViewsKeepTheCount` | `Spec => []ViewKeepsCount` |
| `Shapes_proofs!ReshapesExactly` | `Spec => []ReshapeIsExact` |
| `Shapes_proofs!OffsetsSeparate` | `Spec => []OffsetsAreDistinct` |
| `Shapes_proofs!GraphIsSorted` | `FxSpec => []FxTypeOK` |
| `Shapes_proofs!PluginEmbedsItsKernels` | `FxSpec => []PluginIsExact` |
| `Shapes_proofs!ExportsAreFaithful` | `FxSpec => []Faithful` |
| `Shapes_proofs!ExportsRunOnTheirExamples` | `FxSpec => []ExampleRuns` |
| `GraphCodec_proofs!GraphsTyped` | `Spec => []TypeOK` |
| `GraphCodec_proofs!WrittenFilesAreRead` | `Spec => WritesAreAccepted` |
| `GraphCodec_proofs!OnlyDoublesChange` | `Spec => OnlyDoublesDrift` |
| `GraphCodec_proofs!RoundTripsSettle` | `Spec => SecondTripIsExact` |

**KVCache.** `CopiesInBounds` and `KeyValueAlike` are not inductive: that a
copy fits depends on the sizes allocated before it and on every storage being
as long as the shapes that refer to it. The invariant is `TypeOK`,
`KeyValueAlike` (cached shapes agree), `MemFits` (a storage a tensor refers to
is exactly as long as its shape), `GrowthOK` (while an append runs, its checks
still hold of the entry and the chunk, and what is allocated has the grown
shape) and `TokensOK` (the chunk's tokens are among those produced). Products
of four sizes are beyond the arithmetic of the solver, so lemmas give the two
facts that are needed: `Numel` is a natural number, and it adds up along the
sequence axis.

What the cache holds needs more, `CInv`. `Separate`: an entry that is not the
caller's pair shares no storage with it, and the tensors under construction
share none with anything, so that neither the caller's writes nor a copy can
reach another entry. `Filled`: after each copy the new tensor begins with what
has been copied. On these rests the refinement: `Assign` maps to `Extend`,
`AppendCreates` to `Create`, the caller's steps to `Offer` and `Overwrite`, and
every other step of `append` to a stutter, as nothing a reader sees has changed
before the assignment. `KeysMatchValues` needs `MatchInv`, the same statement of
the pair the caller holds, and that concatenation keeps it. `SingleLaneInOrder`
needs `OrderInv`, which adds the caller's pair to the entries, and the place of
a datum in a row-major tensor of one lane.

**Qwen2Export.** The node with number `i` belongs to layer `(i - 2) \div 19`;
the lemmas locate a node in its layer, show that what it reads is written at a
smaller offset of the same layer, by the last node of the layer before, by the
embedding, or is a weight, and `TopologicallySorted` follows by cases.

**Engine.** `NamesResolve` needs that the tensor map of a run in progress
contains the given names and all outputs of the nodes already executed
(`RunHasTensors`), and that `next` is a node number (`NextInRange`). With
`TopologicallySorted`, a node's inputs are then always found. `RunInv` makes this
exact: the map of a run has the names that were given and those written so far,
no others, and only an attention node is in two steps; `WritesAreFresh` follows
as no two nodes write a name. `FlowInv` follows the token through a run: behind
the reshape of a layer, every tensor has one row and it is the token submitted
last, and a prompt of several rows never gets past the first reshape. With it,
an append to a layer adds exactly the current token. `DriftInv` is about
`Left(l)`, the rows earlier runs have left in layer `l`: at least one per run
that returned, at most one more per run that has thrown, and never more in a
later layer. `LayersInLockstep` is inductive together with `RunInv` and
`FlowInv`. `ContextsNest` needs to tell what earlier runs have left in a layer
from what the present one has added: `NestInv` says there is a `past` of each
layer, of which the layer's tokens are the past and the current token, such that
the accepted tokens are a subsequence of every past and a later layer's past is
one of an earlier layer's. When a run ends, the past becomes all there is, which
stays nested because a run reaches the layers in order. The refinement of ChunkLog needs `EntriesHaveRows` besides: an entry
is never empty, so that a grown one is not mistaken for the chunk.

**CudaAotKernel.** `LaunchInv` adds to the type invariant that a thread inside
`launch` is at a kernel, that handles are those of loaded modules of their own
kernel, and that a thread past a driver call has what the call returned. The
bound on modules needs `CountInv`: while `function_` is unset, the modules made
are one per failed lookup and one per thread about to look up, and the threads
about to load still fit under the number of threads.

**Weights.** `FilesInv` says that the exporter's manifest locates every tensor
in its bytes (`Packed`), that the data file is a beginning of them and complete
before the manifest is opened (`Flushed`), that whole files belong together and
nobody is writing them (`WholeFiles`), and that a load of whole files has read
the manifest and a beginning of that data file (`SteadyLoad`).
`RangeCheckExact` is the lemma that the range check, made on casted sizes
without forming a sum, accepts exactly the ranges inside the buffer.

**OperatorRegistry.** `RegInv` adds four parts to the invariants of the run:
the counted sets are finite (`AllFinite`); an open handle is one of the
library's present mapping (`CurrentMappings`); handles and mappings are no more
than the calls of `dlopen` (`OpensBound`); and factories of a library come from
a plugin (`FromPlugins`), so that a library without the entry point takes no
factory with it. The lemmas say how each counted set changes when an image is
appended, a sequence of handles is lost, or a load ends. That a library gets a
new mapping only while none of its handles is open (`OpenIsMapped`) gives
`LoadedStaysMapped`; `OnlyRefusalsDangle` follows because the other closing
branch, the missing symbol, is never that of a plugin.

**Logging.** `LogInv` is `TypeOK`, `SinkInForce` and two more parts.
`WindowsOpen`: the level and the sink now in force are among those a waiting
thread has recorded, which makes `ChangesTakeEffect` a consequence of a single
step. `InstalledOnce`: no two calls install the same sink, and none installs a
retired one, without which the sink a thread has entered could be retired by
another installation of it.

**Tensors.** Products, counts and strides are folds, and what a fold computes
is proved by induction with a set: the numbers for which the statement holds
contain 0 and the successor of each, and a set of numbers that is not empty has
a least element (`LeastElement`, from the library's well-foundedness of `<`).
Lemmas first turn each fold into a function on prefixes (`CountRuns`,
`NumelRuns`, `KnownRuns`, ...), so that one step of the induction is one factor.
The wrapping lemmas say that the machine's products are the counts on paper
modulo `Word`; where the checked product returns, nothing has wrapped
(`NumelIsExact`). `ViewKeepsCount` then needs no more than the comparison of
`withShape`. For `ReshapeIsExact` a target that fits determines the inferred
dimension: replacing one dimension of the target by the quotient gives the
input's count (`CountReplaced`, `ResolvedFills`), and this view is the only one
that does. `OffsetsAreDistinct` is the uniqueness of digits in a mixed base: the
stride of a dimension is the count behind it, and what the later indices
contribute is less than that.

**FxExport.** That the engine computes what the model does is a simulation
between two interpreters: PyTorch on the trace and `Engine::run` on the lowered
graph. `FxInv` relates them and has five parts. `Phases` says how far each has
got. `Entries`: the first entry of the trace is the input, and every other one
is a parameter or a call that has a node (`Settled`); where the input is the
example's, so is every value. `Lowered`: each node is the call of one entry on
another (`Lowers`), whose argument has a value before it, and no two nodes name
one output. `Weights`: what is saved under a parameter's name is that parameter.
`Running`: every entry settled before `next` has, under its name, the one value
the model computes for the actual input (`Agrees`). Each part needs the others:

* that names stay unique rests on how FX makes them (`NameAt`): the `k`-th entry
  of a base gets the number `k - 1`, so a new name equals that of no other
  entry that is a call (`Lowers` includes it);
* a node's output may still have the name of an input or of a parameter of the
  model. `Faithful` excludes names with two values on the example (`Clash`),
  but the engine runs on another batch. So `Entries` says that a value whose
  term is a parameter's does not change with the batch, and a name that two
  entries share has one value there, too;
* a step of the run (`NodeIsExact`) puts the plugin's operator beside PyTorch's
  module. Every shape it meets is like the example's but for the batch
  (`Alike`), so that every check an operator makes decides as on the example,
  and what it does not compare was compared by PyTorch. For windows, C++'s
  truncating division agrees with PyTorch's where the image is large enough,
  and PyTorch refused it otherwise. For a reshape to the example's shape, counts
  do not wrap as tensors fit into memory: with another batch the operator
  throws unless the count is the same, and then the batch is the same. What
  fits an `int` is narrowed to itself, and a run that met anything else has
  `"width"` in `lost`.

`ExportsAreFaithful` and `ExportsRunOnTheirExamples` then need the last state
of the run alone. `GraphIsSorted` is `Lowered` and `Entries` restated over
names. `PluginEmbedsItsKernels` rests on lemmas that write the generator's
specifications and the templates' tables as one set (`TemplatesUnion`). TLC
checked `FxInv` on the run's instance before it was proved.

**GraphCodec.** The powers of ten are a recursive function, which the lemmas
first show to exist and to be what its equation says (`PowDef`). Rounding to
`Precision` digits is idempotent (`RoundTwice`): a rounded number is a multiple
of its unit and has the same number of digits, or it is a power of ten with one
digit more, whose larger unit divides it, too. So a double that was read from a
file is printed the same way again (`DoubleTokenTwice`), an attribute goes
through a file once with at most the changes of `SameAttribute`
(`ReadBackIsSame`) and a second time with none (`ReadBackTwice`), and the same
holds of nodes and graphs. `CodecInv` adds to the type invariant that a file is
what `toJson` made of `written`, that a graph from a file has no inf, nan or
subnormal double, and that one from `toJson`'s file is a fixed point of a round
trip (`Settled`); `JsonThrows` says that `fromJson` refuses such a file only for
a double whose text is unreadable.

The assumptions are those the modules name (`KVCacheAssumption`,
`Qwen2Assumption`, `EngineAssumption`, `RegistryAssumption`,
`KernelAssumption`, `WeightsAssumption`, `LoggingAssumption`,
`ShapesAssumption`, `TensorsAssumption`, `FxAssumption`, `CodecAssumption`,
`MarksAssumption`): types and bounds of the constants, `None` and the other
marks being none of the values they stand beside, finitely many threads, a data
file shorter than half the range of `size_t`, integers of at least two bits,
an `int64_t` and a double that hold every whole number a stream prints without
an exponent, and every integer being between two doubles.

**Model-checked only.** Liveness (`OnlyCallbacksHang`) is out of the prover's
reach, and the three properties of section 5 that the code violates
are not theorems. Every other property of the runs is one.

## 5. What the checks found

* A second append to an entry with more than one head or batch row interleaves
  the data wrongly: the new rows follow the whole old tensor
  (`kv_cache_heads`). The exported graphs of the repository use two heads.
* The first append keeps the caller's tensors although the header says that
  appending copies (kv_cache.h:31); `ChunkLog`'s `Overwrite` has to allow for it.
* The decode graph never sets `start_pos`: every token is rotated to position 0
  (`engine_rotary`).
* Attention has kernels for a few cache lengths: with head dimension 128 a
  session stops at its second token, with head dimension 2 at its third, each
  time after the token was appended (`Attend` of Engine).
* A plugin that registers operators and then returns false leaves factories
  that point into an unmapped library (`registry_dangling`).
* `load()` of a kernel is documented to load once; two threads, or a retry
  after a failed lookup, load again and lose the first module;
  `ExtraModulesAreBounded` says how many.
* `toJson` is documented as "JSON that fromJson() accepts" (graph.h:64), but inf
  and nan have no JSON form, and `fromJson` refuses a subnormal number with
  `out_of_range`, which is not the `invalid_argument` its documentation names.
  A program may set such doubles, and no file it has read holds one; but a
  normal double just above `DBL_MIN`, 2.2250738585072014e-308, may stand in a
  file and is written back as 2.22507e-308, a subnormal one. `WritesAreAccepted`
  says which graphs are accepted: exactly those without an unreadable double.
* The vision operators narrow `int64_t` dimensions and counts to `int`
  (conv2d/template.cc:22-26 and its like): with 2^31 elements or more, which a
  large batch may have, a run may return wrong data without an exception.
  `Faithful` holds only of runs whose numbers fit (`lost`).
* An `ExportError` is documented for "a construct the exporter cannot represent"
  (export.py:26), but dilation, groups and in-place effects are dropped without
  one: `Faithful` holds only of exports that dropped nothing (`lost`).
* An unbatched image, which PyTorch's convolutions take, is exported without an
  error and refused by `conv2d` and `max_pool2d` at run time (`ExampleRuns`
  excepts it). A parameter of the model itself and an input of the same name
  meet in one map, where one replaces the other (`Clash`).
* `withShape` of foreign memory takes a shape whose count wraps to the old one,
  although the header promises an exception when the count changes
  (tensor.h:169); `numel()` of the view then throws. `numel()` of a large shape
  throws although a later dimension of 0 makes the count 0.

What holds: an append is atomic for its callers in spite of six calls that may
throw; while no run throws, all layers attend to the same context; a run that
throws adds at most one row per layer, never more to a later layer than to an
earlier one, and loses and reorders nothing, so that a later layer's context is
always a subsequence of an earlier one's; a prompt of several tokens is refused before
the cache is touched; a given weights file always resolves; a kernel is
launched with a function of a loaded module in spite of the unlocked load, and
the modules it loses are bounded by the threads and the failed lookups; the
loader stays inside the data file for any manifest, and returns what was
exported whenever no exporter was, or was interrupted, writing the files. That
last condition is needed: the data file is replaced before the manifest under
the same name, so an export that dies in between leaves a pair of files that
loads without an error when the sizes agree. A graph file that is read and
written changes at most its doubles, and only once: a whole double below a
million comes back as an integer, which an operator that requires a double
refuses; a file straight from the exporter is read with the right types, as
Python always writes a point or an exponent. A graph that was read from
`toJson`'s own file can always be written and read again. No view or reshape reports another element count,
in spite of the unchecked product. A record reaches only a sink that is
installed, even while others change it, and an exception of a sink never leaves
the mutex locked. The generator's specializations and the templates' tables
agree exactly. An export that dropped no construct gives, on any batch whose
tensors fit 32-bit integers, what the model computes, or throws.

## 6. Not modelled

* Floating-point results, the text of messages, the sign of zero, the
  characters of JSON texts, the grammar of the manifest and dtype names.
* For `Engine`, the kernels chosen by model sizes other than attention's and
  rotary's (an exported model is assumed to be one they exist for), and graphs
  without declared outputs.
* Two calls of `run` on one engine at a time: the engine's map of cache entries
  is a `std::map` without a lock, so C++ gives two such runs no defined
  behaviour, and a model could exclude nothing. The same holds of the pointer
  `get()` returns, which only another thread can invalidate.
* In `FxExport`, `padding_mode`, `ceil_mode`, string paddings, empty tensors and
  tensors without dimensions; what a launch with narrowed numbers computes; and
  inputs that differ from the example in more than the batch, so that a
  reduction size that does not match (linear/template.cc:35) is not met;
  PyTorch itself is the environment. Of
  `matmul`, `softmax` and `transpose`, which no exporter emits, only the kernel
  tables.
* The configuration checks and table values of the Qwen2 exporter; copies
  between devices; the lazy loading of the CUDA runtime, apart from failing
  copies; the dispatch of the aten operator; conversions in the Python bindings.
* gRPC placeholders, build files and examples, which have no behaviour of their
  own.

## 7. Plan

1. Done: ChunkLog, KVCache, Qwen2Export, Engine, OperatorRegistry,
   CudaAotKernel, Weights, Logging, GraphCodec, Shapes and Tensors with proofs
   of every safety property the runs check, and AotPlugin and FxExport with
   theirs.
2. The CUDA runtime's lazy loading next to `CudaAotKernel`, and the aten
   operator's in-place dispatch.
