------------------------------- MODULE Engine -------------------------------
(***************************************************************************)
(* A decode session: dli::Engine (src/engine.cc) running the exported      *)
(* Qwen2 graph, one run() per token, with the operators of the Triton AOT  *)
(* plugin (python/dli_ops/aot/*/template.cc) and a KV cache that lives     *)
(* across runs.  The cache is the abstract one of ChunkLog, which KVCache  *)
(* implements.                                                             *)
(*                                                                         *)
(* A node is one step, except that attention appends to the cache in a     *)
(* step of its own: all it can still throw for comes after.  Of a tensor   *)
(* the model keeps how many token rows it has, the token it was computed   *)
(* from and the position it was rotated to.  The kernels of the other      *)
(* operators are chosen by sizes of the model, not of the run: the model   *)
(* is taken to be one they exist for, as the tiny example is.              *)
(***************************************************************************)
EXTENDS Qwen2Export

CONSTANTS
  HeadDim,  \* hidden_size / num_attention_heads
  MaxRuns,  \* bound: calls of run()
  MaxRows,  \* bound: token ids in one input_ids
  None      \* no cache entry, no chunk

(* What is cached for a layer: rows, by their token and position. *)
Row == [token: Nat, pos: Nat]
Entry == [key: Seq(Row), value: Seq(Row)]

ASSUME EngineAssumption ==
  /\ HeadDim \in Nat /\ MaxRuns \in Nat /\ MaxRows \in Nat
  /\ None \notin Entry

VARIABLES
  registered,  \* operator types in the registry
  kv,          \* per layer: the cached [key, value] rows, or None
  env,         \* `tensors`: name to tensor, of the run in progress
  next,        \* the node run() is at, 0 when it is not running
  stage,       \* "start" of the node, or "attend": its append is done
  given,       \* names in the caller's tensor map
  token,       \* the token the caller submitted last
  outcome,     \* how the last run ended
  appended,    \* how the last append that returned ended
  runs,        \* calls of run()
  accepted,    \* tokens of the runs that returned, since the last clear()
  failures     \* runs that threw, since the last clear()

vars == <<registered, kv, env, next, stage, given, token, outcome, appended,
          runs, accepted, failures>>

LayerIds == 0..(Layers - 1)

PluginOps == {"embedding", "rms_norm", "linear", "silu", "add", "mul", "reshape",
              "rotary_embedding", "attention"}

(* <<seq_q, seq_k, head_dim>> with a compiled causal attention kernel. *)
AttentionSpecs ==
  { <<1, 1, 2>>, <<1, 2, 2>>, <<2, 2, 2>>, <<1, 1, 128>>, <<1, 128, 128>>,
    <<1, 512, 128>>, <<1, 2048, 128>>, <<128, 128, 128>> }

(* <<head_dim, seq, pairs>> with a compiled rotary kernel. *)
RotarySpecs == { <<2, 1, 1>>, <<2, 2, 1>>, <<128, 1, 64>>, <<128, 128, 64>> }

TensorValue == [rows: Nat, token: Nat, pos: Nat]
NoTensors == [n \in {} |-> 0]
Parameter == [rows |-> 0, token |-> 0, pos |-> 0]  \* a weight

-----------------------------------------------------------------------------
(* The node run() is at *)

Running == next \in 1..NumNodes
ThisNode == NodeAt(next)
Input(i) == env[ThisNode.inputs[i]]
HasInputs == InputsOf(next) \subseteq DOMAIN env

(* inputs found in `tensors`, then registry_.create(), then compute(). *)
Computing(ops) ==
  Running /\ HasInputs /\ ThisNode.op \in registered /\ ThisNode.op \in ops

(* tensors[node.outputs[i]] = output_storage[i] *)
Bind(values) ==
  [n \in DOMAIN env \union OutputsOf(next) |->
     IF n \in OutputsOf(next)
     THEN values[CHOOSE i \in DOMAIN ThisNode.outputs : ThisNode.outputs[i] = n]
     ELSE env[n]]

(* attrs.value_or("start_pos", 0) *)
StartPos == IF "start_pos" \in DOMAIN ThisNode.attrs THEN ThisNode.attrs.start_pos ELSE 0

(* The rows an attention node hands to append(), one per token row. *)
RowsOf(t) == [i \in 1..t.rows |-> [token |-> t.token, pos |-> t.pos]]
Chunk == [key |-> RowsOf(Input(2)), value |-> RowsOf(Input(3))]

AttentionLayer == ThisNode.attrs.kv_cache

(* The cache as ChunkLog sees it.  The chunk is there while run() is at an *)
(* attention node; a new entry shares it until the node is done.           *)
Cache == INSTANCE ChunkLog WITH
  Names <- LayerIds,
  log <- kv,
  chunk <- IF Computing({"attention"}) THEN Chunk ELSE None,
  shared <- IF stage = "attend" /\ kv[AttentionLayer] = Chunk THEN {AttentionLayer} ELSE {},
  outcome <- appended

-----------------------------------------------------------------------------
(* The caller *)

(* registry().loadLibrary() of the generated plugin. *)
LoadPlugin ==
  /\ next = 0
  /\ registered' = registered \union PluginOps
  /\ UNCHANGED <<kv, env, next, stage, given, token, outcome, appended, runs, accepted, failures>>

(* run(graph, inputs) for the next token, or again for the last one.  The  *)
(* caller may forget the weights or the token ids.                         *)
Submit(tok, rows, names) ==
  /\ next = 0
  /\ runs < MaxRuns
  /\ env' = [n \in names |->
               IF n = InputIds THEN [rows |-> rows, token |-> tok, pos |-> 0] ELSE Parameter]
  /\ next' = 1
  /\ stage' = "start"
  /\ given' = names
  /\ token' = tok
  /\ runs' = runs + 1
  /\ outcome' = "none"
  /\ UNCHANGED <<registered, kv, appended, accepted, failures>>

(* Mutant: only the first layer's entry is removed. *)
ClearedFirst == [kv EXCEPT ![0] = None]
Cleared == [l \in LayerIds |-> None]

(* kvCache().clear(), which C++ callers have. *)
ClearCache ==
  /\ next = 0
  /\ kv' = Cleared
  /\ accepted' = << >>
  /\ failures' = 0
  /\ UNCHANGED <<registered, env, next, stage, given, token, outcome, appended, runs>>

-----------------------------------------------------------------------------
(* run() *)

(* Mutant: the tensor map outlives the run. *)
ThrowKeepsTensors(why) ==
  /\ outcome' = why
  /\ next' = 0
  /\ stage' = "start"
  /\ failures' = failures + 1
  /\ UNCHANGED <<registered, kv, env, given, token, appended, runs, accepted>>

(* An exception leaves run(): the tensor map dies, the cache stays. *)
Throw(why) ==
  /\ outcome' = why
  /\ env' = NoTensors
  /\ next' = 0
  /\ stage' = "start"
  /\ failures' = failures + 1
  /\ UNCHANGED <<registered, kv, given, token, appended, runs, accepted>>

MissingInput == Running /\ ~HasInputs /\ Throw("missing input")

NotRegistered == Running /\ HasInputs /\ ThisNode.op \notin registered /\ Throw("not registered")

NextNode == next + 1

(* The node has assigned its outputs: on to the next one. *)
Outputs(values) ==
  /\ env' = Bind(values)
  /\ next' = NextNode
  /\ stage' = "start"
  /\ UNCHANGED <<registered, kv, given, token, outcome, appended, runs, accepted, failures>>

(* Operators that keep the rows of their first input. *)
Compute ==
  /\ Computing(PluginOps \ {"reshape", "rotary_embedding", "attention"})
  /\ Outputs(<<Input(1)>>)

(* Mutant: the row count is inferred, as a -1 in the target shape would. *)
ReshapeAnyRows == Computing({"reshape"}) /\ Outputs(<<Input(1)>>)

(* A view: the target shape must have as many elements as the input. *)
Reshape ==
  /\ Computing({"reshape"})
  /\ IF Input(1).rows = ThisNode.attrs.rows
     THEN Outputs(<<Input(1)>>)
     ELSE Throw("shape")

RotaryKey == <<HeadDim, Input(1).rows, HeadDim \div 2>>

Rotate(t) == [t EXCEPT !.pos = StartPos]

Rotary ==
  /\ Computing({"rotary_embedding"})
  /\ IF RotaryKey \in RotarySpecs
     THEN Outputs(<<Rotate(Input(1)), Rotate(Input(2))>>)
     ELSE Throw("no specialization")

(* Mutant: the new rows are put before the cached ones. *)
GrownPrepends(old) == IF old = None THEN Chunk ELSE Cache!Append2(Chunk, old)
(* Mutant: an append replaces what is cached. *)
GrownReplaces(old) == Chunk
Grown(old) == IF old = None THEN Chunk ELSE Cache!Append2(old, Chunk)

(* attention appends first and looks at what it got, then ... *)
AttentionAppend ==
  /\ Computing({"attention"})
  /\ stage = "start"
  /\ kv' = [kv EXCEPT ![AttentionLayer] = Grown(@)]
  /\ stage' = "attend"
  /\ appended' = "ok"
  /\ UNCHANGED <<registered, env, next, given, token, outcome, runs, accepted, failures>>

AttentionKey == <<Input(1).rows, Len(kv[AttentionLayer].key), HeadDim>>

(* ... checks the rest, allocates the output and launches. *)
Attend ==
  /\ Computing({"attention"})
  /\ stage = "attend"
  /\ IF AttentionKey \in AttentionSpecs
     THEN Outputs(<<Input(1)>>)
     ELSE Throw("no specialization")

(* An allocation, a copy or a launch fails, in the node or in append();    *)
(* a reshape does none of these.                                           *)
DeviceFails ==
  Computing(PluginOps \ {"reshape"}) /\ Throw("failed")

(* The result is taken from the tensor map. *)
Return ==
  /\ next = NumNodes + 1
  /\ IF GraphOutputs \subseteq DOMAIN env
     THEN /\ outcome' = "ok"
          /\ accepted' = Append(accepted, token)
          /\ env' = NoTensors
          /\ next' = 0
          /\ UNCHANGED <<registered, kv, stage, given, token, appended, runs, failures>>
     ELSE Throw("no output")

Step ==
  \/ MissingInput
  \/ NotRegistered
  \/ Compute
  \/ Reshape
  \/ Rotary
  \/ AttentionAppend
  \/ Attend
  \/ DeviceFails
  \/ Return

-----------------------------------------------------------------------------
Init ==
  /\ registered = {"aten"}
  /\ kv = [l \in LayerIds |-> None]
  /\ env = NoTensors
  /\ next = 0
  /\ stage = "start"
  /\ given = {}
  /\ token = 0
  /\ outcome = "none"
  /\ appended = "none"
  /\ runs = 0
  /\ accepted = << >>
  /\ failures = 0

Next ==
  \/ LoadPlugin
  \/ \E tok \in {token, token + 1} \ {0}, rows \in 1..MaxRows,
        names \in {Given, Weights, GraphInputs} : Submit(tok, rows, names)
  \/ ClearCache
  \/ Step

Spec == Init /\ [][Next]_vars


-----------------------------------------------------------------------------
(* Properties *)

Outcomes == {"none", "ok", "missing input", "not registered", "shape", "no specialization",
             "failed", "no output"}

TypeOK ==
  /\ registered \subseteq PluginOps \union {"aten"}
  /\ kv \in [LayerIds -> Entry \union {None}]
  /\ env \in [DOMAIN env -> TensorValue]
  /\ next \in 0..(NumNodes + 1)
  /\ next = 0 => env = NoTensors
  /\ stage \in {"start", "attend"}
  /\ given \in {{}, Given, Weights, GraphInputs}
  /\ token \in Nat
  /\ outcome \in Outcomes
  /\ appended \in {"none", "ok"}
  /\ runs \in 0..MaxRuns
  /\ accepted \in Seq(Nat)
  /\ failures \in Nat

(* The exported graph and the weights file fit together: whoever gives     *)
(* run() both gets no "missing input tensor" and no "was not produced",    *)
(* in whichever state earlier runs left the engine.                        *)
NamesResolve == given = Given => outcome \notin {"missing input", "no output"}

(* The map keeps one tensor per name: no node writes a name the caller     *)
(* gave, weights included, or an earlier node of the run has written, so   *)
(* every reader gets the tensor the graph means.                           *)
WritesAreFresh ==
  Running /\ stage = "start" => OutputsOf(next) \intersect DOMAIN env = {}

CachedTokens(rows) == [i \in DOMAIN rows |-> rows[i].token]
KeyRows(l) == IF kv[l] = None THEN << >> ELSE kv[l].key
ValueRows(l) == IF kv[l] = None THEN << >> ELSE kv[l].value

(* The run in progress has already appended to the entry of layer l. *)
HasAppended(l) ==
  next > AttentionIndex(l) \/ (next = AttentionIndex(l) /\ stage = "attend")

(* While no run has thrown, every layer has cached exactly the tokens of   *)
(* the runs that returned, in order, and the current one where its         *)
(* attention has started: all layers attend to the same context.           *)
LayersInLockstep ==
  failures = 0 =>
    \A l \in LayerIds :
      LET context == accepted \o (IF HasAppended(l) THEN <<token>> ELSE << >>)
      IN CachedTokens(KeyRows(l)) = context /\ CachedTokens(ValueRows(l)) = context

(* A run that throws leaves behind what it has cached.  Each one leaves at *)
(* most one row in a layer, and never more in a later layer than in an     *)
(* earlier one; no row of a run that returned is lost.                     *)
DriftIsBounded ==
  \A l \in LayerIds :
    LET now == IF HasAppended(l) THEN 1 ELSE 0
    IN /\ Len(accepted) + now <= Len(KeyRows(l))
       /\ Len(KeyRows(l)) <= Len(accepted) + now + failures
       /\ l + 1 \in LayerIds => Len(KeyRows(l + 1)) <= Len(KeyRows(l))

(* input_ids with several tokens cannot be run by the single-token graph:  *)
(* it is refused while the cache is still untouched.                       *)
PromptLeavesCache ==
  [][(InputIds \in DOMAIN env /\ env[InputIds].rows > 1) => UNCHANGED kv]_vars

(* Whatever the run does, the cache sees chunks appended to one layer at a *)
(* time, and clear().                                                      *)
CacheSeesAppends == Cache!Spec

(* s is what remains of t when some of its elements are left out. *)
IsSubsequence(s, t) ==
  \E f \in [DOMAIN s -> DOMAIN t] :
    /\ \A i \in DOMAIN s : t[f[i]] = s[i]
    /\ \A i, j \in DOMAIN s : i < j => f[i] < f[j]

(* However many runs have thrown, and wherever: every token of a run that  *)
(* returned is in the context of every layer, in the order of the runs,    *)
(* and what a later layer attends to an earlier one does too, in the same  *)
(* order.  Retries add tokens to a layer; they never exchange any.         *)
ContextsNest ==
  \A l \in LayerIds :
    LET now == IF HasAppended(l) THEN <<token>> ELSE << >>
    IN /\ IsSubsequence(accepted \o now, CachedTokens(KeyRows(l)))
       /\ l + 1 \in LayerIds =>
            IsSubsequence(CachedTokens(KeyRows(l + 1)), CachedTokens(KeyRows(l)))

(* rotary/kernel.py:38-39: start_pos is the position of the first token,   *)
(* "e.g. the KV-cache length during decoding".                             *)
RotatedToItsPosition ==
  failures = 0 =>
    \A l \in LayerIds : \A i \in DOMAIN KeyRows(l) : KeyRows(l)[i].pos = i - 1
=============================================================================
