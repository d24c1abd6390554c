---------------------------- MODULE Qwen2Export -----------------------------
(***************************************************************************)
(* The graph _export_qwen2_causal_lm (python/dli_export/export.py) writes: *)
(* an embedding, 19 nodes per decoder layer, the final norm and lm_head,   *)
(* and the weights its WeightWriter saves beside it.                       *)
(*                                                                         *)
(* Tensor names are tuples: <<"q", 2>> is "layers_2_q", <<"q_proj",        *)
(* "weight", 2>> is "model.layers.2.self_attn.q_proj.weight", and global   *)
(* names are <<"logits">>.  Sizes are those of one token row, the only     *)
(* thing about a shape that differs between runs.                          *)
(***************************************************************************)
EXTENDS Integers, Sequences

CONSTANTS
  Layers,   \* num_hidden_layers
  Biased    \* the linear modules that have a bias

Linears == {"q_proj", "k_proj", "v_proj", "o_proj", "gate_proj", "up_proj", "down_proj", "lm_head"}

ASSUME Qwen2Assumption == Layers \in Nat /\ Biased \subseteq Linears

-----------------------------------------------------------------------------
(* Names *)

InputIds == <<"input_ids">>
Logits == <<"logits">>
Embedding == <<"embed_tokens", "weight">>
Cos == <<"rotary_cos">>
Sin == <<"rotary_sin">>
FinalNorm == <<"norm", "weight">>
Weight(module, l) == <<module, "weight", l>>
Bias(module, l) == <<module, "bias", l>>

(* Mutant: hidden_name is never renamed. *)
HiddenKeepsName(l) == <<"hidden_states">>

(* hidden_name when layer l starts: what the layer before it has left. *)
Hidden(l) == IF l = 0 THEN <<"hidden_states">> ELSE <<"output", l - 1>>

-----------------------------------------------------------------------------
(* Weights: what weights.add() has seen when weights.write() runs. *)

(* _linear_inputs: the source, the weight and the bias if the layer has one. *)
LinearInputs(source, module, l) ==
  IF module \in Biased THEN <<source, Weight(module, l), Bias(module, l)>>
                       ELSE <<source, Weight(module, l)>>

(* Mutant: only the weights are saved. *)
LinearWeightsNoBias(module, l) == {Weight(module, l)}

LinearWeights(module, l) ==
  {Weight(module, l)} \union (IF module \in Biased THEN {Bias(module, l)} ELSE {})

LayerWeights(l) ==
  {Weight("input_layernorm", l), Weight("post_attention_layernorm", l)}
    \union UNION {LinearWeights(m, l) : m \in Linears \ {"lm_head"}}

Weights ==
  {Embedding, Cos, Sin, FinalNorm}
    \union LinearWeights("lm_head", Layers)
    \union UNION {LayerWeights(l) : l \in 0..(Layers - 1)}

-----------------------------------------------------------------------------
(* Nodes *)

Node(op, inputs, outputs, attrs) == [op |-> op, inputs |-> inputs, outputs |-> outputs, attrs |-> attrs]
NoAttrs == [a \in {} |-> 0]  \* or eps, which only the numbers depend on
Plain(op, inputs, output) == Node(op, inputs, <<output>>, NoAttrs)
Linear(source, module, l, output) == Plain("linear", LinearInputs(source, module, l), output)

(* A reshape to one token row: [1, heads, 1, head_dim] or [1, hidden]. *)
OneRow(source, output) == Node("reshape", <<source>>, <<output>>, [rows |-> 1])

(* Mutant: the layers share one cache entry. *)
AttentionAttrsOneCache(l) == [causal |-> TRUE, kv_cache |-> 0]

(* "kv_cache" is the name of the entry, one per layer. *)
AttentionAttrs(l) == [causal |-> TRUE, kv_cache |-> l]

(* The s-th node of layer l. *)
LayerNode(l, s) ==
  CASE s = 0 -> Plain("rms_norm", <<Hidden(l), Weight("input_layernorm", l)>>, <<"input_norm", l>>)
    [] s = 1 -> Linear(<<"input_norm", l>>, "q_proj", l, <<"q", l>>)
    [] s = 2 -> Linear(<<"input_norm", l>>, "k_proj", l, <<"k", l>>)
    [] s = 3 -> Linear(<<"input_norm", l>>, "v_proj", l, <<"v", l>>)
    [] s = 4 -> OneRow(<<"q", l>>, <<"q_heads", l>>)
    [] s = 5 -> OneRow(<<"k", l>>, <<"k_heads", l>>)
    [] s = 6 -> OneRow(<<"v", l>>, <<"v_heads", l>>)
    [] s = 7 -> Node("rotary_embedding", << <<"q_heads", l>>, <<"k_heads", l>>, Cos, Sin >>,
                     << <<"q_rotary", l>>, <<"k_rotary", l>> >>, NoAttrs)
    [] s = 8 -> Node("attention", << <<"q_rotary", l>>, <<"k_rotary", l>>, <<"v_heads", l>> >>,
                     << <<"attention", l>> >>, AttentionAttrs(l))
    [] s = 9 -> OneRow(<<"attention", l>>, <<"attention_merged", l>>)
    [] s = 10 -> Linear(<<"attention_merged", l>>, "o_proj", l, <<"attention_proj", l>>)
    [] s = 11 -> Plain("add", <<Hidden(l), <<"attention_proj", l>> >>, <<"after_attention", l>>)
    [] s = 12 -> Plain("rms_norm",
                       << <<"after_attention", l>>, Weight("post_attention_layernorm", l) >>,
                       <<"post_attention_norm", l>>)
    [] s = 13 -> Linear(<<"post_attention_norm", l>>, "gate_proj", l, <<"gate", l>>)
    [] s = 14 -> Linear(<<"post_attention_norm", l>>, "up_proj", l, <<"up", l>>)
    [] s = 15 -> Plain("silu", << <<"gate", l>> >>, <<"silu", l>>)
    [] s = 16 -> Plain("mul", << <<"silu", l>>, <<"up", l>> >>, <<"gated", l>>)
    [] s = 17 -> Linear(<<"gated", l>>, "down_proj", l, <<"mlp_down", l>>)
    [] s = 18 -> Plain("add", << <<"after_attention", l>>, <<"mlp_down", l>> >>, Hidden(l + 1))

LayerSize == 19
NumNodes == LayerSize * Layers + 3

(* graph.nodes[i], counted from 1. *)
NodeAt(i) ==
  IF i = 1 THEN Plain("embedding", <<InputIds, Embedding>>, Hidden(0))
  ELSE IF i <= NumNodes - 2 THEN LayerNode((i - 2) \div LayerSize, (i - 2) % LayerSize)
  ELSE IF i = NumNodes - 1
       THEN Plain("rms_norm", <<Hidden(Layers), FinalNorm>>, <<"norm_hidden">>)
       ELSE Linear(<<"norm_hidden">>, "lm_head", Layers, Logits)

InputsOf(i) == {NodeAt(i).inputs[j] : j \in DOMAIN NodeAt(i).inputs}
OutputsOf(i) == {NodeAt(i).outputs[j] : j \in DOMAIN NodeAt(i).outputs}

(* The position of the attention node of layer l. *)
AttentionIndex(l) == 2 + LayerSize * l + 8

GraphInputs == {InputIds}
GraphOutputs == {Logits}

-----------------------------------------------------------------------------
(* What the caller of run() has to give: the weights file and graph inputs. *)
Given == GraphInputs \union Weights

(* What is in the tensor map when the nodes before i have run. *)
Available(i) == Given \union UNION {OutputsOf(j) : j \in 1..(i - 1)}

(* The nodes are topologically sorted, as Engine::run demands (engine.h):  *)
(* a node only reads what the caller gives, the weights file included, and *)
(* what the nodes before it have produced.                                 *)
TopologicallySorted == \A i \in 1..NumNodes : InputsOf(i) \subseteq Available(i)
=============================================================================
