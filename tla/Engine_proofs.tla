--------------------------- MODULE Engine_proofs ----------------------------
(***************************************************************************)
(* Proofs about the exported graph and a decode session that runs it, for  *)
(* any number of layers, any biases, any head dimension and any number of  *)
(* runs.  First, the graph is topologically sorted: what a node reads is   *)
(* given by the caller, or produced earlier in the same layer, or is the   *)
(* hidden state the layer before has left.                                 *)
(***************************************************************************)
EXTENDS Engine, SequenceTheorems, TLAPS

LayerRange == 0..(Layers - 1)

(* Where the s-th node of layer l is in the list. *)
Place(l, s) == 2 + LayerSize * l + s

-----------------------------------------------------------------------------
(* The list: place 1, the places of the layers, and the last two. *)

LEMMA PlaceIsANode ==
  ASSUME NEW l \in LayerRange, NEW s \in 0..18
  PROVE  /\ Place(l, s) \in 1..NumNodes
         /\ NodeAt(Place(l, s)) = LayerNode(l, s)
<1>1. Place(l, s) \in Int /\ Place(l, s) >= 2 /\ Place(l, s) <= NumNodes - 2
  BY Qwen2Assumption DEF Place, LayerSize, NumNodes, LayerRange
<1>2. (Place(l, s) - 2) \div LayerSize = l /\ (Place(l, s) - 2) % LayerSize = s
  BY DEF Place, LayerSize, LayerRange
<1>3. NumNodes \in Int
  BY Qwen2Assumption DEF NumNodes, LayerSize
<1> QED
  BY <1>1, <1>2, <1>3 DEF NodeAt

LEMMA EveryPlace ==
  ASSUME NEW i \in 1..NumNodes, i # 1, i # NumNodes - 1, i # NumNodes
  PROVE  \E l \in LayerRange, s \in 0..18 : i = Place(l, s)
<1> DEFINE l == (i - 2) \div 19
           s == (i - 2) % 19
<1>1. l \in LayerRange /\ s \in 0..18 /\ i = 2 + 19 * l + s
  BY Qwen2Assumption DEF LayerRange, NumNodes, LayerSize
<1> QED
  BY <1>1 DEF Place, LayerSize

-----------------------------------------------------------------------------
(* What a node writes and reads, by its lists. *)

LEMMA OneOutput ==
  ASSUME NEW i, NEW x, NodeAt(i).outputs = <<x>>
  PROVE  OutputsOf(i) = {x}
BY DEF OutputsOf

LEMMA TwoOutputs ==
  ASSUME NEW i, NEW x, NEW y, NodeAt(i).outputs = <<x, y>>
  PROVE  OutputsOf(i) = {x, y}
BY DEF OutputsOf

LEMMA OneInput ==
  ASSUME NEW i, NEW x, NodeAt(i).inputs = <<x>>
  PROVE  InputsOf(i) = {x}
BY DEF InputsOf

LEMMA TwoInputs ==
  ASSUME NEW i, NEW x, NEW y, NodeAt(i).inputs = <<x, y>>
  PROVE  InputsOf(i) = {x, y}
BY DEF InputsOf

LEMMA ThreeInputs ==
  ASSUME NEW i, NEW x, NEW y, NEW z, NodeAt(i).inputs = <<x, y, z>>
  PROVE  InputsOf(i) = {x, y, z}
BY DEF InputsOf

LEMMA FourInputs ==
  ASSUME NEW i, NEW w, NEW x, NEW y, NEW z, NodeAt(i).inputs = <<w, x, y, z>>
  PROVE  InputsOf(i) = {w, x, y, z}
BY DEF InputsOf

(* A linear node reads its source and weights that are in the weights file. *)
LEMMA LinearReads ==
  ASSUME NEW i, NEW x, NEW m, NEW l, NodeAt(i).inputs = LinearInputs(x, m, l)
  PROVE  InputsOf(i) \subseteq {x} \union LinearWeights(m, l)
<1>1. CASE m \in Biased
  BY <1>1, ThreeInputs DEF LinearInputs, LinearWeights
<1>2. CASE m \notin Biased
  BY <1>2, TwoInputs DEF LinearInputs, LinearWeights
<1> QED
  BY <1>1, <1>2

-----------------------------------------------------------------------------
(* What the nodes of a layer write. *)

Produces(l) ==
  /\ OutputsOf(Place(l, 0)) = {<<"input_norm", l>>}
  /\ OutputsOf(Place(l, 1)) = {<<"q", l>>}
  /\ OutputsOf(Place(l, 2)) = {<<"k", l>>}
  /\ OutputsOf(Place(l, 3)) = {<<"v", l>>}
  /\ OutputsOf(Place(l, 4)) = {<<"q_heads", l>>}
  /\ OutputsOf(Place(l, 5)) = {<<"k_heads", l>>}
  /\ OutputsOf(Place(l, 6)) = {<<"v_heads", l>>}
  /\ OutputsOf(Place(l, 7)) = {<<"q_rotary", l>>, <<"k_rotary", l>>}
  /\ OutputsOf(Place(l, 8)) = {<<"attention", l>>}
  /\ OutputsOf(Place(l, 9)) = {<<"attention_merged", l>>}
  /\ OutputsOf(Place(l, 10)) = {<<"attention_proj", l>>}
  /\ OutputsOf(Place(l, 11)) = {<<"after_attention", l>>}
  /\ OutputsOf(Place(l, 12)) = {<<"post_attention_norm", l>>}
  /\ OutputsOf(Place(l, 13)) = {<<"gate", l>>}
  /\ OutputsOf(Place(l, 14)) = {<<"up", l>>}
  /\ OutputsOf(Place(l, 15)) = {<<"silu", l>>}
  /\ OutputsOf(Place(l, 16)) = {<<"gated", l>>}
  /\ OutputsOf(Place(l, 17)) = {<<"mlp_down", l>>}
  /\ OutputsOf(Place(l, 18)) = {Hidden(l + 1)}

LEMMA LayerProduces ==
  ASSUME NEW l \in LayerRange
  PROVE  Produces(l)
<1>a. ASSUME NEW s \in 0..18
      PROVE  NodeAt(Place(l, s)) = LayerNode(l, s)
  BY PlaceIsANode
<1>0. OutputsOf(Place(l, 0)) = {<<"input_norm", l>>}
  <2>1. LayerNode(l, 0).outputs = << <<"input_norm", l>> >>
    BY DEF LayerNode, Plain, Node, Linear, OneRow
  <2> QED
    BY <2>1, <1>a, OneOutput
<1>1. OutputsOf(Place(l, 1)) = {<<"q", l>>}
  <2>1. LayerNode(l, 1).outputs = << <<"q", l>> >>
    BY DEF LayerNode, Plain, Node, Linear, OneRow
  <2> QED
    BY <2>1, <1>a, OneOutput
<1>2. OutputsOf(Place(l, 2)) = {<<"k", l>>}
  <2>1. LayerNode(l, 2).outputs = << <<"k", l>> >>
    BY DEF LayerNode, Plain, Node, Linear, OneRow
  <2> QED
    BY <2>1, <1>a, OneOutput
<1>3. OutputsOf(Place(l, 3)) = {<<"v", l>>}
  <2>1. LayerNode(l, 3).outputs = << <<"v", l>> >>
    BY DEF LayerNode, Plain, Node, Linear, OneRow
  <2> QED
    BY <2>1, <1>a, OneOutput
<1>4. OutputsOf(Place(l, 4)) = {<<"q_heads", l>>}
  <2>1. LayerNode(l, 4).outputs = << <<"q_heads", l>> >>
    BY DEF LayerNode, Plain, Node, Linear, OneRow
  <2> QED
    BY <2>1, <1>a, OneOutput
<1>5. OutputsOf(Place(l, 5)) = {<<"k_heads", l>>}
  <2>1. LayerNode(l, 5).outputs = << <<"k_heads", l>> >>
    BY DEF LayerNode, Plain, Node, Linear, OneRow
  <2> QED
    BY <2>1, <1>a, OneOutput
<1>6. OutputsOf(Place(l, 6)) = {<<"v_heads", l>>}
  <2>1. LayerNode(l, 6).outputs = << <<"v_heads", l>> >>
    BY DEF LayerNode, Plain, Node, Linear, OneRow
  <2> QED
    BY <2>1, <1>a, OneOutput
<1>7. OutputsOf(Place(l, 7)) = {<<"q_rotary", l>>, <<"k_rotary", l>>}
  <2>1. LayerNode(l, 7).outputs = << <<"q_rotary", l>>, <<"k_rotary", l>> >>
    BY DEF LayerNode, Plain, Node, Linear, OneRow
  <2> QED
    BY <2>1, <1>a, TwoOutputs
<1>8. OutputsOf(Place(l, 8)) = {<<"attention", l>>}
  <2>1. LayerNode(l, 8).outputs = << <<"attention", l>> >>
    BY DEF LayerNode, Plain, Node, Linear, OneRow
  <2> QED
    BY <2>1, <1>a, OneOutput
<1>9. OutputsOf(Place(l, 9)) = {<<"attention_merged", l>>}
  <2>1. LayerNode(l, 9).outputs = << <<"attention_merged", l>> >>
    BY DEF LayerNode, Plain, Node, Linear, OneRow
  <2> QED
    BY <2>1, <1>a, OneOutput
<1>10. OutputsOf(Place(l, 10)) = {<<"attention_proj", l>>}
  <2>1. LayerNode(l, 10).outputs = << <<"attention_proj", l>> >>
    BY DEF LayerNode, Plain, Node, Linear, OneRow
  <2> QED
    BY <2>1, <1>a, OneOutput
<1>11. OutputsOf(Place(l, 11)) = {<<"after_attention", l>>}
  <2>1. LayerNode(l, 11).outputs = << <<"after_attention", l>> >>
    BY DEF LayerNode, Plain, Node, Linear, OneRow
  <2> QED
    BY <2>1, <1>a, OneOutput
<1>12. OutputsOf(Place(l, 12)) = {<<"post_attention_norm", l>>}
  <2>1. LayerNode(l, 12).outputs = << <<"post_attention_norm", l>> >>
    BY DEF LayerNode, Plain, Node, Linear, OneRow
  <2> QED
    BY <2>1, <1>a, OneOutput
<1>13. OutputsOf(Place(l, 13)) = {<<"gate", l>>}
  <2>1. LayerNode(l, 13).outputs = << <<"gate", l>> >>
    BY DEF LayerNode, Plain, Node, Linear, OneRow
  <2> QED
    BY <2>1, <1>a, OneOutput
<1>14. OutputsOf(Place(l, 14)) = {<<"up", l>>}
  <2>1. LayerNode(l, 14).outputs = << <<"up", l>> >>
    BY DEF LayerNode, Plain, Node, Linear, OneRow
  <2> QED
    BY <2>1, <1>a, OneOutput
<1>15. OutputsOf(Place(l, 15)) = {<<"silu", l>>}
  <2>1. LayerNode(l, 15).outputs = << <<"silu", l>> >>
    BY DEF LayerNode, Plain, Node, Linear, OneRow
  <2> QED
    BY <2>1, <1>a, OneOutput
<1>16. OutputsOf(Place(l, 16)) = {<<"gated", l>>}
  <2>1. LayerNode(l, 16).outputs = << <<"gated", l>> >>
    BY DEF LayerNode, Plain, Node, Linear, OneRow
  <2> QED
    BY <2>1, <1>a, OneOutput
<1>17. OutputsOf(Place(l, 17)) = {<<"mlp_down", l>>}
  <2>1. LayerNode(l, 17).outputs = << <<"mlp_down", l>> >>
    BY DEF LayerNode, Plain, Node, Linear, OneRow
  <2> QED
    BY <2>1, <1>a, OneOutput
<1>18. OutputsOf(Place(l, 18)) = {Hidden(l + 1)}
  <2>1. LayerNode(l, 18).outputs = << Hidden(l + 1) >>
    BY DEF LayerNode, Plain, Node, Linear, OneRow
  <2> QED
    BY <2>1, <1>a, OneOutput
<1> QED
  BY <1>0, <1>1, <1>2, <1>3, <1>4, <1>5, <1>6, <1>7, <1>8, <1>9, <1>10, <1>11, <1>12, <1>13, <1>14, <1>15, <1>16, <1>17, <1>18 DEF Produces

(* What the nodes before have written is available. *)
LEMMA Earlier ==
  ASSUME NEW i \in Nat, NEW j \in 1..(i - 1), NEW x \in OutputsOf(j)
  PROVE  x \in Available(i)
BY DEF Available

LEMMA FirstProduces == OutputsOf(1) = {Hidden(0)}
<1>1. NodeAt(1).outputs = <<Hidden(0)>>
  BY DEF NodeAt, Plain, Node
<1> QED
  BY <1>1, OneOutput

(* The hidden state a layer, or the final norm, starts from is available. *)
LEMMA HiddenIsAvailable ==
  ASSUME NEW l \in 0..Layers, NEW i \in Nat, i >= 2 + LayerSize * l
  PROVE  Hidden(l) \in Available(i)
<1>1. CASE l = 0
  BY <1>1, FirstProduces, Earlier DEF LayerSize
<1>2. CASE l # 0
  <2>1. l - 1 \in LayerRange /\ (l - 1) + 1 = l
    BY <1>2, Qwen2Assumption DEF LayerRange
  <2>2. Hidden(l) \in OutputsOf(Place(l - 1, 18))
    BY <2>1, LayerProduces DEF Produces
  <2>3. Place(l - 1, 18) \in 1..(i - 1)
    BY <2>1 DEF Place, LayerSize, LayerRange
  <2> QED
    BY <2>2, <2>3, Earlier
<1> QED
  BY <1>1, <1>2

LEMMA LayerWeightsGiven ==
  ASSUME NEW l \in LayerRange, NEW i
  PROVE  LayerWeights(l) \subseteq Available(i)
BY DEF Available, Given, Weights, LayerRange

LEMMA LinearWeightsGiven ==
  ASSUME NEW l \in LayerRange, NEW i, NEW m \in Linears \ {"lm_head"}
  PROVE  LinearWeights(m, l) \subseteq Available(i)
BY LayerWeightsGiven DEF LayerWeights

(* What the s-th node of a layer has written is there from the next one on. *)
LEMMA SameLayer ==
  ASSUME NEW l \in LayerRange, NEW t \in 0..18, NEW s \in 0..18, s < t,
         NEW x \in OutputsOf(Place(l, s))
  PROVE  x \in Available(Place(l, t))
<1>1. Place(l, t) \in Nat /\ Place(l, s) \in 1..(Place(l, t) - 1)
  BY DEF Place, LayerSize, LayerRange
<1> QED
  BY <1>1, Earlier

-----------------------------------------------------------------------------
(* Every node of a layer finds its inputs. *)

LEMMA LayerFindsInputs ==
  ASSUME NEW l \in LayerRange, NEW t \in 0..18
  PROVE  InputsOf(Place(l, t)) \subseteq Available(Place(l, t))
<1> DEFINE here == Available(Place(l, t))
<1>a. Produces(l)
  BY LayerProduces
<1>b. NodeAt(Place(l, t)) = LayerNode(l, t)
  BY PlaceIsANode
<1>c. ASSUME NEW s \in 0..18, s < t, NEW x \in OutputsOf(Place(l, s))
      PROVE  x \in here
  BY <1>c, SameLayer
<1>d. Hidden(l) \in here
  <2>1. l \in 0..Layers /\ Place(l, t) \in Nat /\ Place(l, t) >= 2 + LayerSize * l
    BY Qwen2Assumption DEF Place, LayerSize, LayerRange
  <2> QED
    BY <2>1, HiddenIsAvailable
<1>e. ASSUME NEW m \in Linears \ {"lm_head"}
      PROVE  LinearWeights(m, l) \subseteq here
  BY LinearWeightsGiven
<1>f. /\ Weight("input_layernorm", l) \in here
      /\ Weight("post_attention_layernorm", l) \in here
      /\ Cos \in here /\ Sin \in here
  <2>1. LayerWeights(l) \subseteq here
    BY LayerWeightsGiven
  <2>2. {Weight("input_layernorm", l), Weight("post_attention_layernorm", l)} \subseteq LayerWeights(l)
    BY DEF LayerWeights
  <2>3. Cos \in here /\ Sin \in here
    BY DEF Available, Given, Weights
  <2> QED
    BY <2>1, <2>2, <2>3
<1> HIDE DEF here
<1>0. CASE t = 0
  <2>1. NodeAt(Place(l, t)).inputs = << Hidden(l), Weight("input_layernorm", l) >>
    BY <1>b, <1>0 DEF LayerNode, Plain, Node, OneRow
  <2>2. {Hidden(l), Weight("input_layernorm", l)} \subseteq here
    BY <1>0, <1>a, <1>c, <1>d, <1>f DEF Produces
  <2> QED
    BY <2>1, <2>2, TwoInputs DEF here
<1>1. CASE t = 1
  <2>1. NodeAt(Place(l, t)).inputs = LinearInputs(<<"input_norm", l>>, "q_proj", l)
    BY <1>b, <1>1 DEF LayerNode, Linear, Plain, Node
  <2>2. <<"input_norm", l>> \in here
    BY <1>1, <1>a, <1>c DEF Produces
  <2>3. LinearWeights("q_proj", l) \subseteq here
    BY <1>e DEF Linears
  <2> QED
    BY <2>1, <2>2, <2>3, LinearReads DEF here
<1>2. CASE t = 2
  <2>1. NodeAt(Place(l, t)).inputs = LinearInputs(<<"input_norm", l>>, "k_proj", l)
    BY <1>b, <1>2 DEF LayerNode, Linear, Plain, Node
  <2>2. <<"input_norm", l>> \in here
    BY <1>2, <1>a, <1>c DEF Produces
  <2>3. LinearWeights("k_proj", l) \subseteq here
    BY <1>e DEF Linears
  <2> QED
    BY <2>1, <2>2, <2>3, LinearReads DEF here
<1>3. CASE t = 3
  <2>1. NodeAt(Place(l, t)).inputs = LinearInputs(<<"input_norm", l>>, "v_proj", l)
    BY <1>b, <1>3 DEF LayerNode, Linear, Plain, Node
  <2>2. <<"input_norm", l>> \in here
    BY <1>3, <1>a, <1>c DEF Produces
  <2>3. LinearWeights("v_proj", l) \subseteq here
    BY <1>e DEF Linears
  <2> QED
    BY <2>1, <2>2, <2>3, LinearReads DEF here
<1>4. CASE t = 4
  <2>1. NodeAt(Place(l, t)).inputs = << <<"q", l>> >>
    BY <1>b, <1>4 DEF LayerNode, Plain, Node, OneRow
  <2>2. {<<"q", l>>} \subseteq here
    BY <1>4, <1>a, <1>c, <1>d, <1>f DEF Produces
  <2> QED
    BY <2>1, <2>2, OneInput DEF here
<1>5. CASE t = 5
  <2>1. NodeAt(Place(l, t)).inputs = << <<"k", l>> >>
    BY <1>b, <1>5 DEF LayerNode, Plain, Node, OneRow
  <2>2. {<<"k", l>>} \subseteq here
    BY <1>5, <1>a, <1>c, <1>d, <1>f DEF Produces
  <2> QED
    BY <2>1, <2>2, OneInput DEF here
<1>6. CASE t = 6
  <2>1. NodeAt(Place(l, t)).inputs = << <<"v", l>> >>
    BY <1>b, <1>6 DEF LayerNode, Plain, Node, OneRow
  <2>2. {<<"v", l>>} \subseteq here
    BY <1>6, <1>a, <1>c, <1>d, <1>f DEF Produces
  <2> QED
    BY <2>1, <2>2, OneInput DEF here
<1>7. CASE t = 7
  <2>1. NodeAt(Place(l, t)).inputs = << <<"q_heads", l>>, <<"k_heads", l>>, Cos, Sin >>
    BY <1>b, <1>7 DEF LayerNode, Plain, Node, OneRow
  <2>2. {<<"q_heads", l>>, <<"k_heads", l>>, Cos, Sin} \subseteq here
    BY <1>7, <1>a, <1>c, <1>d, <1>f DEF Produces
  <2> QED
    BY <2>1, <2>2, FourInputs DEF here
<1>8. CASE t = 8
  <2>1. NodeAt(Place(l, t)).inputs = << <<"q_rotary", l>>, <<"k_rotary", l>>, <<"v_heads", l>> >>
    BY <1>b, <1>8 DEF LayerNode, Plain, Node, OneRow
  <2>2. {<<"q_rotary", l>>, <<"k_rotary", l>>, <<"v_heads", l>>} \subseteq here
    BY <1>8, <1>a, <1>c, <1>d, <1>f DEF Produces
  <2> QED
    BY <2>1, <2>2, ThreeInputs DEF here
<1>9. CASE t = 9
  <2>1. NodeAt(Place(l, t)).inputs = << <<"attention", l>> >>
    BY <1>b, <1>9 DEF LayerNode, Plain, Node, OneRow
  <2>2. {<<"attention", l>>} \subseteq here
    BY <1>9, <1>a, <1>c, <1>d, <1>f DEF Produces
  <2> QED
    BY <2>1, <2>2, OneInput DEF here
<1>10. CASE t = 10
  <2>1. NodeAt(Place(l, t)).inputs = LinearInputs(<<"attention_merged", l>>, "o_proj", l)
    BY <1>b, <1>10 DEF LayerNode, Linear, Plain, Node
  <2>2. <<"attention_merged", l>> \in here
    BY <1>10, <1>a, <1>c DEF Produces
  <2>3. LinearWeights("o_proj", l) \subseteq here
    BY <1>e DEF Linears
  <2> QED
    BY <2>1, <2>2, <2>3, LinearReads DEF here
<1>11. CASE t = 11
  <2>1. NodeAt(Place(l, t)).inputs = << Hidden(l), <<"attention_proj", l>> >>
    BY <1>b, <1>11 DEF LayerNode, Plain, Node, OneRow
  <2>2. {Hidden(l), <<"attention_proj", l>>} \subseteq here
    BY <1>11, <1>a, <1>c, <1>d, <1>f DEF Produces
  <2> QED
    BY <2>1, <2>2, TwoInputs DEF here
<1>12. CASE t = 12
  <2>1. NodeAt(Place(l, t)).inputs = << <<"after_attention", l>>, Weight("post_attention_layernorm", l) >>
    BY <1>b, <1>12 DEF LayerNode, Plain, Node, OneRow
  <2>2. {<<"after_attention", l>>, Weight("post_attention_layernorm", l)} \subseteq here
    BY <1>12, <1>a, <1>c, <1>d, <1>f DEF Produces
  <2> QED
    BY <2>1, <2>2, TwoInputs DEF here
<1>13. CASE t = 13
  <2>1. NodeAt(Place(l, t)).inputs = LinearInputs(<<"post_attention_norm", l>>, "gate_proj", l)
    BY <1>b, <1>13 DEF LayerNode, Linear, Plain, Node
  <2>2. <<"post_attention_norm", l>> \in here
    BY <1>13, <1>a, <1>c DEF Produces
  <2>3. LinearWeights("gate_proj", l) \subseteq here
    BY <1>e DEF Linears
  <2> QED
    BY <2>1, <2>2, <2>3, LinearReads DEF here
<1>14. CASE t = 14
  <2>1. NodeAt(Place(l, t)).inputs = LinearInputs(<<"post_attention_norm", l>>, "up_proj", l)
    BY <1>b, <1>14 DEF LayerNode, Linear, Plain, Node
  <2>2. <<"post_attention_norm", l>> \in here
    BY <1>14, <1>a, <1>c DEF Produces
  <2>3. LinearWeights("up_proj", l) \subseteq here
    BY <1>e DEF Linears
  <2> QED
    BY <2>1, <2>2, <2>3, LinearReads DEF here
<1>15. CASE t = 15
  <2>1. NodeAt(Place(l, t)).inputs = << <<"gate", l>> >>
    BY <1>b, <1>15 DEF LayerNode, Plain, Node, OneRow
  <2>2. {<<"gate", l>>} \subseteq here
    BY <1>15, <1>a, <1>c, <1>d, <1>f DEF Produces
  <2> QED
    BY <2>1, <2>2, OneInput DEF here
<1>16. CASE t = 16
  <2>1. NodeAt(Place(l, t)).inputs = << <<"silu", l>>, <<"up", l>> >>
    BY <1>b, <1>16 DEF LayerNode, Plain, Node, OneRow
  <2>2. {<<"silu", l>>, <<"up", l>>} \subseteq here
    BY <1>16, <1>a, <1>c, <1>d, <1>f DEF Produces
  <2> QED
    BY <2>1, <2>2, TwoInputs DEF here
<1>17. CASE t = 17
  <2>1. NodeAt(Place(l, t)).inputs = LinearInputs(<<"gated", l>>, "down_proj", l)
    BY <1>b, <1>17 DEF LayerNode, Linear, Plain, Node
  <2>2. <<"gated", l>> \in here
    BY <1>17, <1>a, <1>c DEF Produces
  <2>3. LinearWeights("down_proj", l) \subseteq here
    BY <1>e DEF Linears
  <2> QED
    BY <2>1, <2>2, <2>3, LinearReads DEF here
<1>18. CASE t = 18
  <2>1. NodeAt(Place(l, t)).inputs = << <<"after_attention", l>>, <<"mlp_down", l>> >>
    BY <1>b, <1>18 DEF LayerNode, Plain, Node, OneRow
  <2>2. {<<"after_attention", l>>, <<"mlp_down", l>>} \subseteq here
    BY <1>18, <1>a, <1>c, <1>d, <1>f DEF Produces
  <2> QED
    BY <2>1, <2>2, TwoInputs DEF here
<1> QED
  BY <1>0, <1>1, <1>2, <1>3, <1>4, <1>5, <1>6, <1>7, <1>8, <1>9, <1>10, <1>11, <1>12, <1>13, <1>14, <1>15, <1>16, <1>17, <1>18 DEF here

-----------------------------------------------------------------------------
(* The exported nodes are topologically sorted, as engine.h:42 requires of *)
(* a graph: for every number of layers and every choice of biases, a node  *)
(* reads only tensors of the caller, of the weights file, or of the nodes  *)
(* before it.                                                              *)
THEOREM ExportIsSorted == TopologicallySorted
<1> SUFFICES ASSUME NEW i \in 1..NumNodes
             PROVE  InputsOf(i) \subseteq Available(i)
  BY DEF TopologicallySorted
<1>0. NumNodes \in Nat /\ NumNodes >= 3 /\ NumNodes = 2 + LayerSize * Layers + 1
  BY Qwen2Assumption DEF NumNodes, LayerSize
<1>1. CASE i = 1
  <2>1. NodeAt(i).inputs = <<InputIds, Embedding>>
    BY <1>1 DEF NodeAt, Plain, Node
  <2> QED
    BY <2>1, TwoInputs DEF Available, Given, GraphInputs, Weights
<1>2. CASE i = NumNodes - 1
  <2>1. NodeAt(i).inputs = <<Hidden(Layers), FinalNorm>>
    BY <1>0, <1>2 DEF NodeAt, Plain, Node
  <2>2. Hidden(Layers) \in Available(i)
    BY <1>0, <1>2, Qwen2Assumption, HiddenIsAvailable DEF LayerSize
  <2>3. FinalNorm \in Available(i)
    BY DEF Available, Given, Weights
  <2> QED
    BY <2>1, <2>2, <2>3, TwoInputs
<1>3. CASE i = NumNodes
  <2>1. NodeAt(i).inputs = LinearInputs(<<"norm_hidden">>, "lm_head", Layers)
    BY <1>0, <1>3 DEF NodeAt, Linear, Plain, Node
  <2>2. <<"norm_hidden">> \in Available(i)
    <3>1. NodeAt(NumNodes - 1).outputs = << <<"norm_hidden">> >>
      BY <1>0 DEF NodeAt, Plain, Node
    <3>2. <<"norm_hidden">> \in OutputsOf(NumNodes - 1)
      BY <3>1, OneOutput
    <3> QED
      BY <1>0, <1>3, <3>2, Earlier
  <2>3. LinearWeights("lm_head", Layers) \subseteq Available(i)
    BY DEF Available, Given, Weights
  <2> QED
    BY <2>1, <2>2, <2>3, LinearReads
<1>4. CASE i \notin {1, NumNodes - 1, NumNodes}
  BY <1>4, EveryPlace, LayerFindsInputs
<1> QED
  BY <1>1, <1>2, <1>3, <1>4

(* The last node writes the graph's only output. *)
LEMMA LastProduces == OutputsOf(NumNodes) = {Logits}
<1>1. NumNodes \in Nat /\ NumNodes >= 3
  BY Qwen2Assumption DEF NumNodes, LayerSize
<1>2. NodeAt(NumNodes).outputs = <<Logits>>
  BY <1>1 DEF NodeAt, Linear, Plain, Node
<1> QED
  BY <1>2, OneOutput

-----------------------------------------------------------------------------
(* Every name has one producer *)

WeightHeads ==
  Linears \union {"embed_tokens", "rotary_cos", "rotary_sin", "norm",
                  "input_layernorm", "post_attention_layernorm"}

LEMMA WeightsHaveHeads ==
  ASSUME NEW w \in Weights
  PROVE  w[1] \in WeightHeads
<1>1. ASSUME NEW m \in Linears, NEW l, w \in LinearWeights(m, l)
      PROVE  w[1] \in WeightHeads
  BY <1>1 DEF LinearWeights, Weight, Bias, WeightHeads
<1>2. ASSUME NEW l \in LayerRange, w \in LayerWeights(l)
      PROVE  w[1] \in WeightHeads
  <2>1. CASE w \in {Weight("input_layernorm", l), Weight("post_attention_layernorm", l)}
    BY <2>1 DEF Weight, WeightHeads
  <2>2. CASE \E m \in Linears : w \in LinearWeights(m, l)
    BY <2>2, <1>1
  <2> QED BY <1>2, <2>1, <2>2 DEF LayerWeights
<1>3. ASSUME w \in {Embedding, Cos, Sin, FinalNorm}
      PROVE  w[1] \in WeightHeads
  BY <1>3 DEF Embedding, Cos, Sin, FinalNorm, WeightHeads
<1>4. w \in LinearWeights("lm_head", Layers) => w[1] \in WeightHeads
  BY <1>1 DEF Linears
<1> QED BY <1>2, <1>3, <1>4 DEF Weights, LayerRange

(* The node that writes a name, 0 if it is one the caller gives. *)
Producer(n) ==
  CASE n[1] = "hidden_states" -> 1
    [] n[1] = "norm_hidden" -> NumNodes - 1
    [] n[1] = "logits" -> NumNodes
    [] n[1] = "input_norm" -> Place(n[2], 0)
    [] n[1] = "q" -> Place(n[2], 1)
    [] n[1] = "k" -> Place(n[2], 2)
    [] n[1] = "v" -> Place(n[2], 3)
    [] n[1] = "q_heads" -> Place(n[2], 4)
    [] n[1] = "k_heads" -> Place(n[2], 5)
    [] n[1] = "v_heads" -> Place(n[2], 6)
    [] n[1] = "q_rotary" -> Place(n[2], 7)
    [] n[1] = "k_rotary" -> Place(n[2], 7)
    [] n[1] = "attention" -> Place(n[2], 8)
    [] n[1] = "attention_merged" -> Place(n[2], 9)
    [] n[1] = "attention_proj" -> Place(n[2], 10)
    [] n[1] = "after_attention" -> Place(n[2], 11)
    [] n[1] = "post_attention_norm" -> Place(n[2], 12)
    [] n[1] = "gate" -> Place(n[2], 13)
    [] n[1] = "up" -> Place(n[2], 14)
    [] n[1] = "silu" -> Place(n[2], 15)
    [] n[1] = "gated" -> Place(n[2], 16)
    [] n[1] = "mlp_down" -> Place(n[2], 17)
    [] n[1] = "output" -> Place(n[2], 18)
    [] OTHER -> 0

LEMMA GivenHasNoProducer ==
  ASSUME NEW n \in Given
  PROVE  Producer(n) = 0
<1>1. n[1] \in WeightHeads \union {"input_ids"}
  BY WeightsHaveHeads DEF Given, GraphInputs, InputIds
<1> QED BY <1>1 DEF WeightHeads, Linears, Producer

LEMMA OutputHasItsProducer ==
  ASSUME NEW i \in 1..NumNodes, NEW n \in OutputsOf(i)
  PROVE  Producer(n) = i
<1>1. CASE i = 1
  BY <1>1, FirstProduces DEF Hidden, Producer
<1>2. CASE i = NumNodes - 1 /\ i # 1
  <2>1. NodeAt(i).outputs = << <<"norm_hidden">> >>
    BY <1>2, Qwen2Assumption DEF NodeAt, Plain, Node, NumNodes, LayerSize
  <2> QED BY <2>1, <1>2, OneOutput DEF Producer
<1>3. CASE i = NumNodes
  BY <1>3, LastProduces DEF Logits, Producer
<1>4. CASE i \notin {1, NumNodes - 1, NumNodes}
  <2>1. PICK l \in LayerRange, s \in 0..18 : i = Place(l, s)
    BY <1>4, EveryPlace
  <2>2. Produces(l)
    BY LayerProduces
  <2>3. Hidden(l + 1) = <<"output", l>>
    BY DEF Hidden, LayerRange
  <2> QED BY <2>1, <2>2, <2>3 DEF Produces, Producer
<1> QED BY <1>1, <1>2, <1>3, <1>4

(* No node writes a name that was there before: one the caller may give,   *)
(* or one an earlier node has written.                                     *)
LEMMA OutputsAreFresh ==
  ASSUME NEW i \in 1..NumNodes
  PROVE  OutputsOf(i) \intersect Available(i) = {}
<1>1. ASSUME NEW j \in 1..(i - 1), NEW n \in OutputsOf(j), n \in OutputsOf(i)
      PROVE  FALSE
  <2>1. j \in 1..NumNodes /\ j # i
    BY Qwen2Assumption DEF NumNodes, LayerSize
  <2> QED BY <1>1, <2>1, OutputHasItsProducer
<1>2. ASSUME NEW n \in Given, n \in OutputsOf(i)
      PROVE  FALSE
  BY <1>2, GivenHasNoProducer, OutputHasItsProducer
<1> QED BY <1>1, <1>2 DEF Available

-----------------------------------------------------------------------------
(* The nodes by their operators *)

NodeShape(node) ==
  /\ 1 \in DOMAIN node.inputs
  /\ node.inputs[1][1] \notin WeightHeads
  /\ node.op = "reshape" => node.attrs.rows = 1
  /\ node.op # "rotary_embedding" => DOMAIN node.outputs = {1}
  /\ node.op \in {"embedding", "rms_norm", "linear", "silu", "add", "mul", "reshape",
                  "rotary_embedding", "attention"}

LEMMA LayerNodeShape ==
  ASSUME NEW l \in LayerRange, NEW s \in 0..18
  PROVE  /\ NodeShape(LayerNode(l, s))
         /\ (LayerNode(l, s).op = "rotary_embedding") <=> (s = 7)
         /\ (LayerNode(l, s).op = "attention") <=> (s = 8)
         /\ (LayerNode(l, s).op = "reshape") <=> (s \in {4, 5, 6, 9})
<1>a. Hidden(l)[1] \in {"hidden_states", "output"}
  BY DEF Hidden
<1>0. CASE s = 0
  BY <1>0, <1>a DEF NodeShape, LayerNode, Plain, Node, WeightHeads, Linears
<1>1. CASE s = 1
  BY <1>1, <1>a DEF NodeShape, LayerNode, Linear, LinearInputs, Plain, Node, WeightHeads, Linears
<1>2. CASE s = 2
  BY <1>2, <1>a DEF NodeShape, LayerNode, Linear, LinearInputs, Plain, Node, WeightHeads, Linears
<1>3. CASE s = 3
  BY <1>3, <1>a DEF NodeShape, LayerNode, Linear, LinearInputs, Plain, Node, WeightHeads, Linears
<1>4. CASE s = 4
  BY <1>4, <1>a DEF NodeShape, LayerNode, Plain, Node, OneRow, WeightHeads, Linears
<1>5. CASE s = 5
  BY <1>5, <1>a DEF NodeShape, LayerNode, Plain, Node, OneRow, WeightHeads, Linears
<1>6. CASE s = 6
  BY <1>6, <1>a DEF NodeShape, LayerNode, Plain, Node, OneRow, WeightHeads, Linears
<1>7. CASE s = 7
  BY <1>7, <1>a DEF NodeShape, LayerNode, Plain, Node, WeightHeads, Linears
<1>8. CASE s = 8
  BY <1>8, <1>a DEF NodeShape, LayerNode, Plain, Node, WeightHeads, Linears
<1>9. CASE s = 9
  BY <1>9, <1>a DEF NodeShape, LayerNode, Plain, Node, OneRow, WeightHeads, Linears
<1>10. CASE s = 10
  BY <1>10, <1>a DEF NodeShape, LayerNode, Linear, LinearInputs, Plain, Node, WeightHeads, Linears
<1>11. CASE s = 11
  BY <1>11, <1>a DEF NodeShape, LayerNode, Plain, Node, WeightHeads, Linears
<1>12. CASE s = 12
  BY <1>12, <1>a DEF NodeShape, LayerNode, Plain, Node, WeightHeads, Linears
<1>13. CASE s = 13
  BY <1>13, <1>a DEF NodeShape, LayerNode, Linear, LinearInputs, Plain, Node, WeightHeads, Linears
<1>14. CASE s = 14
  BY <1>14, <1>a DEF NodeShape, LayerNode, Linear, LinearInputs, Plain, Node, WeightHeads, Linears
<1>15. CASE s = 15
  BY <1>15, <1>a DEF NodeShape, LayerNode, Plain, Node, WeightHeads, Linears
<1>16. CASE s = 16
  BY <1>16, <1>a DEF NodeShape, LayerNode, Plain, Node, WeightHeads, Linears
<1>17. CASE s = 17
  BY <1>17, <1>a DEF NodeShape, LayerNode, Linear, LinearInputs, Plain, Node, WeightHeads, Linears
<1>18. CASE s = 18
  BY <1>18, <1>a DEF NodeShape, LayerNode, Plain, Node, WeightHeads, Linears
<1> QED
  BY <1>0, <1>1, <1>2, <1>3, <1>4, <1>5, <1>6, <1>7, <1>8, <1>9, <1>10, <1>11, <1>12, <1>13, <1>14, <1>15, <1>16, <1>17, <1>18

LEMMA EveryNodeShape ==
  ASSUME NEW i \in 1..NumNodes
  PROVE  /\ NodeShape(NodeAt(i))
         /\ NodeAt(i).op = "rotary_embedding" => \E l \in LayerRange : i = Place(l, 7)
         /\ NodeAt(i).op = "attention" => \E l \in LayerRange : i = Place(l, 8)
         /\ NodeAt(i).op = "reshape" =>
              \E l \in LayerRange, s \in {4, 5, 6, 9} : i = Place(l, s)
<1>1. CASE i = 1
  BY <1>1 DEF NodeAt, NodeShape, Plain, Node, InputIds, WeightHeads, Linears
<1>2. CASE i = NumNodes - 1 /\ i # 1
  <2>1. NodeAt(i) = Plain("rms_norm", <<Hidden(Layers), FinalNorm>>, <<"norm_hidden">>)
    BY <1>2, Qwen2Assumption DEF NodeAt, NumNodes, LayerSize
  <2>2. Hidden(Layers)[1] \in {"hidden_states", "output"}
    BY DEF Hidden
  <2> QED BY <2>1, <2>2 DEF NodeShape, Plain, Node, WeightHeads, Linears
<1>3. CASE i = NumNodes
  <2>1. NodeAt(i) = Linear(<<"norm_hidden">>, "lm_head", Layers, Logits)
    BY <1>3, Qwen2Assumption DEF NodeAt, NumNodes, LayerSize
  <2> QED BY <2>1 DEF NodeShape, Linear, LinearInputs, Plain, Node, WeightHeads, Linears
<1>4. CASE i \notin {1, NumNodes - 1, NumNodes}
  <2>1. PICK l \in LayerRange, s \in 0..18 : i = Place(l, s)
    BY <1>4, EveryPlace
  <2>2. NodeAt(i) = LayerNode(l, s)
    BY <2>1, PlaceIsANode
  <2> QED BY <2>1, <2>2, LayerNodeShape
<1> QED BY <1>1, <1>2, <1>3, <1>4

(* The node that rotates, and the one that attends, by what they do. *)
LEMMA RotaryNode ==
  ASSUME NEW l \in LayerRange
  PROVE  /\ NodeAt(Place(l, 7)).inputs = << <<"q_heads", l>>, <<"k_heads", l>>, Cos, Sin >>
         /\ NodeAt(Place(l, 7)).outputs = << <<"q_rotary", l>>, <<"k_rotary", l>> >>
<1>1. NodeAt(Place(l, 7)) = LayerNode(l, 7)
  BY PlaceIsANode
<1> QED BY <1>1 DEF LayerNode, Node

LEMMA AttentionNode ==
  ASSUME NEW l \in LayerRange
  PROVE  /\ AttentionIndex(l) = Place(l, 8)
         /\ AttentionIndex(l) \in 1..NumNodes
         /\ NodeAt(AttentionIndex(l)).op = "attention"
         /\ NodeAt(AttentionIndex(l)).inputs =
              << <<"q_rotary", l>>, <<"k_rotary", l>>, <<"v_heads", l>> >>
         /\ NodeAt(AttentionIndex(l)).attrs.kv_cache = l
<1>1. AttentionIndex(l) = Place(l, 8)
  BY DEF AttentionIndex, Place, LayerSize, LayerRange
<1>2. NodeAt(Place(l, 8)) = LayerNode(l, 8) /\ Place(l, 8) \in 1..NumNodes
  BY PlaceIsANode
<1> QED BY <1>1, <1>2 DEF LayerNode, Node, AttentionAttrs

-----------------------------------------------------------------------------
(* Runs of the graph *)

NextInRange == next \in 0..(NumNodes + 1)

(* What the nodes before the current one have written is in the tensor map *)
(* of a run that was given everything.                                     *)
RunHasTensors == (given = Given /\ next # 0) => Available(next) \subseteq DOMAIN env

NamesInv == NextInRange /\ RunHasTensors /\ NamesResolve

LEMMA NumNodesNat == NumNodes \in Nat /\ NumNodes >= 3
BY Qwen2Assumption DEF NumNodes, LayerSize

LEMMA AvailableGrows ==
  ASSUME NEW i \in 1..NumNodes
  PROVE  Available(i + 1) = Available(i) \union OutputsOf(i)
<1>1. 1..((i + 1) - 1) = 1..(i - 1) \union {i}
  BY NumNodesNat
<1>2. UNION {OutputsOf(j) : j \in 1..((i + 1) - 1)}
        = (UNION {OutputsOf(j) : j \in 1..(i - 1)}) \union OutputsOf(i)
  BY <1>1
<1> QED
  BY <1>2 DEF Available

LEMMA AllAvailable == GraphOutputs \subseteq Available(NumNodes + 1)
BY NumNodesNat, AvailableGrows, LastProduces DEF GraphOutputs

LEMMA NothingProducedYet == Available(1) = Given
BY DEF Available

(* A node that succeeds keeps NamesInv. *)
LEMMA OutputsKeepNames ==
  ASSUME NEW values, NamesInv, Running, Outputs(values)
  PROVE  NamesInv'
<1>1. next' = next + 1 /\ next \in 1..NumNodes /\ given' = given /\ outcome' = outcome
  BY DEF Outputs, NextNode, Running
<1>2. NextInRange'
  BY <1>1, Qwen2Assumption DEF NextInRange, NumNodes, LayerSize
<1>3. DOMAIN env' = DOMAIN env \union OutputsOf(next)
  BY DEF Outputs, Bind
<1>4. Available(next') = Available(next) \union OutputsOf(next)
  BY <1>1, AvailableGrows
<1>5. next # 0
  BY <1>1, NumNodesNat
<1>6. RunHasTensors'
  BY <1>1, <1>3, <1>4, <1>5 DEF NamesInv, RunHasTensors
<1> QED
  BY <1>1, <1>2, <1>6 DEF NamesInv, NamesResolve

LEMMA IdleIsInRange ==
  ASSUME next' = 0
  PROVE  NextInRange'
BY Qwen2Assumption DEF NextInRange, NumNodes, LayerSize

(* So does whatever ends a run for another reason than a name. *)
LEMMA EndKeepsNames ==
  ASSUME next' = 0, given' = given,
         given = Given => outcome' \notin {"missing input", "no output"}
  PROVE  NamesInv'
<1>1. NextInRange'
  BY IdleIsInRange
<1>2. RunHasTensors'
  BY DEF RunHasTensors
<1>3. NamesResolve'
  BY DEF NamesResolve
<1> QED
  BY <1>1, <1>2, <1>3 DEF NamesInv

LEMMA ThrowKeepsNames ==
  ASSUME NEW why, Throw(why), given = Given => why \notin {"missing input", "no output"}
  PROVE  NamesInv'
BY EndKeepsNames DEF Throw

LEMMA NamesInductive == Spec => []NamesInv
<1>1. Init => NamesInv
  BY NumNodesNat DEF Init, NamesInv, NextInRange, RunHasTensors, NamesResolve
<1>2. NamesInv /\ [Next]_vars => NamesInv'
  <2> SUFFICES ASSUME NamesInv, [Next]_vars
               PROVE  NamesInv'
    OBVIOUS
  <2>1. CASE LoadPlugin
    BY <2>1 DEF LoadPlugin, NamesInv, NextInRange, RunHasTensors, NamesResolve
  <2>2. ASSUME NEW tok, NEW rows, NEW names, Submit(tok, rows, names)
        PROVE  NamesInv'
    <3>1. next' = 1 /\ given' = names /\ outcome' = "none" /\ DOMAIN env' = names
      BY <2>2 DEF Submit
    <3>2. NextInRange'
      BY <3>1, Qwen2Assumption DEF NextInRange, NumNodes, LayerSize
    <3>3. RunHasTensors'
      BY <3>1, NothingProducedYet DEF RunHasTensors
    <3>4. NamesResolve'
      BY <3>1 DEF NamesResolve
    <3> QED
      BY <3>2, <3>3, <3>4 DEF NamesInv
  <2>3. CASE ClearCache
    BY <2>3 DEF ClearCache, NamesInv, NextInRange, RunHasTensors, NamesResolve
  <2>4. CASE MissingInput
    <3>1. given # Given
      <4> SUFFICES ASSUME given = Given PROVE FALSE
        OBVIOUS
      <4>a. next \in 1..NumNodes
        BY <2>4 DEF MissingInput, Running
      <4>1. next \in 1..NumNodes /\ Available(next) \subseteq DOMAIN env
        BY <4>a, NumNodesNat DEF NamesInv, RunHasTensors
      <4>2. InputsOf(next) \subseteq Available(next)
        BY <4>1, ExportIsSorted DEF TopologicallySorted
      <4> QED
        BY <2>4, <4>1, <4>2 DEF MissingInput, HasInputs
    <3> QED
      BY <2>4, <3>1, ThrowKeepsNames DEF MissingInput
  <2>5. CASE NotRegistered
    BY <2>5, ThrowKeepsNames DEF NotRegistered
  <2>6. CASE Compute
    BY <2>6, OutputsKeepNames DEF Compute, Computing
  <2>7. CASE Reshape
    BY <2>7, OutputsKeepNames, ThrowKeepsNames DEF Reshape, Computing
  <2>8. CASE Rotary
    BY <2>8, OutputsKeepNames, ThrowKeepsNames DEF Rotary, Computing
  <2>9. CASE AttentionAppend
    BY <2>9 DEF AttentionAppend, NamesInv, NextInRange, RunHasTensors, NamesResolve
  <2>10. CASE Attend
    BY <2>10, OutputsKeepNames, ThrowKeepsNames DEF Attend, Computing
  <2>11. CASE DeviceFails
    BY <2>11, ThrowKeepsNames DEF DeviceFails
  <2>12. CASE Return
    <3>1. next = NumNodes + 1
      BY <2>12 DEF Return
    <3>a. next # 0
      BY <3>1, NumNodesNat
    <3>2. given = Given => GraphOutputs \subseteq DOMAIN env
      BY <3>1, <3>a, AllAvailable DEF NamesInv, RunHasTensors
    <3>3. CASE GraphOutputs \subseteq DOMAIN env
      <4>1. next' = 0 /\ given' = given /\ outcome' = "ok"
        BY <2>12, <3>3 DEF Return
      <4> QED
        BY <4>1, EndKeepsNames
    <3>4. CASE ~(GraphOutputs \subseteq DOMAIN env)
      BY <2>12, <3>2, <3>4, ThrowKeepsNames DEF Return
    <3> QED
      BY <3>3, <3>4
  <2>13. CASE UNCHANGED vars
    BY <2>13 DEF vars, NamesInv, NextInRange, RunHasTensors, NamesResolve
  <2> QED
    BY <2>1, <2>2, <2>3, <2>4, <2>5, <2>6, <2>7, <2>8, <2>9, <2>10, <2>11, <2>12, <2>13
       DEF Next, Step
<1> QED
  BY <1>1, <1>2, PTL DEF Spec

(* Whoever hands run() the exported graph, its weights file and the token  *)
(* ids never gets a "missing input tensor" or "was not produced" error,    *)
(* whatever earlier runs have done to the engine.                          *)
THEOREM ExportedNamesResolve == Spec => []NamesResolve
<1>1. NamesInv => NamesResolve
  BY DEF NamesInv
<1> QED
  BY <1>1, NamesInductive, PTL

-----------------------------------------------------------------------------
(* What a step of run() does to the engine *)

(* The tensor map of a run holds what was given and what has been written. *)
MapHasNames ==
  next # 0 => DOMAIN env = given \union UNION {OutputsOf(j) : j \in 1..(next - 1)}

(* Only an attention node is in two steps. *)
StageInv == stage = "attend" => Running /\ ThisNode.op = "attention"

RunInv == TypeOK /\ MapHasNames /\ StageInv

(* The output n has the rows and the token of the node's i-th input. *)
Carries(n, i) ==
  /\ i \in DOMAIN ThisNode.inputs
  /\ i = 1 \/ (i = 2 /\ ThisNode.op = "rotary_embedding")
  /\ env'[n].rows = Input(i).rows
  /\ env'[n].token = Input(i).token

(* A node has run: its outputs carry on what its inputs say. *)
Advances ==
  /\ Running /\ HasInputs
  /\ ThisNode.op = "attention" => stage = "attend"
  /\ ThisNode.op = "reshape" => Input(1).rows = 1
  /\ next' = next + 1
  /\ stage' = "start"
  /\ DOMAIN env' = DOMAIN env \union OutputsOf(next)
  /\ \A n \in DOMAIN env \ OutputsOf(next) : env'[n] = env[n]
  /\ \A n \in OutputsOf(next) : \E i \in {1, 2} : Carries(n, i)
  /\ env' \in [DOMAIN env' -> TensorValue]
  /\ UNCHANGED <<registered, kv, given, token, outcome, appended, runs, accepted, failures>>

(* The run returns its result. *)
Succeeds ==
  /\ next = NumNodes + 1
  /\ outcome' = "ok"
  /\ accepted' = Append(accepted, token)
  /\ env' = NoTensors
  /\ next' = 0
  /\ UNCHANGED <<registered, kv, stage, given, token, appended, runs, failures>>

LEMMA InputsTyped ==
  ASSUME RunInv, Running, HasInputs, NEW i \in DOMAIN ThisNode.inputs
  PROVE  Input(i) \in TensorValue /\ ThisNode.inputs[i] \in DOMAIN env
<1>1. ThisNode.inputs[i] \in InputsOf(next)
  BY DEF InputsOf, ThisNode
<1>2. ThisNode.inputs[i] \in DOMAIN env
  BY <1>1 DEF HasInputs
<1> QED BY <1>2 DEF RunInv, TypeOK, Input

(* A node with one output gives it the first input's value. *)
LEMMA OneValue ==
  ASSUME RunInv, Running, HasInputs, ThisNode.op # "rotary_embedding",
         ThisNode.op = "attention" => stage = "attend",
         ThisNode.op = "reshape" => Input(1).rows = 1,
         Outputs(<<Input(1)>>)
  PROVE  Advances
<1>1. NodeShape(ThisNode)
  BY EveryNodeShape DEF ThisNode, Running
<1>2. 1 \in DOMAIN ThisNode.inputs /\ DOMAIN ThisNode.outputs = {1}
  BY <1>1 DEF NodeShape
<1>3. Input(1) \in TensorValue
  BY <1>2, InputsTyped
<1>4. \A n \in OutputsOf(next) :
        (CHOOSE i \in DOMAIN ThisNode.outputs : ThisNode.outputs[i] = n) = 1
  BY <1>2 DEF OutputsOf, ThisNode
<1>5. env' = [n \in DOMAIN env \union OutputsOf(next) |->
                IF n \in OutputsOf(next) THEN Input(1) ELSE env[n]]
  BY <1>4 DEF Outputs, Bind
<1>6. env' \in [DOMAIN env' -> TensorValue]
  BY <1>3, <1>5 DEF RunInv, TypeOK
<1>7. \A n \in OutputsOf(next) : Carries(n, 1)
  BY <1>2, <1>5 DEF Carries
<1> QED BY <1>5, <1>6, <1>7 DEF Advances, Outputs, NextNode

LEMMA TwoValues ==
  ASSUME RunInv, Running, HasInputs, ThisNode.op = "rotary_embedding",
         Outputs(<<Rotate(Input(1)), Rotate(Input(2))>>)
  PROVE  Advances
<1>1. PICK l \in LayerRange : next = Place(l, 7)
  BY EveryNodeShape DEF ThisNode, Running
<1>2. /\ ThisNode.inputs = << <<"q_heads", l>>, <<"k_heads", l>>, Cos, Sin >>
      /\ ThisNode.outputs = << <<"q_rotary", l>>, <<"k_rotary", l>> >>
  BY <1>1, RotaryNode DEF ThisNode
<1>3. 1 \in DOMAIN ThisNode.inputs /\ 2 \in DOMAIN ThisNode.inputs /\ DOMAIN ThisNode.outputs = {1, 2}
  BY <1>2
<1>4. Input(1) \in TensorValue /\ Input(2) \in TensorValue
  BY <1>3, InputsTyped
<1>5. StartPos \in Nat
  <2>1. ThisNode.attrs = NoAttrs
    <3>1. ThisNode = LayerNode(l, 7)
      BY <1>1, PlaceIsANode DEF ThisNode
    <3> QED BY <3>1 DEF LayerNode, Node
  <2> QED BY <2>1 DEF StartPos, NoAttrs
<1>6. ASSUME NEW i \in {1, 2}
      PROVE  /\ Rotate(Input(i)) \in TensorValue
             /\ Rotate(Input(i)).rows = Input(i).rows
             /\ Rotate(Input(i)).token = Input(i).token
  BY <1>4, <1>5 DEF Rotate, TensorValue
<1> DEFINE at(n) == CHOOSE i \in DOMAIN ThisNode.outputs : ThisNode.outputs[i] = n
<1>7. \A n \in OutputsOf(next) : at(n) \in {1, 2}
  BY <1>3 DEF OutputsOf, ThisNode
<1>8. env' = [n \in DOMAIN env \union OutputsOf(next) |->
                IF n \in OutputsOf(next) THEN <<Rotate(Input(1)), Rotate(Input(2))>>[at(n)] ELSE env[n]]
  BY DEF Outputs, Bind
<1>9. \A n \in OutputsOf(next) : env'[n] = Rotate(Input(at(n)))
  <2> HIDE DEF at
  <2> QED BY <1>7, <1>8
<1>10. env' \in [DOMAIN env' -> TensorValue]
  <2>1. \A n \in OutputsOf(next) : env'[n] \in TensorValue
    BY <1>6, <1>7, <1>9
  <2> QED BY <1>8, <2>1 DEF RunInv, TypeOK
<1>11. \A n \in OutputsOf(next) : Carries(n, at(n)) /\ at(n) \in {1, 2}
  BY <1>3, <1>6, <1>7, <1>9 DEF Carries
<1>12. DOMAIN env' = DOMAIN env \union OutputsOf(next)
  BY <1>8
<1>13. \A n \in DOMAIN env \ OutputsOf(next) : env'[n] = env[n]
  BY <1>8
<1> QED BY <1>10, <1>11, <1>12, <1>13 DEF Advances, Outputs, NextNode

(* Every step of run() throws, runs a node, appends, or returns. *)
LEMMA StepKinds ==
  ASSUME RunInv, Step
  PROVE  \/ \E why \in Outcomes : Throw(why)
         \/ Advances
         \/ AttentionAppend
         \/ Succeeds
<1>1. CASE MissingInput
  BY <1>1 DEF MissingInput, Outcomes
<1>2. CASE NotRegistered
  BY <1>2 DEF NotRegistered, Outcomes
<1>3. CASE Compute
  BY <1>3, OneValue DEF Compute, Computing
<1>4. CASE Reshape
  <2>1. ThisNode.attrs.rows = 1
    BY <1>4, EveryNodeShape DEF Reshape, Computing, Running, ThisNode, NodeShape
  <2> QED BY <1>4, <2>1, OneValue DEF Reshape, Computing, Outcomes
<1>5. CASE Rotary
  BY <1>5, TwoValues DEF Rotary, Computing, Outcomes
<1>6. CASE AttentionAppend
  BY <1>6
<1>7. CASE Attend
  BY <1>7, OneValue DEF Attend, Computing, Outcomes
<1>8. CASE DeviceFails
  BY <1>8 DEF DeviceFails, Outcomes
<1>9. CASE Return
  BY <1>9 DEF Return, Succeeds, Outcomes
<1> QED BY <1>1, <1>2, <1>3, <1>4, <1>5, <1>6, <1>7, <1>8, <1>9 DEF Step

(* Every step of the engine. *)
Kinds ==
  \/ LoadPlugin
  \/ \E tok \in {token, token + 1} \ {0}, rows \in 1..MaxRows,
        names \in {Given, Weights, GraphInputs} : Submit(tok, rows, names)
  \/ ClearCache
  \/ \E why \in Outcomes : Throw(why)
  \/ Advances
  \/ AttentionAppend
  \/ Succeeds
  \/ UNCHANGED vars

LEMMA NextKinds ==
  ASSUME RunInv, [Next]_vars
  PROVE  Kinds
<1>1. CASE Step
  BY <1>1, StepKinds DEF Kinds
<1>2. CASE ~Step
  BY <1>2 DEF Next, Kinds
<1> QED BY <1>1, <1>2

-----------------------------------------------------------------------------
(* What attention appends *)

LEMMA RowsOfType ==
  ASSUME NEW t \in TensorValue
  PROVE  /\ RowsOf(t) \in Seq(Row)
         /\ Len(RowsOf(t)) = t.rows
         /\ \A i \in 1..t.rows : RowsOf(t)[i] = [token |-> t.token, pos |-> t.pos]
<1>1. t.rows \in Nat /\ [token |-> t.token, pos |-> t.pos] \in Row
  BY DEF TensorValue, Row
<1>2. RowsOf(t) \in [1..t.rows -> Row]
  BY <1>1 DEF RowsOf
<1>3. RowsOf(t) \in Seq(Row) /\ Len(RowsOf(t)) = t.rows
  BY <1>1, <1>2
<1> QED BY <1>3 DEF RowsOf

(* Attention of layer l reads what the layer has rotated and projected. *)
LEMMA AttentionReads ==
  ASSUME RunInv, Computing({"attention"})
  PROVE  \E l \in LayerIds :
           /\ next = AttentionIndex(l)
           /\ AttentionLayer = l
           /\ {<<"k_rotary", l>>, <<"v_heads", l>>} \subseteq DOMAIN env
           /\ Chunk = [key |-> RowsOf(env[<<"k_rotary", l>>]), value |-> RowsOf(env[<<"v_heads", l>>])]
<1>1. PICK l \in LayerRange : next = Place(l, 8)
  BY EveryNodeShape DEF Computing, Running, ThisNode
<1>2. /\ next = AttentionIndex(l)
      /\ ThisNode.inputs = << <<"q_rotary", l>>, <<"k_rotary", l>>, <<"v_heads", l>> >>
      /\ ThisNode.attrs.kv_cache = l
  BY <1>1, AttentionNode DEF ThisNode
<1>3. 2 \in DOMAIN ThisNode.inputs /\ 3 \in DOMAIN ThisNode.inputs
  BY <1>2
<1>4. {<<"k_rotary", l>>, <<"v_heads", l>>} \subseteq DOMAIN env
  BY <1>2, <1>3, InputsTyped DEF Computing
<1> QED BY <1>2, <1>4 DEF Chunk, Input, AttentionLayer, LayerRange, LayerIds

LEMMA ChunkType ==
  ASSUME RunInv, Computing({"attention"})
  PROVE  Chunk \in Entry
<1>1. PICK l \in LayerIds :
        /\ {<<"k_rotary", l>>, <<"v_heads", l>>} \subseteq DOMAIN env
        /\ Chunk = [key |-> RowsOf(env[<<"k_rotary", l>>]), value |-> RowsOf(env[<<"v_heads", l>>])]
  BY AttentionReads
<1>2. env[<<"k_rotary", l>>] \in TensorValue /\ env[<<"v_heads", l>>] \in TensorValue
  BY <1>1 DEF RunInv, TypeOK
<1> QED BY <1>1, <1>2, RowsOfType DEF Entry

(* Entries grow at their end. *)
LEMMA GrownType ==
  ASSUME NEW old \in Entry \union {None}, RunInv, Computing({"attention"})
  PROVE  /\ Grown(old) \in Entry
         /\ old # None => Grown(old) = [key |-> old.key \o Chunk.key, value |-> old.value \o Chunk.value]
<1>1. Chunk \in Entry
  BY ChunkType
<1>2. CASE old = None
  BY <1>1, <1>2 DEF Grown
<1>3. CASE old # None
  <2>1. Grown(old) = [key |-> old.key \o Chunk.key, value |-> old.value \o Chunk.value]
    BY <1>3 DEF Grown, Cache!Append2
  <2>2. old.key \o Chunk.key \in Seq(Row) /\ old.value \o Chunk.value \in Seq(Row)
    BY <1>1, <1>3, ConcatProperties DEF Entry
  <2> QED BY <2>1, <2>2 DEF Entry
<1> QED BY <1>2, <1>3

-----------------------------------------------------------------------------
(* Type correctness, and names that are written once *)

LEMMA RunInvInitially == Init => RunInv
<1> SUFFICES ASSUME Init PROVE RunInv
  OBVIOUS
<1>1. TypeOK
  BY NumNodesNat, EngineAssumption
     DEF Init, TypeOK, NoTensors, PluginOps, LayerIds, Outcomes
<1> QED BY <1>1 DEF Init, RunInv, MapHasNames, StageInv

LEMMA RunInvStep ==
  ASSUME RunInv, [Next]_vars
  PROVE  RunInv'
<1>0. NumNodes \in Nat /\ NumNodes >= 3
  BY NumNodesNat
<1>1. CASE LoadPlugin
  BY <1>1 DEF LoadPlugin, RunInv, TypeOK, MapHasNames, StageInv, Running, ThisNode
<1>2. ASSUME NEW tok \in {token, token + 1} \ {0}, NEW rows \in 1..MaxRows,
             NEW names \in {Given, Weights, GraphInputs}, Submit(tok, rows, names)
      PROVE  RunInv'
  <2>1. tok \in Nat /\ rows \in Nat
    BY <1>2, EngineAssumption DEF RunInv, TypeOK
  <2>2. DOMAIN env' = names /\ env' \in [names -> TensorValue]
    BY <1>2, <2>1 DEF Submit, TensorValue, Parameter
  <2>a. runs' \in 0..MaxRuns
    BY <1>2, EngineAssumption DEF Submit, RunInv, TypeOK
  <2>b. given' \in {{}, Given, Weights, GraphInputs} /\ next' \in 0..(NumNodes + 1) /\ next' # 0
    BY <1>0, <1>2 DEF Submit
  <2>c. outcome' \in Outcomes /\ env' \in [DOMAIN env' -> TensorValue]
    BY <1>2, <2>2 DEF Submit, Outcomes
  <2>3. TypeOK'
    BY <1>2, <2>1, <2>a, <2>b, <2>c DEF Submit, RunInv, TypeOK
  <2>4. MapHasNames'
    BY <1>2, <2>2 DEF Submit, MapHasNames
  <2> QED BY <1>2, <2>3, <2>4 DEF RunInv, Submit, StageInv
<1>3. CASE ClearCache
  <2>1. TypeOK'
    BY <1>3 DEF ClearCache, Cleared, RunInv, TypeOK
  <2> QED BY <1>3, <2>1 DEF ClearCache, RunInv, MapHasNames, StageInv, Running, ThisNode
<1>4. ASSUME NEW why \in Outcomes, Throw(why)
      PROVE  RunInv'
  <2>1. env' \in [DOMAIN env' -> TensorValue]
    BY <1>4 DEF Throw, NoTensors
  <2>2. TypeOK'
    BY <1>0, <1>4, <2>1 DEF Throw, RunInv, TypeOK
  <2> QED BY <1>4, <2>2 DEF Throw, RunInv, MapHasNames, StageInv
<1>5. CASE Advances
  <2>1. next \in 1..NumNodes /\ next' = next + 1
    BY <1>5 DEF Advances, Running
  <2>2. TypeOK'
    BY <1>0, <1>5, <2>1 DEF Advances, RunInv, TypeOK
  <2>3. MapHasNames'
    <3>1. 1..(next' - 1) = 1..(next - 1) \union {next}
      BY <1>0, <2>1
    <3>2. UNION {OutputsOf(j) : j \in 1..(next' - 1)}
            = (UNION {OutputsOf(j) : j \in 1..(next - 1)}) \union OutputsOf(next)
      BY <3>1
    <3> QED BY <1>5, <2>1, <3>2 DEF Advances, RunInv, MapHasNames
  <2> QED BY <1>5, <2>2, <2>3 DEF Advances, RunInv, StageInv
<1>6. CASE AttentionAppend
  <2>1. PICK l \in LayerIds : AttentionLayer = l
    BY <1>6, AttentionReads DEF AttentionAppend
  <2>2. kv' \in [LayerIds -> Entry \union {None}]
    BY <1>6, <2>1, GrownType DEF AttentionAppend, RunInv, TypeOK
  <2>3. TypeOK'
    BY <1>6, <2>2 DEF AttentionAppend, RunInv, TypeOK
  <2> QED BY <1>6, <2>3
          DEF AttentionAppend, Computing, RunInv, MapHasNames, StageInv, Running, ThisNode
<1>7. CASE Succeeds
  <2>1. stage = "start"
    BY <1>0, <1>7 DEF Succeeds, RunInv, StageInv, TypeOK, Running
  <2>2. env' \in [DOMAIN env' -> TensorValue]
    BY <1>7 DEF Succeeds, NoTensors
  <2>3. accepted' \in Seq(Nat)
    BY <1>7 DEF Succeeds, RunInv, TypeOK
  <2>a. outcome' \in Outcomes /\ next' \in 0..(NumNodes + 1)
    BY <1>0, <1>7 DEF Succeeds, Outcomes
  <2>4. TypeOK'
    BY <1>7, <2>2, <2>3, <2>a DEF Succeeds, RunInv, TypeOK
  <2> QED BY <1>7, <2>1, <2>4 DEF Succeeds, RunInv, MapHasNames, StageInv
<1>8. CASE UNCHANGED vars
  BY <1>8 DEF vars, RunInv, TypeOK, MapHasNames, StageInv, Running, ThisNode
<1>9. Kinds
  BY NextKinds
<1> QED BY <1>1, <1>2, <1>3, <1>4, <1>5, <1>6, <1>7, <1>8, <1>9 DEF Kinds

LEMMA RunInductive == Spec => []RunInv
BY RunInvInitially, RunInvStep, PTL DEF Spec

(* Every variable of the engine keeps its type: an entry of the cache is   *)
(* always a pair of row sequences, and the tensor map is empty between     *)
(* runs.                                                                   *)
THEOREM EngineTypes == Spec => []TypeOK
<1>1. RunInv => TypeOK
  BY DEF RunInv
<1> QED BY <1>1, RunInductive, PTL

(* No node of a run writes a name that is in the tensor map already, one   *)
(* of the caller's or of an earlier node.                                  *)
THEOREM NodesWriteFreshNames == Spec => []WritesAreFresh
<1>1. RunInv => WritesAreFresh
  <2> SUFFICES ASSUME RunInv, Running
               PROVE  OutputsOf(next) \intersect DOMAIN env = {}
    BY DEF WritesAreFresh
  <2>1. next \in 1..NumNodes /\ next # 0
    BY NumNodesNat DEF Running
  <2>2. given \subseteq Given
    BY DEF RunInv, TypeOK, Given
  <2>3. DOMAIN env \subseteq Available(next)
    BY <2>1, <2>2 DEF RunInv, MapHasNames, Available
  <2> QED BY <2>1, <2>3, OutputsAreFresh
<1> QED BY <1>1, RunInductive, PTL

-----------------------------------------------------------------------------
(* What flows through the graph *)

(* Whatever is not a weight was computed from the token of this run. *)
TokensCurrent ==
  next # 0 => \A n \in DOMAIN env : n[1] \notin WeightHeads => env[n].token = token

(* The tensors attention reads have been reshaped to one row. *)
HeadNames == {"q_heads", "k_heads", "v_heads", "q_rotary", "k_rotary"}
HeadRows ==
  next # 0 => \A n \in DOMAIN env : n[1] \in HeadNames => env[n].rows = 1

(* The rows of input_ids reach the first reshape of the first layer, the   *)
(* node at place 6, which lets one row through only.                       *)
PromptNames == {<<"hidden_states">>, <<"input_norm", 0>>, <<"q", 0>>}
PromptRows ==
  (next # 0 /\ InputIds \in DOMAIN env) =>
    /\ next > 6 => env[InputIds].rows = 1
    /\ \A n \in DOMAIN env \intersect PromptNames : env[n].rows = env[InputIds].rows

FlowInv == TokensCurrent /\ HeadRows /\ PromptRows

LEMMA GivenHeads ==
  ASSUME NEW n \in Given
  PROVE  n = InputIds \/ n[1] \in WeightHeads
BY WeightsHaveHeads DEF Given, GraphInputs

(* A reshape, or the rotation of reshaped tensors, writes those names. *)
LEMMA HeadNode ==
  ASSUME NEW i \in 1..NumNodes, NEW n \in OutputsOf(i), n[1] \in HeadNames
  PROVE  NodeAt(i).op \in {"reshape", "rotary_embedding"}
<1>1. CASE i = 1
  BY <1>1, FirstProduces DEF Hidden, HeadNames
<1>2. CASE i = NumNodes - 1 /\ i # 1
  <2>1. NodeAt(i).outputs = << <<"norm_hidden">> >>
    BY <1>2, Qwen2Assumption DEF NodeAt, Plain, Node, NumNodes, LayerSize
  <2> QED BY <2>1, <1>2, OneOutput DEF HeadNames
<1>3. CASE i = NumNodes
  BY <1>3, LastProduces DEF Logits, HeadNames
<1>4. CASE i \notin {1, NumNodes - 1, NumNodes}
  <2>1. PICK l \in LayerRange, s \in 0..18 : i = Place(l, s)
    BY <1>4, EveryPlace
  <2>2. Hidden(l + 1)[1] = "output"
    BY DEF Hidden, LayerRange
  <2>3. s \in {4, 5, 6, 7}
    BY <2>1, <2>2, LayerProduces DEF Produces, HeadNames
  <2> QED BY <2>1, <2>3, PlaceIsANode, LayerNodeShape
<1> QED BY <1>1, <1>2, <1>3, <1>4

(* The first nodes hand the rows of input_ids on. *)
LEMMA FirstNodes ==
  ASSUME NEW i \in 1..NumNodes
  PROVE  /\ OutputsOf(i) \intersect PromptNames # {} =>
              /\ NodeAt(i).op # "rotary_embedding"
              /\ NodeAt(i).inputs[1] = InputIds \/ NodeAt(i).inputs[1] \in PromptNames
         /\ i = 6 => NodeAt(i).op = "reshape" /\ NodeAt(i).inputs[1] = <<"q", 0>>
<1>1. ASSUME NEW n \in OutputsOf(i), n \in PromptNames
      PROVE  /\ NodeAt(i).op # "rotary_embedding"
             /\ NodeAt(i).inputs[1] = InputIds \/ NodeAt(i).inputs[1] \in PromptNames
  <2>1. i \in {1, 2, 3}
    BY <1>1, OutputHasItsProducer DEF PromptNames, Producer, Place, LayerSize
  <2>2. CASE i = 1
    BY <2>2 DEF NodeAt, Plain, Node
  <2>3. CASE i \in {2, 3}
    <3>1. 0 \in LayerRange
      <4>1. i # NumNodes - 1 /\ i # NumNodes
        BY <1>1, <2>3, OutputHasItsProducer, Qwen2Assumption, LastProduces, OneOutput
           DEF PromptNames, NumNodes, LayerSize, Logits, NodeAt, Plain, Node
      <4> QED BY <2>3, <4>1, Qwen2Assumption DEF NumNodes, LayerSize, LayerRange
    <3>2. Place(0, 0) = 2 /\ Place(0, 1) = 3
      BY DEF Place, LayerSize
    <3>3. NodeAt(2) = LayerNode(0, 0) /\ NodeAt(3) = LayerNode(0, 1)
      BY <3>1, <3>2, PlaceIsANode
    <3>4. NodeAt(2).op = "rms_norm" /\ NodeAt(2).inputs[1] = <<"hidden_states">>
      BY <3>3 DEF LayerNode, Plain, Node, Hidden
    <3>5. NodeAt(3).op = "linear" /\ NodeAt(3).inputs[1] = <<"input_norm", 0>>
      BY <3>3 DEF LayerNode, Linear, LinearInputs, Plain, Node
    <3> QED BY <2>3, <3>4, <3>5 DEF PromptNames
  <2> QED BY <2>1, <2>2, <2>3
<1>2. i = 6 => NodeAt(i).op = "reshape" /\ NodeAt(i).inputs[1] = <<"q", 0>>
  <2> SUFFICES ASSUME i = 6 PROVE NodeAt(i).op = "reshape" /\ NodeAt(i).inputs[1] = <<"q", 0>>
    OBVIOUS
  <2>1. 0 \in LayerRange /\ Place(0, 4) = 6
    BY Qwen2Assumption DEF NumNodes, LayerSize, LayerRange, Place
  <2>2. NodeAt(i) = LayerNode(0, 4)
    BY <2>1, PlaceIsANode
  <2> QED BY <2>2 DEF LayerNode, OneRow, Node
<1> QED BY <1>1, <1>2

(* A node that has run keeps the flow. *)
LEMMA AdvancesFlows ==
  ASSUME RunInv, FlowInv, Advances
  PROVE  FlowInv'
<1>0. next \in 1..NumNodes /\ next # 0 /\ next' # 0
  BY NumNodesNat DEF Advances, Running
<1>1. NodeShape(ThisNode)
  BY <1>0, EveryNodeShape DEF ThisNode
<1>2. ASSUME NEW i \in DOMAIN ThisNode.inputs
      PROVE  ThisNode.inputs[i] \in DOMAIN env
  BY InputsTyped DEF Advances
<1>3. ASSUME ThisNode.op = "rotary_embedding"
      PROVE  ThisNode.inputs[1][1] = "q_heads" /\ ThisNode.inputs[2][1] = "k_heads"
  <2>1. PICK l \in LayerRange : next = Place(l, 7)
    BY <1>0, <1>3, EveryNodeShape DEF ThisNode
  <2> QED BY <2>1, RotaryNode DEF ThisNode
<1>4. TokensCurrent'
  <2> SUFFICES ASSUME NEW n \in DOMAIN env', n[1] \notin WeightHeads
               PROVE  env'[n].token = token
    BY DEF TokensCurrent, Advances
  <2>1. CASE n \in OutputsOf(next)
    <3>1. PICK i \in {1, 2} : Carries(n, i)
      BY <2>1 DEF Advances
    <3>2. ThisNode.inputs[i][1] \notin WeightHeads
      BY <1>1, <1>3, <3>1 DEF Carries, NodeShape, WeightHeads, Linears
    <3>3. Input(i).token = token
      BY <1>0, <1>2, <3>1, <3>2 DEF Carries, Input, FlowInv, TokensCurrent
    <3> QED BY <3>1, <3>3 DEF Carries
  <2>2. CASE n \notin OutputsOf(next)
    BY <1>0, <2>2 DEF Advances, FlowInv, TokensCurrent
  <2> QED BY <2>1, <2>2
<1>5. HeadRows'
  <2> SUFFICES ASSUME NEW n \in DOMAIN env', n[1] \in HeadNames
               PROVE  env'[n].rows = 1
    BY DEF HeadRows
  <2>1. CASE n \in OutputsOf(next)
    <3>1. PICK i \in {1, 2} : Carries(n, i)
      BY <2>1 DEF Advances
    <3>2. ThisNode.op \in {"reshape", "rotary_embedding"}
      BY <1>0, <2>1, HeadNode DEF ThisNode
    <3>3. CASE ThisNode.op = "reshape"
      BY <3>1, <3>3 DEF Carries, Advances
    <3>4. CASE ThisNode.op = "rotary_embedding"
      <4>1. ThisNode.inputs[i][1] \in HeadNames
        BY <1>3, <3>4 DEF HeadNames
      <4>2. Input(i).rows = 1
        BY <1>0, <1>2, <3>1, <4>1 DEF Carries, Input, FlowInv, HeadRows
      <4> QED BY <3>1, <4>2 DEF Carries
    <3> QED BY <3>2, <3>3, <3>4
  <2>2. CASE n \notin OutputsOf(next)
    BY <1>0, <2>2 DEF Advances, FlowInv, HeadRows
  <2> QED BY <2>1, <2>2
<1>6. PromptRows'
  <2> SUFFICES ASSUME InputIds \in DOMAIN env'
               PROVE  /\ next' > 6 => env'[InputIds].rows = 1
                      /\ \A n \in DOMAIN env' \intersect PromptNames : env'[n].rows = env'[InputIds].rows
    BY DEF PromptRows
  <2>1. InputIds \notin OutputsOf(next)
    BY <1>0, OutputsAreFresh DEF Available, Given, GraphInputs
  <2>2. InputIds \in DOMAIN env /\ env'[InputIds] = env[InputIds]
    BY <2>1 DEF Advances
  <2>3. ASSUME next' > 6
        PROVE  env[InputIds].rows = 1
    <3>1. CASE next > 6
      BY <1>0, <2>2, <3>1 DEF FlowInv, PromptRows
    <3>2. CASE next = 6
      <4>1. ThisNode.op = "reshape" /\ ThisNode.inputs[1] = <<"q", 0>>
        BY <1>0, <3>2, FirstNodes DEF ThisNode
      <4>2. Input(1).rows = 1 /\ <<"q", 0>> \in DOMAIN env
        BY <1>1, <1>2, <4>1 DEF Advances, NodeShape
      <4> QED BY <1>0, <2>2, <4>1, <4>2 DEF Input, FlowInv, PromptRows, PromptNames
    <3> QED BY <1>0, <2>3, <3>1, <3>2, NumNodesNat DEF Advances
  <2>4. ASSUME NEW n \in DOMAIN env', n \in PromptNames
        PROVE  env'[n].rows = env[InputIds].rows
    <3>1. CASE n \in OutputsOf(next)
      <4>1. /\ ThisNode.op # "rotary_embedding"
            /\ ThisNode.inputs[1] = InputIds \/ ThisNode.inputs[1] \in PromptNames
        BY <1>0, <2>4, <3>1, FirstNodes DEF ThisNode
      <4>2. Carries(n, 1)
        BY <3>1, <4>1 DEF Advances, Carries
      <4>3. Input(1).rows = env[InputIds].rows
        BY <1>0, <1>1, <1>2, <2>2, <4>1 DEF Input, NodeShape, FlowInv, PromptRows
      <4> QED BY <4>2, <4>3 DEF Carries
    <3>2. CASE n \notin OutputsOf(next)
      BY <1>0, <2>2, <2>4, <3>2 DEF Advances, FlowInv, PromptRows
    <3> QED BY <3>1, <3>2
  <2> QED BY <2>2, <2>3, <2>4
<1> QED BY <1>4, <1>5, <1>6 DEF FlowInv

LEMMA FlowStep ==
  ASSUME RunInv, FlowInv, [Next]_vars
  PROVE  FlowInv'
<1>1. CASE LoadPlugin
  BY <1>1 DEF LoadPlugin, FlowInv, TokensCurrent, HeadRows, PromptRows
<1>2. ASSUME NEW tok \in {token, token + 1} \ {0}, NEW rows \in 1..MaxRows,
             NEW names \in {Given, Weights, GraphInputs}, Submit(tok, rows, names)
      PROVE  FlowInv'
  <2>1. /\ next' = 1 /\ token' = tok /\ DOMAIN env' = names
        /\ InputIds \in names => env'[InputIds].token = tok
    BY <1>2 DEF Submit
  <2>2. ASSUME NEW n \in names
        PROVE  n = InputIds \/ n[1] \in WeightHeads
    BY GivenHeads DEF Given
  <2>3. TokensCurrent'
    BY <2>1, <2>2 DEF TokensCurrent
  <2>4. HeadRows'
    BY <2>1, <2>2 DEF HeadRows, HeadNames, InputIds, WeightHeads, Linears
  <2>5. PromptRows'
    <3>1. names \intersect PromptNames = {}
      BY <2>2 DEF PromptNames, InputIds, WeightHeads, Linears
    <3> QED BY <2>1, <3>1 DEF PromptRows
  <2> QED BY <2>3, <2>4, <2>5 DEF FlowInv
<1>3. CASE ClearCache
  BY <1>3 DEF ClearCache, FlowInv, TokensCurrent, HeadRows, PromptRows
<1>4. ASSUME NEW why \in Outcomes, Throw(why)
      PROVE  FlowInv'
  BY <1>4 DEF Throw, FlowInv, TokensCurrent, HeadRows, PromptRows
<1>5. CASE Advances
  BY <1>5, AdvancesFlows
<1>6. CASE AttentionAppend
  BY <1>6 DEF AttentionAppend, FlowInv, TokensCurrent, HeadRows, PromptRows
<1>7. CASE Succeeds
  BY <1>7 DEF Succeeds, FlowInv, TokensCurrent, HeadRows, PromptRows
<1>8. CASE UNCHANGED vars
  BY <1>8 DEF vars, FlowInv, TokensCurrent, HeadRows, PromptRows
<1>9. Kinds
  BY NextKinds
<1> QED BY <1>1, <1>2, <1>3, <1>4, <1>5, <1>6, <1>7, <1>8, <1>9 DEF Kinds

LEMMA FlowInductive == Spec => [](RunInv /\ FlowInv)
<1>1. Init => RunInv /\ FlowInv
  BY RunInvInitially DEF Init, FlowInv, TokensCurrent, HeadRows, PromptRows
<1>2. (RunInv /\ FlowInv) /\ [Next]_vars => (RunInv /\ FlowInv)'
  BY RunInvStep, FlowStep
<1> QED BY <1>1, <1>2, PTL DEF Spec

(* A prompt of several tokens is refused while the cache is untouched: no  *)
(* step of its run changes an entry.                                       *)
THEOREM PromptsLeaveTheCache == Spec => PromptLeavesCache
<1>1. RunInv /\ FlowInv /\ [Next]_vars =>
        [(InputIds \in DOMAIN env /\ env[InputIds].rows > 1) => UNCHANGED kv]_vars
  <2> SUFFICES ASSUME RunInv, FlowInv, [Next]_vars,
                      InputIds \in DOMAIN env, env[InputIds].rows > 1
               PROVE  UNCHANGED kv
    OBVIOUS
  <2>1. next # 0
    BY DEF RunInv, TypeOK, NoTensors
  <2>2. ~AttentionAppend
    <3> SUFFICES ASSUME AttentionAppend PROVE FALSE
      OBVIOUS
    <3>1. PICK l \in LayerIds : next = AttentionIndex(l)
      BY AttentionReads DEF AttentionAppend
    <3>2. next > 6
      BY <3>1, Qwen2Assumption DEF AttentionIndex, LayerSize, LayerIds
    <3> QED BY <2>1, <3>2 DEF FlowInv, PromptRows
  <2>3. Kinds
    BY NextKinds
  <2> QED BY <2>1, <2>2, <2>3
          DEF Kinds, LoadPlugin, Submit, ClearCache, Throw, Advances, Succeeds, vars
<1> QED BY <1>1, FlowInductive, PTL DEF Spec, PromptLeavesCache

-----------------------------------------------------------------------------
(* What each step does to the cache *)

(* The row the run in progress has added to layer l. *)
Now(l) == IF HasAppended(l) THEN 1 ELSE 0

LEMMA AttentionPlaces ==
  ASSUME NEW l \in LayerIds
  PROVE  /\ AttentionIndex(l) \in Nat /\ AttentionIndex(l) >= 10 /\ AttentionIndex(l) <= NumNodes
         /\ \A m \in LayerIds : (AttentionIndex(l) = AttentionIndex(m)) => (l = m)
         /\ \A m \in LayerIds : l < m => AttentionIndex(l) < AttentionIndex(m)
BY Qwen2Assumption DEF AttentionIndex, LayerSize, LayerIds, NumNodes

LEMMA RowsTyped ==
  ASSUME RunInv, NEW l \in LayerIds
  PROVE  /\ KeyRows(l) \in Seq(Row) /\ ValueRows(l) \in Seq(Row)
         /\ Len(KeyRows(l)) \in Nat
<1>1. kv[l] \in Entry \union {None}
  BY DEF RunInv, TypeOK
<1>2. KeyRows(l) \in Seq(Row) /\ ValueRows(l) \in Seq(Row)
  BY <1>1, EmptySeq DEF KeyRows, ValueRows, Entry
<1> QED BY <1>2, LenProperties

(* Between runs, and at the first node, nothing is appended. *)
LEMMA NothingAppended ==
  ASSUME NEW l \in LayerIds, next \in {0, 1}
  PROVE  ~HasAppended(l) /\ Now(l) = 0
BY AttentionPlaces DEF HasAppended, Now

LEMMA NothingAppendedNext ==
  ASSUME NEW l \in LayerIds, next' \in {0, 1}
  PROVE  ~HasAppended(l)' /\ Now(l)' = 0
BY AttentionPlaces DEF HasAppended, Now, AttentionIndex

(* A layer that a run has reached, the layers before it have too. *)
LEMMA EarlierLayersFirst ==
  ASSUME RunInv, NEW l \in LayerIds, l + 1 \in LayerIds
  PROVE  Now(l + 1) <= Now(l)
<1>1. AttentionIndex(l) < AttentionIndex(l + 1)
  BY AttentionPlaces DEF LayerIds
<1>2. AttentionIndex(l) \in Nat /\ AttentionIndex(l + 1) \in Nat /\ next \in Int
  BY AttentionPlaces, NumNodesNat DEF RunInv, TypeOK
<1> QED BY <1>1, <1>2 DEF Now, HasAppended

(* Running a node past its append leaves what has been appended as it is. *)
LEMMA AdvanceAppendsNothing ==
  ASSUME RunInv, Advances, NEW l \in LayerIds
  PROVE  HasAppended(l)' = HasAppended(l) /\ Now(l)' = Now(l)
<1>1. next \in 1..NumNodes /\ next' = next + 1 /\ stage' = "start"
  BY DEF Advances, Running
<1>2. next = AttentionIndex(l) => stage = "attend"
  BY AttentionNode DEF Advances, ThisNode, LayerIds, LayerRange
<1>3. AttentionIndex(l) \in Nat
  BY AttentionPlaces
<1>4. HasAppended(l)' <=> (next + 1 > AttentionIndex(l))
  BY <1>1, <1>3 DEF HasAppended, AttentionIndex
<1>5. HasAppended(l)' <=> HasAppended(l)
  BY <1>1, <1>2, <1>3, <1>4, NumNodesNat DEF HasAppended
<1> QED BY <1>5 DEF Now, HasAppended

(* At the end of the graph, every layer has appended. *)
LEMMA AllAppended ==
  ASSUME Succeeds, NEW l \in LayerIds
  PROVE  HasAppended(l) /\ Now(l) = 1
BY AttentionPlaces, NumNodesNat DEF Succeeds, HasAppended, Now

(* An append adds one row of the run's token to the keys and the values of *)
(* one layer that had none of this run.                                    *)
LEMMA AppendEffect ==
  ASSUME RunInv, FlowInv, AttentionAppend
  PROVE  \E m \in LayerIds, kr \in Row, vr \in Row :
           /\ AttentionLayer = m
           /\ kr.token = token /\ vr.token = token
           /\ Chunk = [key |-> <<kr>>, value |-> <<vr>>]
           /\ kv' = [kv EXCEPT ![m] = Grown(kv[m])]
           /\ kv'[m] # None
           /\ KeyRows(m)' = KeyRows(m) \o <<kr>>
           /\ ValueRows(m)' = ValueRows(m) \o <<vr>>
           /\ \A l \in LayerIds \ {m} : KeyRows(l)' = KeyRows(l) /\ ValueRows(l)' = ValueRows(l)
           /\ ~HasAppended(m) /\ HasAppended(m)'
           /\ \A l \in LayerIds \ {m} : HasAppended(l)' <=> HasAppended(l)
<1>0. Computing({"attention"}) /\ stage = "start" /\ next # 0
  BY NumNodesNat DEF AttentionAppend, Computing, Running
<1>1. PICK m \in LayerIds :
        /\ next = AttentionIndex(m)
        /\ AttentionLayer = m
        /\ {<<"k_rotary", m>>, <<"v_heads", m>>} \subseteq DOMAIN env
        /\ Chunk = [key |-> RowsOf(env[<<"k_rotary", m>>]), value |-> RowsOf(env[<<"v_heads", m>>])]
  BY <1>0, AttentionReads
<1> DEFINE row(t) == [token |-> t.token, pos |-> t.pos]
           kr == row(env[<<"k_rotary", m>>])
           vr == row(env[<<"v_heads", m>>])
<1>2. ASSUME NEW n \in {<<"k_rotary", m>>, <<"v_heads", m>>}
      PROVE  /\ env[n] \in TensorValue
             /\ RowsOf(env[n]) = <<row(env[n])>>
             /\ row(env[n]) \in Row /\ row(env[n]).token = token
  <2>1. n \in DOMAIN env /\ env[n] \in TensorValue
    BY <1>1 DEF RunInv, TypeOK
  <2>2. n[1] \in HeadNames /\ n[1] \notin WeightHeads
    BY DEF HeadNames, WeightHeads, Linears
  <2>3. env[n].rows = 1 /\ env[n].token = token
    BY <1>0, <2>1, <2>2 DEF FlowInv, HeadRows, TokensCurrent
  <2>4. RowsOf(env[n]) = <<row(env[n])>>
    BY <2>3 DEF RowsOf
  <2> QED BY <2>1, <2>3, <2>4 DEF TensorValue, Row
<1>3. Chunk = [key |-> <<kr>>, value |-> <<vr>>] /\ kr \in Row /\ vr \in Row
      /\ kr.token = token /\ vr.token = token
  BY <1>1, <1>2
<1> HIDE DEF kr, vr
<1>4. kv' = [kv EXCEPT ![m] = Grown(kv[m])]
  BY <1>1 DEF AttentionAppend
<1>5. kv[m] \in Entry \union {None} /\ kv \in [LayerIds -> Entry \union {None}]
  BY DEF RunInv, TypeOK
<1>6. kv'[m] = Grown(kv[m]) /\ kv'[m] \in Entry /\ kv'[m] # None
  BY <1>0, <1>4, <1>5, GrownType, EngineAssumption
<1>7. KeyRows(m)' = KeyRows(m) \o <<kr>> /\ ValueRows(m)' = ValueRows(m) \o <<vr>>
  <2>1. CASE kv[m] = None
    <3>1. kv'[m] = [key |-> <<kr>>, value |-> <<vr>>]
      BY <1>3, <1>6, <2>1 DEF Grown
    <3>2. <<kr>> \in Seq(Row) /\ <<vr>> \in Seq(Row)
      BY <1>3
    <3>3. << >> \o <<kr>> = <<kr>> /\ << >> \o <<vr>> = <<vr>>
      BY <3>2, ConcatEmptySeq
    <3> QED BY <1>6, <2>1, <3>1, <3>3 DEF KeyRows, ValueRows
  <2>2. CASE kv[m] # None
    BY <1>0, <1>3, <1>5, <1>6, <2>2, GrownType DEF KeyRows, ValueRows
  <2> QED BY <2>1, <2>2
<1>8. \A l \in LayerIds \ {m} : KeyRows(l)' = KeyRows(l) /\ ValueRows(l)' = ValueRows(l)
  BY <1>4, <1>5 DEF KeyRows, ValueRows
<1>9. next' = next /\ stage' = "attend"
  BY DEF AttentionAppend
<1>10. ~HasAppended(m) /\ HasAppended(m)'
  BY <1>0, <1>1, <1>9, AttentionPlaces DEF HasAppended, AttentionIndex
<1>11. ASSUME NEW l \in LayerIds \ {m}
       PROVE  HasAppended(l)' <=> HasAppended(l)
  <2>1. next # AttentionIndex(l)
    BY <1>1, AttentionPlaces
  <2> QED BY <1>9, <2>1 DEF HasAppended, AttentionIndex
<1> QED BY <1>1, <1>3, <1>4, <1>6, <1>7, <1>8, <1>10, <1>11

-----------------------------------------------------------------------------
(* How far the layers can drift apart *)

(* What the runs that are over have left in layer l. *)
Left(l) == Len(KeyRows(l)) - Now(l)

DriftInv ==
  \A l \in LayerIds :
    /\ Len(accepted) <= Left(l)
    /\ Left(l) <= Len(accepted) + failures
    /\ l + 1 \in LayerIds => Left(l + 1) <= Left(l)

LEMMA DriftStep ==
  ASSUME RunInv, FlowInv, DriftInv, [Next]_vars
  PROVE  DriftInv'
<1>0. /\ Len(accepted) \in Nat /\ failures \in Nat
      /\ \A l \in LayerIds : Len(KeyRows(l)) \in Nat /\ Now(l) \in {0, 1}
  BY RowsTyped, LenProperties DEF RunInv, TypeOK, Now
<1>a. ASSUME accepted' = accepted, failures' = failures, kv' = kv,
             \A l \in LayerIds : Now(l)' = Now(l)
      PROVE  DriftInv'
  BY <1>a DEF DriftInv, Left, KeyRows
<1>1. CASE LoadPlugin
  BY <1>1, <1>a DEF LoadPlugin, Now, HasAppended
<1>2. ASSUME NEW tok \in {token, token + 1} \ {0}, NEW rows \in 1..MaxRows,
             NEW names \in {Given, Weights, GraphInputs}, Submit(tok, rows, names)
      PROVE  DriftInv'
  BY <1>2, <1>a, NothingAppended, NothingAppendedNext DEF Submit
<1>3. CASE ClearCache
  <2>1. ASSUME NEW l \in LayerIds
        PROVE  Left(l)' = 0
    BY <1>3, NothingAppendedNext DEF ClearCache, Cleared, Left, KeyRows
  <2>2. Len(accepted') = 0 /\ failures' = 0
    BY <1>3 DEF ClearCache
  <2> QED BY <2>1, <2>2 DEF DriftInv
<1>4. ASSUME NEW why \in Outcomes, Throw(why)
      PROVE  DriftInv'
  <2>1. ASSUME NEW l \in LayerIds
        PROVE  Left(l)' = Left(l) + Now(l)
    BY <1>0, <1>4, NothingAppendedNext DEF Throw, Left, KeyRows
  <2>2. accepted' = accepted /\ failures' = failures + 1
    BY <1>4 DEF Throw
  <2>3. \A l \in LayerIds : Left(l) \in Int /\ Now(l) \in {0, 1}
    BY <1>0 DEF Left
  <2> QED BY <1>0, <2>1, <2>2, <2>3, EarlierLayersFirst DEF DriftInv
<1>5. CASE Advances
  BY <1>5, <1>a, AdvanceAppendsNothing DEF Advances
<1>6. CASE AttentionAppend
  <2>1. PICK m \in LayerIds, kr \in Row :
          /\ KeyRows(m)' = KeyRows(m) \o <<kr>>
          /\ \A l \in LayerIds \ {m} : KeyRows(l)' = KeyRows(l)
          /\ ~HasAppended(m) /\ HasAppended(m)'
          /\ \A l \in LayerIds \ {m} : HasAppended(l)' <=> HasAppended(l)
    BY <1>6, AppendEffect
  <2>2. Len(KeyRows(m)') = Len(KeyRows(m)) + 1
    BY <2>1, RowsTyped
  <2>3. ASSUME NEW l \in LayerIds
        PROVE  Left(l)' = Left(l)
    <3>1. CASE l = m
      <4>1. Now(m) = 0 /\ Now(m)' = 1
        BY <2>1 DEF Now
      <4>2. Left(m)' = Len(KeyRows(m)') - Now(m)'
        BY DEF Left
      <4> QED BY <1>0, <2>2, <3>1, <4>1, <4>2 DEF Left
    <3>2. CASE l # m
      BY <2>1, <3>2 DEF Left, Now
    <3> QED BY <3>1, <3>2
  <2> QED BY <1>6, <2>3 DEF AttentionAppend, DriftInv
<1>7. CASE Succeeds
  <2>1. ASSUME NEW l \in LayerIds
        PROVE  Left(l)' = Left(l) + 1
    BY <1>0, <1>7, AllAppended, NothingAppendedNext DEF Succeeds, Left, KeyRows
  <2>2. Len(accepted') = Len(accepted) + 1 /\ failures' = failures
    BY <1>7 DEF Succeeds, RunInv, TypeOK
  <2>3. \A l \in LayerIds : Left(l) \in Int
    BY <1>0 DEF Left
  <2> QED BY <1>0, <2>1, <2>2, <2>3 DEF DriftInv
<1>8. CASE UNCHANGED vars
  BY <1>8, <1>a DEF vars, Now, HasAppended
<1>9. Kinds
  BY NextKinds
<1> QED BY <1>1, <1>2, <1>3, <1>4, <1>5, <1>6, <1>7, <1>8, <1>9 DEF Kinds

LEMMA DriftInductive == Spec => [](RunInv /\ FlowInv /\ DriftInv)
<1>1. Init => DriftInv
  <2> SUFFICES ASSUME Init, NEW l \in LayerIds
               PROVE  Left(l) = 0 /\ Len(accepted) = 0 /\ failures = 0
                      /\ (l + 1 \in LayerIds => Left(l + 1) = 0)
    BY DEF DriftInv
  <2>1. ASSUME NEW m \in LayerIds
        PROVE  Left(m) = 0
    BY NothingAppended DEF Init, Left, KeyRows
  <2> QED BY <2>1 DEF Init
<1>2. (RunInv /\ FlowInv /\ DriftInv) /\ [Next]_vars => DriftInv'
  BY DriftStep
<1> QED BY <1>1, <1>2, FlowInductive, PTL DEF Spec

(* A layer has cached every token of the runs that returned, at most one   *)
(* more for each run that threw, and never more than the layer before it,  *)
(* however many runs throw, and wherever they do.                          *)
THEOREM LayersDriftByFailures == Spec => []DriftIsBounded
<1>1. RunInv /\ FlowInv /\ DriftInv => DriftIsBounded
  <2> SUFFICES ASSUME RunInv, DriftInv, NEW l \in LayerIds
               PROVE  /\ Len(accepted) + Now(l) <= Len(KeyRows(l))
                      /\ Len(KeyRows(l)) <= Len(accepted) + Now(l) + failures
                      /\ l + 1 \in LayerIds => Len(KeyRows(l + 1)) <= Len(KeyRows(l))
    BY DEF DriftIsBounded, Now
  <2>1. /\ Len(accepted) \in Nat /\ failures \in Nat
        /\ \A m \in LayerIds : Len(KeyRows(m)) \in Nat /\ Now(m) \in {0, 1}
    BY RowsTyped, LenProperties DEF RunInv, TypeOK, Now
  <2> QED BY <2>1, EarlierLayersFirst DEF DriftInv, Left
<1> QED BY <1>1, DriftInductive, PTL

-----------------------------------------------------------------------------
(* What the layers hold while no run has thrown *)

LEMMA CachedTokensAppend ==
  ASSUME NEW rows \in Seq(Row), NEW r \in Row
  PROVE  CachedTokens(rows \o <<r>>) = CachedTokens(rows) \o <<r.token>>
<1>1. /\ rows \o <<r>> \in Seq(Row)
      /\ Len(rows \o <<r>>) = Len(rows) + 1
      /\ \A i \in 1..(Len(rows) + 1) :
           (rows \o <<r>>)[i] = IF i <= Len(rows) THEN rows[i] ELSE r
  OBVIOUS
<1>2. CachedTokens(rows) \in Seq(Nat) /\ Len(CachedTokens(rows)) = Len(rows)
      /\ \A i \in 1..Len(rows) : CachedTokens(rows)[i] = rows[i].token
  <2>0. \A i \in 1..Len(rows) : rows[i] \in Row
    BY ElementOfSeq
  <2>1. \A i \in 1..Len(rows) : rows[i].token \in Nat
    BY <2>0 DEF Row
  <2>2. Len(rows) \in Nat /\ DOMAIN rows = 1..Len(rows)
    BY LenProperties
  <2> QED BY <2>1, <2>2 DEF CachedTokens
<1>3. r.token \in Nat
  BY DEF Row
<1>4. CachedTokens(rows \o <<r>>) = [i \in 1..(Len(rows) + 1) |-> (rows \o <<r>>)[i].token]
  BY <1>1 DEF CachedTokens
<1>5. CachedTokens(rows) \o <<r.token>>
        = [i \in 1..(Len(rows) + 1) |-> IF i <= Len(rows) THEN rows[i].token ELSE r.token]
  BY <1>2, <1>3
<1> QED BY <1>1, <1>4, <1>5

LEMMA LockstepStep ==
  ASSUME RunInv, FlowInv, LayersInLockstep, [Next]_vars
  PROVE  LayersInLockstep'
<1> DEFINE context(l) == accepted \o (IF HasAppended(l) THEN <<token>> ELSE << >>)
<1>0. accepted \in Seq(Nat) /\ token \in Nat /\ failures \in Nat
  BY DEF RunInv, TypeOK
<1>b. accepted \o << >> = accepted
  BY <1>0, ConcatEmptySeq
<1>a. ASSUME accepted' = accepted, failures' = failures, kv' = kv,
             \A l \in LayerIds :
               /\ HasAppended(l)' <=> HasAppended(l)
               /\ HasAppended(l) => token' = token
      PROVE  LayersInLockstep'
  BY <1>a DEF LayersInLockstep, KeyRows, ValueRows, CachedTokens
<1>1. CASE LoadPlugin
  BY <1>1, <1>a DEF LoadPlugin, HasAppended
<1>2. ASSUME NEW tok \in {token, token + 1} \ {0}, NEW rows \in 1..MaxRows,
             NEW names \in {Given, Weights, GraphInputs}, Submit(tok, rows, names)
      PROVE  LayersInLockstep'
  BY <1>2, <1>a, NothingAppended, NothingAppendedNext DEF Submit
<1>3. CASE ClearCache
  <2>1. ASSUME NEW l \in LayerIds
        PROVE  ~HasAppended(l)' /\ KeyRows(l)' = << >> /\ ValueRows(l)' = << >>
    BY <1>3, NothingAppendedNext DEF ClearCache, Cleared, KeyRows, ValueRows
  <2>2. accepted' = << >> /\ << >> \o << >> = << >>
    BY <1>3 DEF ClearCache
  <2> QED BY <2>1, <2>2 DEF LayersInLockstep, CachedTokens
<1>4. ASSUME NEW why \in Outcomes, Throw(why)
      PROVE  LayersInLockstep'
  BY <1>0, <1>4 DEF Throw, LayersInLockstep
<1>5. CASE Advances
  BY <1>5, <1>a, AdvanceAppendsNothing DEF Advances
<1>6. CASE AttentionAppend
  <2>1. PICK m \in LayerIds, kr \in Row, vr \in Row :
          /\ kr.token = token /\ vr.token = token
          /\ KeyRows(m)' = KeyRows(m) \o <<kr>> /\ ValueRows(m)' = ValueRows(m) \o <<vr>>
          /\ \A l \in LayerIds \ {m} : KeyRows(l)' = KeyRows(l) /\ ValueRows(l)' = ValueRows(l)
          /\ ~HasAppended(m) /\ HasAppended(m)'
          /\ \A l \in LayerIds \ {m} : HasAppended(l)' <=> HasAppended(l)
    BY <1>6, AppendEffect
  <2>2. accepted' = accepted /\ failures' = failures /\ token' = token
    BY <1>6 DEF AttentionAppend
  <2>3. /\ CachedTokens(KeyRows(m) \o <<kr>>) = CachedTokens(KeyRows(m)) \o <<token>>
        /\ CachedTokens(ValueRows(m) \o <<vr>>) = CachedTokens(ValueRows(m)) \o <<token>>
    BY <2>1, RowsTyped, CachedTokensAppend
  <2> SUFFICES ASSUME failures = 0, NEW l \in LayerIds
               PROVE  CachedTokens(KeyRows(l)') = context(l)' /\ CachedTokens(ValueRows(l)') = context(l)'
    BY <2>2 DEF LayersInLockstep, CachedTokens
  <2>4. CachedTokens(KeyRows(l)) = context(l) /\ CachedTokens(ValueRows(l)) = context(l)
    BY DEF LayersInLockstep
  <2>5. CASE l = m
    <3>1. context(l) = accepted /\ context(l)' = accepted \o <<token>>
      BY <1>b, <2>1, <2>2, <2>5
    <3> QED BY <2>1, <2>3, <2>4, <2>5, <3>1
  <2>6. CASE l # m
    BY <2>1, <2>2, <2>4, <2>6
  <2> QED BY <2>5, <2>6
<1>7. CASE Succeeds
  <2> SUFFICES ASSUME failures = 0, NEW l \in LayerIds
               PROVE  CachedTokens(KeyRows(l)') = context(l)' /\ CachedTokens(ValueRows(l)') = context(l)'
    BY <1>7 DEF Succeeds, LayersInLockstep, CachedTokens
  <2>1. CachedTokens(KeyRows(l)) = context(l) /\ CachedTokens(ValueRows(l)) = context(l)
    BY DEF LayersInLockstep
  <2>2. context(l) = accepted \o <<token>> /\ accepted' = Append(accepted, token)
    BY <1>7, AllAppended DEF Succeeds
  <2>3. accepted' \in Seq(Nat) /\ accepted' = accepted \o <<token>>
    BY <1>0, <2>2, AppendProperties, AppendIsConcat
  <2>4. context(l)' = accepted'
    <3>1. ~HasAppended(l)'
      BY <1>7, NothingAppendedNext DEF Succeeds
    <3> QED BY <2>3, <3>1, ConcatEmptySeq
  <2>5. KeyRows(l)' = KeyRows(l) /\ ValueRows(l)' = ValueRows(l)
    BY <1>7 DEF Succeeds, KeyRows, ValueRows
  <2> QED BY <2>1, <2>2, <2>3, <2>4, <2>5
<1>8. CASE UNCHANGED vars
  BY <1>8, <1>a DEF vars, HasAppended
<1>9. Kinds
  BY NextKinds
<1> QED BY <1>1, <1>2, <1>3, <1>4, <1>5, <1>6, <1>7, <1>8, <1>9 DEF Kinds

(* As long as no run throws, all layers attend to the same context: the    *)
(* tokens of the runs that returned, in order, and the current one where   *)
(* its attention has started.                                              *)
THEOREM LayersStayInLockstep == Spec => []LayersInLockstep
<1>1. Init => LayersInLockstep
  <2> SUFFICES ASSUME Init, NEW l \in LayerIds
               PROVE  ~HasAppended(l) /\ KeyRows(l) = << >> /\ ValueRows(l) = << >>
                      /\ accepted \o << >> = << >>
    BY DEF LayersInLockstep, CachedTokens
  <2> QED BY NothingAppended DEF Init, KeyRows, ValueRows
<1>2. (RunInv /\ FlowInv /\ LayersInLockstep) /\ [Next]_vars => LayersInLockstep'
  BY LockstepStep
<1> QED BY <1>1, <1>2, FlowInductive, PTL DEF Spec

-----------------------------------------------------------------------------
(* What the layers hold whichever runs have thrown *)

LEMMA SubsequenceOfItself ==
  ASSUME NEW s \in Seq(Nat)
  PROVE  IsSubsequence(s, s)
<1>1. [i \in DOMAIN s |-> i] \in [DOMAIN s -> DOMAIN s]
  OBVIOUS
<1> QED BY <1>1, LenProperties DEF IsSubsequence

LEMMA AppendedElements ==
  ASSUME NEW s \in Seq(Nat), NEW x \in Nat
  PROVE  /\ s \o <<x>> \in Seq(Nat)
         /\ Len(s \o <<x>>) = Len(s) + 1
         /\ DOMAIN s = 1..Len(s) /\ DOMAIN (s \o <<x>>) = 1..(Len(s) + 1)
         /\ Len(s) \in Nat
         /\ \A i \in 1..Len(s) : (s \o <<x>>)[i] = s[i]
         /\ (s \o <<x>>)[Len(s) + 1] = x
OBVIOUS

LEMMA SubsequenceOfLonger ==
  ASSUME NEW s \in Seq(Nat), NEW t \in Seq(Nat), NEW x \in Nat, IsSubsequence(s, t)
  PROVE  IsSubsequence(s, t \o <<x>>)
<1>1. PICK f \in [DOMAIN s -> DOMAIN t] :
        /\ \A i \in DOMAIN s : t[f[i]] = s[i]
        /\ \A i, j \in DOMAIN s : i < j => f[i] < f[j]
  BY DEF IsSubsequence
<1>2. /\ DOMAIN t \subseteq DOMAIN (t \o <<x>>)
      /\ \A i \in DOMAIN t : (t \o <<x>>)[i] = t[i]
  BY AppendedElements
<1>3. f \in [DOMAIN s -> DOMAIN (t \o <<x>>)]
  BY <1>2
<1>4. \A i \in DOMAIN s : (t \o <<x>>)[f[i]] = s[i]
  BY <1>1, <1>2
<1> QED BY <1>1, <1>3, <1>4 DEF IsSubsequence

LEMMA SubsequenceOfBoth ==
  ASSUME NEW s \in Seq(Nat), NEW t \in Seq(Nat), NEW x \in Nat, IsSubsequence(s, t)
  PROVE  IsSubsequence(s \o <<x>>, t \o <<x>>)
<1> DEFINE m == Len(s)
<1> DEFINE n == Len(t)
<1>1. PICK f \in [DOMAIN s -> DOMAIN t] :
        /\ \A i \in DOMAIN s : t[f[i]] = s[i]
        /\ \A i, j \in DOMAIN s : i < j => f[i] < f[j]
  BY DEF IsSubsequence
<1>2. /\ m \in Nat /\ DOMAIN s = 1..m /\ DOMAIN (s \o <<x>>) = 1..(m + 1)
      /\ \A i \in 1..m : (s \o <<x>>)[i] = s[i]
      /\ (s \o <<x>>)[m + 1] = x
  BY AppendedElements
<1>3. /\ n \in Nat /\ DOMAIN t = 1..n /\ DOMAIN (t \o <<x>>) = 1..(n + 1)
      /\ \A i \in 1..n : (t \o <<x>>)[i] = t[i]
      /\ (t \o <<x>>)[n + 1] = x
  BY AppendedElements
<1> HIDE DEF m, n
<1> DEFINE g == [i \in 1..(m + 1) |-> IF i = m + 1 THEN n + 1 ELSE f[i]]
<1>4. /\ \A i \in 1..m : f[i] \in 1..n /\ g[i] = f[i]
      /\ g[m + 1] = n + 1
  BY <1>2, <1>3
<1>5. g \in [1..(m + 1) -> 1..(n + 1)]
  BY <1>2, <1>3, <1>4
<1> HIDE DEF g
<1>6. \A i \in 1..(m + 1) : i \in 1..m \/ i = m + 1
  BY <1>2
<1>7. ASSUME NEW i \in 1..(m + 1)
      PROVE  (t \o <<x>>)[g[i]] = (s \o <<x>>)[i]
  <2>1. CASE i \in 1..m
    BY <1>1, <1>2, <1>3, <1>4, <2>1
  <2>2. CASE i = m + 1
    BY <1>2, <1>3, <1>4, <2>2
  <2> QED BY <1>6, <2>1, <2>2
<1>8. ASSUME NEW i \in 1..(m + 1), NEW j \in 1..(m + 1), i < j
      PROVE  g[i] < g[j]
  <2>1. i \in 1..m
    BY <1>2, <1>8
  <2>2. CASE j \in 1..m
    BY <1>1, <1>2, <1>4, <1>8, <2>1, <2>2
  <2>3. CASE j = m + 1
    BY <1>3, <1>4, <2>1, <2>3
  <2> QED BY <1>6, <2>2, <2>3
<1>9. g \in [DOMAIN (s \o <<x>>) -> DOMAIN (t \o <<x>>)]
  BY <1>2, <1>3, <1>5
<1> QED BY <1>2, <1>7, <1>8, <1>9 DEF IsSubsequence

(* What the run in progress has added to layer l. *)
Current(l) == IF HasAppended(l) THEN <<token>> ELSE << >>

Tokens(l) == CachedTokens(KeyRows(l))

(* The runs that are over have left past[l] in layer l. *)
Nested(past) ==
  \A l \in LayerIds :
    /\ Tokens(l) = past[l] \o Current(l)
    /\ IsSubsequence(accepted, past[l])
    /\ l + 1 \in LayerIds => IsSubsequence(past[l + 1], past[l])

NestInv == \E past \in [LayerIds -> Seq(Nat)] : Nested(past)

LEMMA TokensTyped ==
  ASSUME RunInv, NEW l \in LayerIds
  PROVE  Tokens(l) \in Seq(Nat)
<1>1. KeyRows(l) \in Seq(Row)
  BY RowsTyped
<1>2. \A i \in 1..Len(KeyRows(l)) : KeyRows(l)[i] \in Row
  BY <1>1, ElementOfSeq
<1>3. \A i \in 1..Len(KeyRows(l)) : KeyRows(l)[i].token \in Nat
  BY <1>2 DEF Row
<1>4. Len(KeyRows(l)) \in Nat /\ DOMAIN KeyRows(l) = 1..Len(KeyRows(l))
  BY <1>1, LenProperties
<1> QED BY <1>3, <1>4 DEF Tokens, CachedTokens

(* What is nested stays so with what the run in progress has added: it     *)
(* reaches the layers in order.                                            *)
LEMMA CurrentKeepsNesting ==
  ASSUME RunInv, NEW past \in [LayerIds -> Seq(Nat)], Nested(past), NEW l \in LayerIds
  PROVE  /\ IsSubsequence(accepted, Tokens(l))
         /\ IsSubsequence(accepted \o Current(l), Tokens(l))
         /\ l + 1 \in LayerIds => IsSubsequence(Tokens(l + 1), Tokens(l))
<1>0. /\ accepted \in Seq(Nat) /\ token \in Nat
      /\ Current(l) \in {<< >>, <<token>>} /\ past[l] \in Seq(Nat)
  BY DEF RunInv, TypeOK, Current
<1>1. Tokens(l) = past[l] \o Current(l) /\ IsSubsequence(accepted, past[l])
  BY DEF Nested
<1>2. past[l] \o << >> = past[l] /\ accepted \o << >> = accepted
  BY <1>0, ConcatEmptySeq
<1>3. IsSubsequence(accepted, Tokens(l)) /\ IsSubsequence(accepted \o Current(l), Tokens(l))
  BY <1>0, <1>1, <1>2, SubsequenceOfLonger, SubsequenceOfBoth
<1>4. ASSUME l + 1 \in LayerIds
      PROVE  IsSubsequence(Tokens(l + 1), Tokens(l))
  <2>1. /\ Tokens(l + 1) = past[l + 1] \o Current(l + 1) /\ IsSubsequence(past[l + 1], past[l])
        /\ past[l + 1] \in Seq(Nat)
    BY <1>4 DEF Nested
  <2>2. HasAppended(l + 1) => HasAppended(l)
    BY <1>4, EarlierLayersFirst DEF Now
  <2>3. CASE HasAppended(l + 1)
    BY <1>0, <1>1, <2>1, <2>2, <2>3, SubsequenceOfBoth DEF Current
  <2>4. CASE ~HasAppended(l + 1)
    <3>1. Tokens(l + 1) = past[l + 1]
      BY <2>1, <2>4, ConcatEmptySeq DEF Current
    <3> QED BY <1>0, <1>1, <1>2, <2>1, <3>1, SubsequenceOfLonger
  <2> QED BY <2>3, <2>4
<1> QED BY <1>3, <1>4

LEMMA NestStep ==
  ASSUME RunInv, FlowInv, NestInv, [Next]_vars
  PROVE  NestInv'
<1>0. accepted \in Seq(Nat) /\ token \in Nat /\ \A l \in LayerIds : Tokens(l) \in Seq(Nat)
  BY TokensTyped DEF RunInv, TypeOK
<1>p. PICK past \in [LayerIds -> Seq(Nat)] : Nested(past)
  BY DEF NestInv
<1>a. ASSUME accepted' = accepted, kv' = kv,
             \A l \in LayerIds :
               /\ HasAppended(l)' <=> HasAppended(l)
               /\ HasAppended(l) => token' = token
      PROVE  NestInv'
  <2>1. \A l \in LayerIds : Tokens(l)' = Tokens(l) /\ Current(l)' = Current(l)
    BY <1>a DEF Tokens, CachedTokens, KeyRows, Current
  <2>2. Nested(past)'
    BY <1>a, <1>p, <2>1 DEF Nested
  <2> QED BY <2>2 DEF NestInv
<1> DEFINE all == [l \in LayerIds |-> Tokens(l)]
<1>b. ASSUME next' = 0, kv' = kv,
             \A l \in LayerIds : IsSubsequence(accepted', Tokens(l))
      PROVE  NestInv'
  <2>1. all \in [LayerIds -> Seq(Nat)]
    BY <1>0
  <2>2. ASSUME NEW l \in LayerIds
        PROVE  Tokens(l)' = Tokens(l) /\ Current(l)' = << >> /\ Tokens(l) \o << >> = Tokens(l)
    BY <1>0, <1>b, NothingAppendedNext, ConcatEmptySeq
       DEF Tokens, CachedTokens, KeyRows, Current
  <2>3. ASSUME NEW l \in LayerIds, l + 1 \in LayerIds
        PROVE  IsSubsequence(all[l + 1], all[l])
    BY <1>p, <2>3, CurrentKeepsNesting
  <2>4. ASSUME NEW l \in LayerIds
        PROVE  /\ Tokens(l)' = all[l] \o Current(l)'
               /\ IsSubsequence(accepted', all[l])
    BY <1>b, <2>2
  <2> HIDE DEF all
  <2>5. PICK left \in [LayerIds -> Seq(Nat)] : left = all
    BY <2>1
  <2>6. Nested(left)'
    BY <2>3, <2>4, <2>5 DEF Nested
  <2> QED BY <2>6 DEF NestInv
<1>1. CASE LoadPlugin
  BY <1>1, <1>a DEF LoadPlugin, HasAppended
<1>2. ASSUME NEW tok \in {token, token + 1} \ {0}, NEW rows \in 1..MaxRows,
             NEW names \in {Given, Weights, GraphInputs}, Submit(tok, rows, names)
      PROVE  NestInv'
  BY <1>2, <1>a, NothingAppended, NothingAppendedNext DEF Submit
<1>3. CASE ClearCache
  <2> DEFINE empty == [l \in LayerIds |-> << >>]
  <2>1. empty \in [LayerIds -> Seq(Nat)]
    OBVIOUS
  <2>2. << >> \in Seq(Nat) /\ << >> \o << >> = << >>
    OBVIOUS
  <2>3. IsSubsequence(<< >>, << >>)
    BY <2>2, SubsequenceOfItself
  <2>4. ASSUME NEW l \in LayerIds
        PROVE  Tokens(l)' = << >> /\ Current(l)' = << >>
    BY <1>3, NothingAppendedNext DEF ClearCache, Cleared, Tokens, CachedTokens, KeyRows, Current
  <2>5. accepted' = << >>
    BY <1>3 DEF ClearCache
  <2>6. Nested(empty)'
    BY <2>2, <2>3, <2>4, <2>5 DEF Nested
  <2> QED BY <2>1, <2>6 DEF NestInv
<1>4. ASSUME NEW why \in Outcomes, Throw(why)
      PROVE  NestInv'
  BY <1>4, <1>b, <1>p, CurrentKeepsNesting DEF Throw
<1>5. CASE Advances
  BY <1>5, <1>a, AdvanceAppendsNothing DEF Advances
<1>6. CASE AttentionAppend
  <2>1. PICK m \in LayerIds, kr \in Row :
          /\ kr.token = token
          /\ KeyRows(m)' = KeyRows(m) \o <<kr>>
          /\ \A l \in LayerIds \ {m} : KeyRows(l)' = KeyRows(l)
          /\ ~HasAppended(m) /\ HasAppended(m)'
          /\ \A l \in LayerIds \ {m} : HasAppended(l)' <=> HasAppended(l)
    BY <1>6, AppendEffect
  <2>2. accepted' = accepted /\ token' = token
    BY <1>6 DEF AttentionAppend
  <2>3. CachedTokens(KeyRows(m) \o <<kr>>) = CachedTokens(KeyRows(m)) \o <<token>>
    BY <2>1, RowsTyped, CachedTokensAppend
  <2>4. Tokens(m)' = Tokens(m) \o <<token>>
    BY <2>1, <2>3 DEF Tokens, CachedTokens
  <2>5. ASSUME NEW l \in LayerIds
        PROVE  Tokens(l)' = past[l] \o Current(l)'
    <3>1. Tokens(l) = past[l] \o Current(l) /\ past[l] \in Seq(Nat)
      BY <1>p DEF Nested
    <3>2. CASE l = m
      <4>1. Current(l) = << >> /\ Current(l)' = <<token>>
        BY <2>1, <2>2, <3>2 DEF Current
      <4>2. Tokens(l) = past[l]
        BY <3>1, <4>1, ConcatEmptySeq
      <4> QED BY <2>4, <3>2, <4>1, <4>2
    <3>3. CASE l # m
      BY <2>1, <2>2, <3>1, <3>3 DEF Tokens, CachedTokens, Current
    <3> QED BY <3>2, <3>3
  <2>6. Nested(past)'
    BY <1>p, <2>2, <2>5 DEF Nested
  <2> QED BY <2>6 DEF NestInv
<1>7. CASE Succeeds
  <2>1. accepted' = accepted \o <<token>>
    BY <1>0, <1>7, AppendIsConcat DEF Succeeds
  <2>2. ASSUME NEW l \in LayerIds
        PROVE  IsSubsequence(accepted', Tokens(l))
    BY <1>7, <1>p, <2>1, AllAppended, CurrentKeepsNesting DEF Current
  <2> QED BY <1>7, <1>b, <2>2 DEF Succeeds
<1>8. CASE UNCHANGED vars
  BY <1>8, <1>a DEF vars, HasAppended
<1>9. Kinds
  BY NextKinds
<1> QED BY <1>1, <1>2, <1>3, <1>4, <1>5, <1>6, <1>7, <1>8, <1>9 DEF Kinds

(* However many runs throw, and wherever: the tokens of the runs that      *)
(* returned are in every layer's context in their order, and what a later  *)
(* layer attends to an earlier one does too.                               *)
THEOREM ContextsStayNested == Spec => []ContextsNest
<1>1. Init => NestInv
  <2> SUFFICES ASSUME Init
               PROVE  NestInv
    OBVIOUS
  <2> DEFINE empty == [l \in LayerIds |-> << >>]
  <2>1. empty \in [LayerIds -> Seq(Nat)]
    OBVIOUS
  <2>2. << >> \in Seq(Nat) /\ << >> \o << >> = << >>
    OBVIOUS
  <2>3. IsSubsequence(<< >>, << >>) /\ accepted = << >>
    BY <2>2, SubsequenceOfItself DEF Init
  <2>4. ASSUME NEW l \in LayerIds
        PROVE  Tokens(l) = << >> /\ Current(l) = << >>
    BY NothingAppended DEF Init, Tokens, CachedTokens, KeyRows, Current
  <2>5. Nested(empty)
    BY <2>2, <2>3, <2>4 DEF Nested
  <2> QED BY <2>1, <2>5 DEF NestInv
<1>2. (RunInv /\ FlowInv /\ NestInv) /\ [Next]_vars => NestInv'
  BY NestStep
<1>3. RunInv /\ NestInv => ContextsNest
  <2> SUFFICES ASSUME RunInv, NestInv, NEW l \in LayerIds
               PROVE  /\ IsSubsequence(accepted \o Current(l), Tokens(l))
                      /\ l + 1 \in LayerIds => IsSubsequence(Tokens(l + 1), Tokens(l))
    BY DEF ContextsNest, Current, Tokens
  <2> QED BY CurrentKeepsNesting DEF NestInv
<1> QED BY <1>1, <1>2, <1>3, FlowInductive, PTL DEF Spec

-----------------------------------------------------------------------------
(* What the cache sees *)

(* An entry is never empty, so one that has grown is not the chunk. *)
EntriesHaveRows == \A l \in LayerIds : kv[l] # None => Len(KeyRows(l)) >= 1

LEMMA EntriesHaveRowsStep ==
  ASSUME RunInv, FlowInv, EntriesHaveRows, [Next]_vars
  PROVE  EntriesHaveRows'
<1>1. CASE AttentionAppend
  <2>1. PICK m \in LayerIds, kr \in Row :
          /\ kv' = [kv EXCEPT ![m] = Grown(kv[m])]
          /\ KeyRows(m)' = KeyRows(m) \o <<kr>>
          /\ \A l \in LayerIds \ {m} : KeyRows(l)' = KeyRows(l)
    BY <1>1, AppendEffect
  <2>2. Len(KeyRows(m)') >= 1
    BY <2>1, RowsTyped
  <2>3. \A l \in LayerIds \ {m} : kv'[l] = kv[l]
    BY <2>1 DEF RunInv, TypeOK
  <2>4. EntriesHaveRows' <=> \A l \in LayerIds : kv'[l] # None => Len(KeyRows(l)') >= 1
    BY DEF EntriesHaveRows
  <2> QED BY <2>1, <2>2, <2>3, <2>4 DEF EntriesHaveRows
<1>2. CASE kv' = kv
  BY <1>2 DEF EntriesHaveRows, KeyRows
<1>3. CASE ClearCache
  BY <1>3 DEF ClearCache, Cleared, EntriesHaveRows
<1>4. Kinds
  BY NextKinds
<1> QED BY <1>1, <1>2, <1>3, <1>4 DEF Kinds, LoadPlugin, Submit, Throw, Advances, Succeeds, vars

(* The variables ChunkLog sees. *)
ChunkNow == IF Computing({"attention"}) THEN Chunk ELSE None
SharedNow == IF stage = "attend" /\ kv[AttentionLayer] = Chunk THEN {AttentionLayer} ELSE {}

(* A step that leaves the entries alone and starts another node, or none.  *)
LEMMA StepOffers ==
  ASSUME stage' = "start", kv' = kv, appended' = appended
  PROVE  Cache!Next
<1>1. Cache!Offer
  BY DEF Cache!Offer
<1> QED BY <1>1 DEF Cache!Next

(* Between runs there is no chunk. *)
LEMMA IdleHasNoChunk ==
  ASSUME RunInv, next = 0
  PROVE  ChunkNow = None /\ SharedNow = {}
BY NumNodesNat DEF RunInv, StageInv, TypeOK, ChunkNow, SharedNow, Computing, Running

LEMMA IdleHasNoChunkNext ==
  ASSUME RunInv, next = 0, next' = 0, stage' = stage
  PROVE  ChunkNow' = None /\ SharedNow' = {}
BY NumNodesNat DEF RunInv, StageInv, TypeOK, ChunkNow, SharedNow, Computing, Running, NumNodes

(* The append of an attention node creates an entry or extends it. *)
LEMMA AppendIsSeen ==
  ASSUME RunInv, FlowInv, EntriesHaveRows, AttentionAppend
  PROVE  Cache!Next
<1>0. Computing({"attention"}) /\ stage = "start"
  BY DEF AttentionAppend
<1>1. PICK m \in LayerIds, kr \in Row, vr \in Row :
        /\ AttentionLayer = m
        /\ Chunk = [key |-> <<kr>>, value |-> <<vr>>]
        /\ kv' = [kv EXCEPT ![m] = Grown(kv[m])]
        /\ KeyRows(m)' = KeyRows(m) \o <<kr>>
  BY AppendEffect
<1>2. Chunk # None
  BY <1>0, ChunkType, EngineAssumption
<1>3. UNCHANGED <<registered, env, next>> /\ stage' = "attend" /\ appended' = "ok"
  BY DEF AttentionAppend
<1>4. ChunkNow = Chunk /\ ChunkNow' = Chunk /\ Chunk' = Chunk /\ AttentionLayer' = m
  BY <1>0, <1>1, <1>3
     DEF ChunkNow, Chunk, Computing, Running, ThisNode, HasInputs, Input, RowsOf, AttentionLayer
<1>5. SharedNow = {} /\ SharedNow' = IF kv'[m] = Chunk THEN {m} ELSE {}
  BY <1>0, <1>3, <1>4 DEF SharedNow
<1>6. kv'[m] = Grown(kv[m]) /\ kv[m] \in Entry \union {None}
  BY <1>1 DEF RunInv, TypeOK
<1>7. CASE kv[m] = None
  <2>1. kv' = [kv EXCEPT ![m] = Chunk] /\ SharedNow' = {m}
    BY <1>1, <1>5, <1>6, <1>7 DEF Grown
  <2>2. Cache!Create(m)
    BY <1>2, <1>3, <1>4, <1>5, <1>7, <2>1 DEF Cache!Create, ChunkNow, SharedNow
  <2> QED BY <2>2 DEF Cache!Next
<1>8. CASE kv[m] # None
  <2>1. Grown(kv[m]) = Cache!Append2(kv[m], Chunk)
    BY <1>8 DEF Grown
  <2>2. kv'[m] # Chunk
    <3>1. Len(KeyRows(m)') # 1
      BY <1>1, <1>8, RowsTyped DEF EntriesHaveRows
    <3>2. ASSUME kv'[m] = Chunk
          PROVE  KeyRows(m)' = <<kr>>
      BY <1>1, <1>2, <3>2 DEF KeyRows
    <3>3. ASSUME KeyRows(m)' = <<kr>>
          PROVE  Len(KeyRows(m)') = 1
      BY <3>3
    <3> QED BY <3>1, <3>2, <3>3
  <2>3. kv' = [kv EXCEPT ![m] = Cache!Append2(kv[m], Chunk)] /\ SharedNow' = {}
    BY <1>1, <1>5, <2>1, <2>2
  <2>4. Cache!Extend(m)
    BY <1>2, <1>3, <1>4, <1>5, <1>8, <2>3 DEF Cache!Extend, ChunkNow, SharedNow
  <2> QED BY <2>4 DEF Cache!Next
<1> QED BY <1>7, <1>8

LEMMA SeenStep ==
  ASSUME RunInv, FlowInv, EntriesHaveRows, [Next]_vars
  PROVE  [Cache!Next]_(Cache!vars)
<1>a. ASSUME next = 0, next' = 0, stage' = stage, kv' = kv, appended' = appended
      PROVE  UNCHANGED Cache!vars
  BY <1>a, IdleHasNoChunk, IdleHasNoChunkNext DEF Cache!vars, ChunkNow, SharedNow
<1>1. CASE LoadPlugin
  BY <1>1, <1>a DEF LoadPlugin
<1>2. ASSUME NEW tok, NEW rows, NEW names, Submit(tok, rows, names)
      PROVE  Cache!Next
  BY <1>2, StepOffers DEF Submit
<1>3. CASE ClearCache
  <2>1. /\ ChunkNow = None /\ ChunkNow' = None /\ SharedNow' = {}
        /\ kv' = [l \in LayerIds |-> None] /\ appended' = appended
    BY <1>3, IdleHasNoChunk, IdleHasNoChunkNext DEF ClearCache, Cleared
  <2>2. Cache!Clear
    BY <2>1 DEF Cache!Clear, ChunkNow, SharedNow
  <2> QED BY <2>2 DEF Cache!Next
<1>4. ASSUME NEW why \in Outcomes, Throw(why)
      PROVE  Cache!Next
  BY <1>4, StepOffers DEF Throw
<1>5. CASE Advances
  BY <1>5, StepOffers DEF Advances
<1>6. CASE AttentionAppend
  BY <1>6, AppendIsSeen
<1>7. CASE Succeeds
  <2>1. stage = "start"
    BY <1>7, NumNodesNat DEF Succeeds, RunInv, StageInv, TypeOK, Running
  <2> QED BY <1>7, <2>1, StepOffers DEF Succeeds
<1>8. CASE UNCHANGED vars
  BY <1>8 DEF vars, Cache!vars, Computing, Running, ThisNode, HasInputs, Chunk, Input, RowsOf,
              AttentionLayer
<1>9. Kinds
  BY NextKinds
<1> QED BY <1>1, <1>2, <1>3, <1>4, <1>5, <1>6, <1>7, <1>8, <1>9 DEF Kinds

(* Whatever a run does, and whichever way it ends, the cache sees chunks   *)
(* appended to one layer at a time, and clear(): the session implements    *)
(* ChunkLog, the specification KVCache is proved against.                  *)
THEOREM SessionsAppendChunks == Spec => CacheSeesAppends
<1>1. Init => Cache!Init
  BY NumNodesNat DEF Init, Cache!Init, Computing, Running
<1>2. Init => EntriesHaveRows
  BY DEF Init, EntriesHaveRows
<1>3. (RunInv /\ FlowInv /\ EntriesHaveRows) /\ [Next]_vars => EntriesHaveRows'
  BY EntriesHaveRowsStep
<1>4. (RunInv /\ FlowInv /\ EntriesHaveRows) /\ [Next]_vars => [Cache!Next]_(Cache!vars)
  BY SeenStep
<1> QED BY <1>1, <1>2, <1>3, <1>4, FlowInductive, PTL DEF Spec, CacheSeesAppends, Cache!Spec

=============================================================================
