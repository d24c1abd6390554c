------------------------------ MODULE AotPlugin ------------------------------
(***************************************************************************)
(* The kernels of the AOT plugin: the specializations the generator        *)
(* compiles (tools/build_triton_aot_ops.py), and those the operators'      *)
(* templates name in their {{HASH_...}} placeholders.  A kernel is its id, *)
(* taken apart.                                                            *)
(***************************************************************************)
EXTENDS Integers

Bools == {0, 1}

Ids1(op, A) == {<<op, a>> : a \in A}
Ids2(op, A, B) == {<<op, a, b>> : a \in A, b \in B}

\* Shape tuples and a flag.
IdsOf(op, Shapes3, A) == {<<op, s[1], s[2], s[3], a>> : s \in Shapes3, a \in A}

-----------------------------------------------------------------------------
(* default_specs() *)

NormSpecs == {<<"batch_norm2d">>}

HiddenSpecs == UNION {Ids1(op, {2, 4, 8, 128, 4096}) : op \in {"embedding", "rms_norm"}}

LinearSpecs ==
  LET k == {2, 4, 8, 64, 128, 1024, 4096}
  IN  Ids2("linear", k, Bools) \cup Ids1("matmul", k)

ElementwiseSpecs == {<<op>> : op \in {"add", "mul", "silu", "relu"}}

SoftmaxSpecs == Ids1("softmax", {8, 16, 32, 64, 128, 256, 512})

TransposeSpecs == {<<"transpose2d">>}

(* Mutant: the layers of one channel get no kernel with a bias. *)
ConvSpecsNoBias ==
  IdsOf("conv", {<<1, 2, 2>>, <<1, 3, 3>>}, {0})
    \cup IdsOf("conv", {<<3, 3, 3>>, <<8, 3, 3>>, <<16, 3, 3>>}, Bools)

ConvSpecs ==
  IdsOf("conv", {<<1, 2, 2>>, <<1, 3, 3>>, <<3, 3, 3>>, <<8, 3, 3>>, <<16, 3, 3>>}, Bools)

PoolSpecs == {<<"maxpool", k, k>> : k \in {2, 3}}

AttentionShapes ==
  {<<1, 1, 2>>, <<1, 2, 2>>, <<2, 2, 2>>, <<1, 1, 128>>, <<1, 128, 128>>,
   <<1, 512, 128>>, <<1, 2048, 128>>, <<128, 128, 128>>}

AttentionSpecs == IdsOf("attention", AttentionShapes, Bools)

RotarySpecs ==
  {<<"rotary", s[1], s[2], s[3]>> :
     s \in {<<2, 1, 1>>, <<2, 2, 1>>, <<128, 1, 64>>, <<128, 128, 64>>}}

DefaultSpecs ==
  NormSpecs \cup HiddenSpecs \cup LinearSpecs \cup ElementwiseSpecs \cup SoftmaxSpecs
    \cup TransposeSpecs \cup ConvSpecs \cup PoolSpecs \cup AttentionSpecs \cup RotarySpecs

-----------------------------------------------------------------------------
(* The templates, one per name of OPERATOR_NAMES *)

BatchNormKernels == {<<"batch_norm2d">>}

EmbeddingKernels == Ids1("embedding", {2, 4, 8, 128, 4096})

RmsNormKernels == Ids1("rms_norm", {2, 4, 8, 128, 4096})

LinearKernels == Ids2("linear", {2, 4, 8, 64, 128, 1024, 4096}, Bools)

MatmulKernels == Ids1("matmul", {2, 4, 8, 64, 128, 1024, 4096})

SoftmaxKernels == Ids1("softmax", {8, 16, 32, 64, 128, 256, 512})

PoolKernels == {<<"maxpool", 2, 2>>, <<"maxpool", 3, 3>>}

ConvKernels ==
  IdsOf("conv", {<<1, 2, 2>>} \cup {<<c, 3, 3>> : c \in {1, 3, 8, 16}}, Bools)

AttentionKernels ==
  IdsOf("attention",
        {<<1, k, 2>> : k \in {1, 2}} \cup {<<1, k, 128>> : k \in {1, 128, 512, 2048}}
          \cup {<<s, s, s>> : s \in {2, 128}},
        Bools)

RotaryKernels ==
  {<<"rotary", r[1], r[2], r[1] \div 2>> :
     r \in {<<2, 1>>, <<2, 2>>, <<128, 1>>, <<128, 128>>}}

TemplateKernels ==
  [batch_norm2d |-> BatchNormKernels, embedding |-> EmbeddingKernels,
   rms_norm |-> RmsNormKernels, linear |-> LinearKernels, matmul |-> MatmulKernels,
   add |-> {<<"add">>}, mul |-> {<<"mul">>}, relu |-> {<<"relu">>}, silu |-> {<<"silu">>},
   max_pool2d |-> PoolKernels, softmax |-> SoftmaxKernels, reshape |-> {},
   transpose |-> {<<"transpose2d">>}, conv2d |-> ConvKernels,
   attention |-> AttentionKernels, rotary |-> RotaryKernels]

\* A placeholder that emit_plugin() has no hash for.
Unresolved == (UNION {TemplateKernels[op] : op \in DOMAIN TemplateKernels}) \ DefaultSpecs

=============================================================================
