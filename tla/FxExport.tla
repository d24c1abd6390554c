------------------------------- MODULE FxExport -------------------------------
(***************************************************************************)
(* _export_fx and what its graph does: a model is traced node by node,     *)
(* lowered to a graph and weights, and run by the engine with the vision   *)
(* operators of the plugin on an input of the same shape as the example or *)
(* another batch.  Of a tensor the model keeps its shape and, as a term,   *)
(* how its elements were computed.  PyTorch is external: what a module     *)
(* does to a shape, when it refuses one, what shares storage.  Pools round *)
(* down and convolutions pad with zeros, as they do by default.            *)
(***************************************************************************)
EXTENDS Shapes, FiniteSets, AotPlugin

CONSTANTS Modules,       \* the submodules of the model, each with its path
          RootParams,      \* parameters of the model itself: name to shape
          ViewTargets,     \* the literal arguments of view() and reshape()
          InputNames,      \* names of forward()'s parameters
          Examples,        \* shapes of the example input
          Batches,         \* the batch sizes of later runs
          HalfInt,         \* half the range of int, 2^31
          MaxColumns,      \* the columns for which CUDA still launches linear's grid
          MaxCalls        \* bound: calls in the trace

OpOf ==
  [Linear |-> "linear", BatchNorm2d |-> "batch_norm2d", Conv2d |-> "conv2d",
   ReLU |-> "relu", MaxPool2d |-> "max_pool2d", Flatten |-> "reshape"]

Sizes == Nat \ {0}

Paths == {m.path : m \in Modules}

\* PyTorch's modules check their arguments; of any other module only the type
\* matters.
TorchModules ==
  [type : {"Linear"}, path : Paths, in : Sizes, out : Sizes, bias : BOOLEAN]
    \cup [type : {"BatchNorm2d"}, path : Paths, channels : Sizes, affine : BOOLEAN,
          tracked : BOOLEAN]
    \cup [type : {"Conv2d"}, path : Paths, in : Sizes, out : Sizes, kernel : Sizes \X Sizes,
          stride : Sizes \X Sizes, padding : Nat \X Nat, dilation : Sizes, groups : Sizes,
          bias : BOOLEAN]
    \cup [type : {"MaxPool2d"}, path : Paths, kernel : Sizes \X Sizes, stride : Sizes \X Sizes,
          padding : Nat \X Nat, dilation : Sizes]
    \cup [type : {"ReLU"}, path : Paths, inplace : BOOLEAN]
    \cup [type : {"Flatten"}, path : Paths]
    \cup [type : STRING \ DOMAIN OpOf, path : Paths]

InMemory(shape) == Count(shape) < Half

\* A path is one module's; the tensors there are have dimensions and elements,
\* and fit.
ASSUME FxAssumption ==
  /\ Modules \subseteq TorchModules
  /\ \A m1, m2 \in Modules : m1.path = m2.path => m1 = m2
  /\ \A shape \in Examples \cup {RootParams[name] : name \in DOMAIN RootParams} :
       shape \in Seq(Sizes) \ {<<>>} /\ InMemory(shape)
  /\ Batches \subseteq Sizes
  /\ ViewTargets \subseteq Seq(Sizes \cup {-1}) \ {<<>>}
  /\ HalfInt \in 1 .. Half
  /\ MaxColumns \in Nat

VARIABLES plugin,        \* what the generator has made
          phase,
          fx,            \* the FX nodes so far, with what the tracer knows of each
          nodes,         \* the nodes of the graph
          weights,       \* the tensors of the WeightWriter
          outputs,       \* the FX nodes the model returns
          lost,          \* history: what left no mark: constructs in the graph, and the
                         \* "width" of an integer in a launch
          tensors,       \* Engine::run's map
          next           \* the node it is at

fxVars == <<plugin, phase, fx, nodes, weights, outputs, lost, tensors, next>>

\* A map into which entries are put, over what it had there.
Put(map, entries) ==
  [n \in DOMAIN map \cup DOMAIN entries |-> IF n \in DOMAIN entries THEN entries[n] ELSE map[n]]

Value(shape, term) == [shape |-> shape, term |-> term]

Term(op, args, attrs, dropped) ==
  [op |-> op, args |-> args, attrs |-> attrs, dropped |-> dropped]

Leaf(name) == Term(name, <<>>, <<>>, {})

-----------------------------------------------------------------------------
(* The modules, as PyTorch runs them *)

\* How many positions a window has along one dimension.
Windows(size, k, stride, padding, dilation) ==
  LET room == size + 2 * padding - dilation * (k - 1) - 1
  IN  IF room < 0 THEN {} ELSE {(room \div stride) + 1}

\* Images may come without a batch dimension.
TorchWindow(m, channels, shape) ==
  LET r == Len(shape)
  IN  {[shape EXCEPT ![r - 2] = channels, ![r - 1] = h, ![r] = w] :
         h \in Windows(shape[r - 1], m.kernel[1], m.stride[1], m.padding[1], m.dilation),
         w \in Windows(shape[r], m.kernel[2], m.stride[2], m.padding[2], m.dilation)}

Collapse(shape, start) ==
  SubSeq(shape, 1, start) \o <<Count(SubSeq(shape, start + 1, Len(shape)))>>

TorchShape(m, shape) ==
  LET r == Len(shape)
  IN  CASE m.type = "Linear" ->
             IF r >= 1 /\ shape[r] = m.in THEN {[shape EXCEPT ![r] = m.out]} ELSE {}
        [] m.type = "BatchNorm2d" -> IF r = 4 /\ shape[2] = m.channels THEN {shape} ELSE {}
        [] m.type = "Conv2d" ->
             IF r \in {3, 4} /\ shape[r - 2] = m.in THEN TorchWindow(m, m.out, shape) ELSE {}
        [] m.type = "MaxPool2d" ->
             IF r \in {3, 4} THEN TorchWindow(m, shape[r - 2], shape) ELSE {}
        [] m.type = "Flatten" -> IF r >= 2 THEN {Collapse(shape, 1)} ELSE {}
        [] OTHER -> {shape}

\* One size at most is inferred.
TorchView(shape, target) ==
  LET known == Count([i \in DOMAIN target |-> IF target[i] = -1 THEN 1 ELSE target[i]])
      view  == [i \in DOMAIN target |->
                  IF target[i] = -1 THEN Count(shape) \div known ELSE target[i]]
  IN  IF (\A i, j \in Inferred(target) : i = j) /\ Count(view) = Count(shape)
      THEN {view} ELSE {}

\* What a module does that no node of a graph can say.
Dropped(m) ==
  (IF m.type \in {"Conv2d", "MaxPool2d"} /\ m.dilation # 1 THEN {"dilation"} ELSE {})
    \cup (IF m.type = "Conv2d" /\ m.groups # 1 THEN {"groups"} ELSE {})

ParamShape(m, which) ==
  CASE m.type = "Linear" /\ which = "weight" -> <<m.out, m.in>>
    [] m.type = "Conv2d" /\ which = "weight" ->
         <<m.out, m.in \div m.groups, m.kernel[1], m.kernel[2]>>
    [] m.type = "BatchNorm2d" -> <<m.channels>>
    [] OTHER -> <<m.out>>

\* A batch norm without affine parameters scales by one and adds nothing.
Param(m, which) ==
  Value(ParamShape(m, which),
        IF m.type = "BatchNorm2d" /\ ~m.affine /\ which \in {"weight", "bias"}
        THEN Leaf(<<"identity", which>>)
        ELSE Leaf(<<m.path, which>>))

TorchParams(m) ==
  CASE m.type \in {"Linear", "Conv2d"} ->
         <<Param(m, "weight")>> \o (IF m.bias THEN <<Param(m, "bias")>> ELSE <<>>)
    [] m.type = "BatchNorm2d" ->
         <<Param(m, "weight"), Param(m, "bias"), Param(m, "mean"), Param(m, "var")>>
    [] OTHER -> <<>>

\* Flatten keeps the elements.
TorchTerm(m, x) ==
  IF m.type \notin DOMAIN OpOf \ {"Flatten"} THEN x.term
  ELSE Term(OpOf[m.type], <<x>> \o TorchParams(m),
            CASE m.type = "Conv2d" -> <<m.stride, m.padding>>
              [] m.type = "MaxPool2d" -> <<m.kernel, m.stride, m.padding>>
              [] OTHER -> <<>>,
            Dropped(m))

\* PyTorch raises where it cannot allocate.
TorchModule(m, x) ==
  {Value(s, TorchTerm(m, x)) : s \in {s \in TorchShape(m, x.shape) : InMemory(s)}}

-----------------------------------------------------------------------------
(* The trace *)

\* FX makes its names unique: base, base_1, base_2.
NameOf(base) ==
  LET same == {i \in DOMAIN fx : fx[i].base = base}
  IN  IF same = {} THEN <<base>> ELSE <<base, "_", Cardinality(same)>>

\* A node of the trace: its name in the graph, the value of the example, the
\* value of an actual input (none if PyTorch refuses it), and the storage it is
\* in, as of which write to it.
FxNode(base, env, example, actual, at, version) ==
  [base |-> base, env |-> env, example |-> example, actual |-> actual,
   at |-> at, version |-> version]

\* An in-place operation has changed the tensor since.
Stale(i) == \E j \in DOMAIN fx : fx[j].at = fx[i].at /\ fx[j].version > fx[i].version

\* The plugin is there before a model is exported.
Started == plugin = "built" /\ phase = "trace" /\ fx = <<>>

Tracing == phase = "trace" /\ fx # <<>> /\ Len(fx) <= MaxCalls

Raises ==
  /\ phase' = "raised"
  /\ UNCHANGED <<plugin, fx, nodes, weights, outputs, lost, tensors, next>>

\* The first dimension is the batch, unless it is the only one.
Placeholder(name, example, batch) ==
  LET term   == Leaf(<<name>>)
      actual == IF Len(example) > 1 THEN [example EXCEPT ![1] = batch] ELSE example
  IN  /\ Started /\ InMemory(actual)
      /\ fx' = <<FxNode(name, <<name>>, Value(example, term), {Value(actual, term)}, 1, 0)>>
      /\ UNCHANGED <<plugin, phase, nodes, weights, outputs, lost, tensors, next>>

NoExample == Started /\ Raises

\* The name of a parameter of the model itself is its path, one part.
GetAttr(name) ==
  LET value == Value(RootParams[name], Leaf(<<name, "parameter">>))
  IN  /\ Tracing
      /\ fx' = Append(fx, FxNode(name, <<name>>, value, {value}, Len(fx) + 1, 0))
      /\ weights' = Put(weights, [n \in {<<name>>} |-> value])
      /\ UNCHANGED <<plugin, phase, nodes, outputs, lost, tensors, next>>

Node(op, inputs, output, attrs) ==
  [op |-> op, inputs |-> inputs, output |-> output, attrs |-> attrs]

(* Mutant: a batch norm comes without its statistics. *)
AddedAffineOnly(m) ==
  CASE m.type \in {"Linear", "Conv2d"} -> <<"weight">> \o (IF m.bias THEN <<"bias">> ELSE <<>>)
    [] m.type = "BatchNorm2d" -> <<"weight", "bias">>
    [] OTHER -> <<>>

\* The parameters a node's inputs list after x, each of them saved.
Added(m) ==
  CASE m.type \in {"Linear", "Conv2d"} -> <<"weight">> \o (IF m.bias THEN <<"bias">> ELSE <<>>)
    [] m.type = "BatchNorm2d" -> <<"weight", "bias", "mean", "var">>
    [] OTHER -> <<>>

ParamNames(m) == [k \in DOMAIN Added(m) |-> <<m.path, Added(m)[k]>>]

(* Mutant: a convolution's stride is not written, and conv2d takes its default. *)
AttrsNoStride(m, example) ==
  CASE m.type = "Conv2d" -> <<<<1, 1>>, m.padding>>
    [] m.type = "MaxPool2d" -> <<m.kernel, m.stride, m.padding>>
    [] m.type = "Flatten" -> <<example.shape>>
    [] OTHER -> <<>>

\* A flatten is lowered to the shape it has for the example.
Attrs(m, example) ==
  CASE m.type = "Conv2d" -> <<m.stride, m.padding>>
    [] m.type = "MaxPool2d" -> <<m.kernel, m.stride, m.padding>>
    [] m.type = "Flatten" -> <<example.shape>>
    [] OTHER -> <<>>

Unsupported(m) ==
  \/ m.type \notin DOMAIN OpOf
  \/ m.type = "BatchNorm2d" /\ ~m.tracked

IsInplace(m) == m.type = "ReLU" /\ m.inplace

(* Mutant: a node's output is named for what it calls, not for the node. *)
OutTarget(base) == <<base>>

\* The name of a node's output.
Out(base) == NameOf(base)

\* The node the trace gets for a call on node i, in i's storage or its own.
Result(base, i, examples, actuals, shares, writes) ==
  {FxNode(base, Out(base), example, actuals,
          IF shares THEN fx[i].at ELSE Len(fx) + 1,
          IF shares THEN fx[i].version + writes ELSE 0) : example \in examples}

\* A node of the graph for a call on node i.
Lower(node, op, i, params, attrs, dropped) ==
  /\ fx' = Append(fx, node)
  /\ nodes' = Append(nodes, Node(op, <<fx[i].env>> \o params, node.env, attrs))
  /\ lost' = lost \cup dropped \cup (IF Stale(i) THEN {"inplace"} ELSE {})
  /\ UNCHANGED <<plugin, phase, outputs, tensors, next>>

CallModule(m, i) ==
  LET results == Result(m.path, i, TorchModule(m, fx[i].example),
                        UNION {TorchModule(m, x) : x \in fx[i].actual},
                        m.type = "Flatten" \/ IsInplace(m), IF IsInplace(m) THEN 1 ELSE 0)
      params  == ParamNames(m)
  IN  /\ Tracing
      /\ \/ (results = {} \/ Unsupported(m)) /\ Raises
         \/ /\ ~Unsupported(m)
            /\ \E node \in results :
                 Lower(node, OpOf[m.type], i, params, Attrs(m, node.example), Dropped(m))
            /\ weights' = Put(weights, [n \in {params[k] : k \in DOMAIN params} |-> Param(m, n[2])])

Views(name, target, x) ==
  {Value(shape, x.term) :
     shape \in IF name = "flatten" THEN {Collapse(x.shape, 0)} ELSE TorchView(x.shape, target)}

\* view(), reshape() and torch.flatten(), lowered to the shape of the example.
\* Any other method or function raises.
CallView(name, target, i) ==
  LET results == Result(name, i, Views(name, target, fx[i].example),
                        UNION {Views(name, target, x) : x \in fx[i].actual}, TRUE, 0)
  IN  /\ Tracing
      /\ \/ (results = {} \/ name = "size") /\ Raises
         \/ /\ name # "size"
            /\ \E node \in results : Lower(node, "reshape", i, <<>>, <<node.example.shape>>, {})
            /\ UNCHANGED weights

\* The files are written, and the caller gives the engine the weights and its
\* inputs, in one map.
Output(is) ==
  /\ phase = "trace" /\ nodes # <<>>
  /\ outputs' = is
  /\ lost' = lost \cup (IF \E k \in DOMAIN is : Stale(is[k]) THEN {"inplace"} ELSE {})
  /\ tensors' = Put(weights, [n \in {fx[1].env} |-> CHOOSE x \in fx[1].actual : TRUE])
  /\ phase' = "run"
  /\ next' = 1
  /\ UNCHANGED <<plugin, fx, nodes, weights>>

-----------------------------------------------------------------------------
(* The operators of the plugin, on CUDA tensors of floats *)

\* The division of C++ truncates.
Truncated(a, b) == IF a >= 0 THEN a \div b ELSE -((-a) \div b)

Extent(size, k, stride, padding) == Truncated(size + 2 * padding - k, stride) + 1

\* An int64_t put in an int.
AsInt32(n) == ((n + HalfInt) % (2 * HalfInt)) - HalfInt

Narrow(s) == [k \in DOMAIN s |-> AsInt32(s[k])]

\* dim(2) and dim(3) need rank 4.
WindowShape(shape, channels, k, stride, padding) ==
  IF Len(shape) < 4 THEN {}
  ELSE {<<shape[1], channels, Extent(shape[3], k[1], stride[1], padding[1]),
          Extent(shape[4], k[2], stride[2], padding[2])>>}

\* The shape of what a convolution or a pool makes, from dimensions in ints.
Windowed(op, xs, attrs) ==
  LET shape == Narrow(xs[1].shape)
  IN  IF op = "max_pool2d"
      THEN WindowShape(shape, shape[2], Narrow(attrs[1]), attrs[2], attrs[3])
      ELSE LET weight == Narrow(xs[2].shape)
           IN  WindowShape(shape, weight[1], SubSeq(weight, 3, 4), attrs[1], attrs[2])

\* The shape each operator gives its output; what it does not compare it takes
\* from the weight.  withShape() makes a view of no dimensions one of one.
OutShape(op, xs, attrs) ==
  LET shape == xs[1].shape
  IN  CASE op = "linear" -> {[shape EXCEPT ![Len(shape)] = AsInt32(xs[2].shape[1])]}
        [] op = "batch_norm2d" ->
             IF /\ Len(shape) = 4 /\ Len(xs) = 5
                /\ \A k \in 2 .. 5 : Count(xs[k].shape) = AsInt32(shape[2])
             THEN {shape} ELSE {}
        [] op \in {"conv2d", "max_pool2d"} -> {Narrow(s) : s \in Windowed(op, xs, attrs)}
        [] op = "relu" -> {shape}
        [] op = "reshape" -> {Normal(s) : s \in ReshapeShape(shape, attrs[1])}

Members(s) == {s[k] : k \in DOMAIN s}

\* What the operators that launch a kernel hold in ints: their attributes, and
\* of each tensor the dimensions and the offsets, which its count bounds.
InInts(op, xs, attrs) ==
  LET shapes == {xs[k].shape : k \in DOMAIN xs}
                  \cup (IF op \in {"conv2d", "max_pool2d"} THEN Windowed(op, xs, attrs)
                        ELSE OutShape(op, xs, attrs))
  IN  (UNION {Members(attrs[k]) : k \in DOMAIN attrs})
        \cup (UNION {Members(shape) \cup {Count(shape)} : shape \in shapes})

\* Some of it does not fit.
Wide(op, xs, attrs) ==
  op # "reshape" /\ \E n \in InInts(op, xs, attrs) : AsInt32(n) # n

Flag(xs) == IF Len(xs) = 3 THEN 1 ELSE 0

\* The kernel a template looks for.
Kernel(op, xs, attrs) ==
  CASE op = "linear" -> {<<"linear", xs[2].shape[2], Flag(xs)>>}
    [] op = "conv2d" -> {<<"conv">> \o Tail(Narrow(xs[2].shape)) \o <<Flag(xs)>>}
    [] op = "max_pool2d" -> {<<"maxpool">> \o Narrow(attrs[1])}
    [] op \in {"relu", "batch_norm2d"} -> {<<op>>}
    [] op = "reshape" -> {}

\* The plugin has the kernel, and CUDA takes its grid: of linear's, the second
\* dimension grows with the columns.
HasKernel(op, xs, attrs) ==
  /\ Kernel(op, xs, attrs) \subseteq TemplateKernels[op]
  /\ op = "linear" => xs[2].shape[1] <= MaxColumns

\* Tensor::cuda() refuses a negative dimension, and what it cannot allocate.  A
\* kernel whose sizes or offsets have been cut off may leave anything.
Compute(op, xs, attrs) ==
  {Value(shape, IF op = "reshape" THEN xs[1].term ELSE Term(op, xs, attrs, dropped)) :
     shape \in {shape \in OutShape(op, xs, attrs) :
                HasKernel(op, xs, attrs) /\ ~HasNegative(shape) /\ InMemory(shape)},
     dropped \in {{}} \cup (IF Wide(op, xs, attrs) THEN {{"width"}} ELSE {})}

-----------------------------------------------------------------------------
(* Engine::run *)

Inputs(n) == [k \in DOMAIN nodes[n].inputs |-> tensors[nodes[n].inputs[k]]]

HasInputs(n) == \A k \in DOMAIN nodes[n].inputs : nodes[n].inputs[k] \in DOMAIN tensors

\* CUDA may refuse the grid of a wide launch.
RunNode ==
  LET node    == nodes[next]
      results == IF HasInputs(next) THEN Compute(node.op, Inputs(next), node.attrs) ELSE {}
      wide    == HasInputs(next) /\ Wide(node.op, Inputs(next), node.attrs)
  IN  /\ phase = "run" /\ next \in DOMAIN nodes
      /\ \/ (results = {} \/ wide) /\ phase' = "threw" /\ UNCHANGED <<tensors, next>>
         \/ /\ \E value \in results : tensors' = Put(tensors, [n \in {node.output} |-> value])
            /\ next' = next + 1
            /\ UNCHANGED phase
      /\ lost' = lost \cup (IF wide THEN {"width"} ELSE {})
      /\ UNCHANGED <<plugin, fx, nodes, weights, outputs>>

Return ==
  /\ phase = "run" /\ next = Len(nodes) + 1
  /\ phase' = IF \A k \in DOMAIN outputs : fx[outputs[k]].env \in DOMAIN tensors
              THEN "done" ELSE "threw"
  /\ UNCHANGED <<plugin, fx, nodes, weights, outputs, lost, tensors, next>>

-----------------------------------------------------------------------------
\* The generator compiles every specification, which fails if a kernel needs
\* scratch memory, then fills the templates, which fails if a placeholder is
\* left.
BuildPlugin ==
  /\ plugin = "none"
  /\ plugin' \in {"needs scratch"}
       \cup {IF Unresolved = {} THEN "built" ELSE "unresolved placeholder"}
  /\ UNCHANGED <<phase, fx, nodes, weights, outputs, lost, tensors, next>>

FxInit ==
  /\ plugin = "none"
  /\ phase = "trace"
  /\ fx = <<>> /\ nodes = <<>> /\ outputs = <<>>
  /\ weights = << >> /\ tensors = << >>
  /\ lost = {}
  /\ next = 0

FxNext ==
  \/ BuildPlugin
  \/ NoExample
  \/ \E name \in InputNames, example \in Examples, batch \in Batches :
       Placeholder(name, example, batch)
  \/ \E name \in DOMAIN RootParams : GetAttr(name)
  \/ \E i \in DOMAIN fx :
       \/ \E m \in Modules : CallModule(m, i)
       \/ \E name \in {"flatten", "size"} : CallView(name, <<>>, i)
       \/ \E target \in ViewTargets : CallView("view", target, i)
       \/ Output(<<i, Len(fx)>>)
  \/ RunNode
  \/ Return

FxSpec == FxInit /\ [][FxNext]_fxVars

-----------------------------------------------------------------------------
NamesOf(n) == {nodes[n].inputs[k] : k \in DOMAIN nodes[n].inputs}

\* The graph is topologically sorted over the input and the weights, each node
\* names an output of its own, and every FX value is one of those (_export_fx).
FxTypeOK ==
  /\ plugin \in {"none", "built", "needs scratch", "unresolved placeholder"}
  /\ phase \in {"trace", "raised", "run", "threw", "done"}
  /\ lost \subseteq {"dilation", "groups", "inplace", "width"}
  /\ next \in 0 .. Len(nodes) + 1
  /\ \A n \in DOMAIN nodes :
       NamesOf(n) \subseteq {fx[1].env} \cup DOMAIN weights \cup {nodes[j].output : j \in 1 .. n - 1}
  /\ \A i, j \in DOMAIN nodes : nodes[i].output = nodes[j].output => i = j
  /\ \A i \in DOMAIN fx :
       fx[i].env \in {fx[1].env} \cup DOMAIN weights \cup {nodes[n].output : n \in DOMAIN nodes}

\* The plugin embeds exactly the kernels its templates name (emit_plugin): the
\* generator's list and the sixteen dispatch tables are written by hand.
PluginIsExact ==
  /\ plugin # "unresolved placeholder"
  /\ plugin = "built" =>
       DefaultSpecs = UNION {TemplateKernels[op] : op \in DOMAIN TemplateKernels}

\* A parameter of the model and another value have the same name in the graph,
\* where FX names and parameter paths meet.
Clash ==
  \E i, j \in DOMAIN fx : fx[i].env = fx[j].env /\ fx[i].example # fx[j].example

\* An export that lost no construct is faithful: a run on the example's shape,
\* or on another batch, either throws or returns what the model computes, as
\* long as its sizes, attributes and offsets fit the ints of the templates and
\* kernels.  Beyond that, a run may return anything (lost has "width").
Faithful ==
  phase = "done" /\ lost = {} /\ ~Clash =>
    \A k \in DOMAIN outputs : {tensors[fx[outputs[k]].env]} = fx[outputs[k]].actual

\* What has been exported runs on its example, as far as there are kernels, the
\* images come in a batch and every launch fits the ints: no name is missing, no
\* shape refused.
ExampleRuns ==
  phase = "threw" /\ fx[1].actual = {fx[1].example} /\ lost = {} /\ ~Clash =>
    /\ next \in DOMAIN nodes
    /\ HasInputs(next)
    /\ \/ ~HasKernel(nodes[next].op, Inputs(next), nodes[next].attrs)
       \/ nodes[next].op \in {"conv2d", "max_pool2d"} /\ Len(Inputs(next)[1].shape) = 3

=============================================================================
