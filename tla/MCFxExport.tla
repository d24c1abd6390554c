----------------------------- MODULE MCFxExport -----------------------------
EXTENDS FxExport

Conv(path, in, out, k, stride, padding, dilation, groups, bias) ==
  [type |-> "Conv2d", path |-> path, in |-> in, out |-> out, kernel |-> k, stride |-> stride,
   padding |-> padding, dilation |-> dilation, groups |-> groups, bias |-> bias]

Pool(path, dilation) ==
  [type |-> "MaxPool2d", path |-> path, kernel |-> <<2, 2>>, stride |-> <<2, 2>>,
   padding |-> <<0, 0>>, dilation |-> dilation]

Linear(path, in, out, bias) ==
  [type |-> "Linear", path |-> path, in |-> in, out |-> out, bias |-> bias]

\* A convolution of a 3x3 image gives 2x2, a pool of that 1x1.
MCModules ==
  {Conv("conv", 1, 2, <<2, 2>>, <<2, 1>>, <<1, 0>>, 1, 1, TRUE),
   Conv("dilated", 1, 2, <<2, 2>>, <<1, 1>>, <<0, 0>>, 2, 1, FALSE),
   Conv("grouped", 2, 2, <<2, 2>>, <<1, 1>>, <<0, 0>>, 1, 2, FALSE),
   Pool("pool", 1),
   Linear("fc2", 2, 2, FALSE),
   Linear("fc8", 8, 3, TRUE),
   [type |-> "BatchNorm2d", path |-> "bn", channels |-> 2, affine |-> FALSE, tracked |-> TRUE],
   [type |-> "BatchNorm2d", path |-> "untracked", channels |-> 2, affine |-> TRUE, tracked |-> FALSE],
   [type |-> "ReLU", path |-> "relu", inplace |-> FALSE],
   [type |-> "ReLU", path |-> "relu_", inplace |-> TRUE],
   [type |-> "Flatten", path |-> "flat"],
   [type |-> "Dropout", path |-> "drop"]}

MCRootParams == [p |-> <<2, 2>>]

MCViewTargets == {<<-1, 8>>, <<1, -1>>}

\* A batch of one image, or an image.
MCExamples == {<<1, 1, 3, 3>>, <<1, 3, 3>>}

=============================================================================
