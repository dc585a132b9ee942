---------------------------- MODULE MCTensorOps ----------------------------
\* Small tensors: two or three elements per axis, one pair of leaves per op.
EXTENDS TensorOps

B == "BF16"
MCLeaves == {
  << <<2>>, B, <<2>>, B >>,
  << <<2, 2>>, B, <<2>>, B >>,
  << <<2, 2>>, "F32", <<1, 2>>, "F32" >>,
  << <<2, 1, 3>>, B, <<3>>, B >>,
  << <<1, 2, 2>>, B, <<1, 2, 2>>, B >>,
  << <<3, 2>>, B, <<2>>, "U32" >>,
  << <<2, 2>>, "U32", <<2, 2>>, B >>,
  << <<3, 1, 2>>, B, <<2, 1, 2>>, B >>,
  << <<1, 2, 1, 4>>, B, <<1>>, B >>,
  << <<1, 2, 2, 2>>, B, <<1, 1, 3, 2>>, B >>,
  << <<1, 2, 1, 2>>, B, <<1, 1, 2, 2>>, B >>}

MCShapes == {<<>>, <<1>>, <<4>>, <<1, 2>>, <<2, 2>>, <<1, 2, 2>>, <<2, 1, 1, 2>>}

Labels(n, from) == [i \in 1..n |-> <<from + i>>]
MCQWeight == [n |-> 2, k |-> 4, kLogical |-> 2,
              w |-> Labels(4, 200), scales |-> Labels(4, 300), biases |-> Labels(4, 400)]
=============================================================================
