------------------------ MODULE MCSparseMerkleTree ------------------------
(* Instances of SparseMerkleTree for TLC: trees of depth two by one. *)
EXTENDS SparseMerkleTree, TLC

CONSTANTS c1, c2, c3

At(xy, z) == [xy |-> xy, z |-> z]

\* c1 lies in a leaf; c2 on an ancestor of that leaf and in the other half, in
\* an altitude tree half way down; c3 only there, by two of its areas.
MCCovers ==
    (c1 :> << At(<<0, 1>>, <<1>>) >>)
    @@ (c2 :> << At(<<0>>, <<>>), At(<<1>>, <<1>>) >>)
    @@ (c3 :> << At(<<1>>, <<1>>), At(<<1>>, <<1>>) >>)
=============================================================================
