---------------------------- MODULE MCMapQuery ----------------------------
(* Instances of MapQuery for TLC. *)
EXTENDS MapQuery, TLC

CONSTANT c1

\* The lowest altitude is below zero.
MCD == -1

At(xy, z) == [xy |-> xy, z |-> z]

\* Two leaves in the plane with a common parent and one in the other half, and
\* altitude trees at every depth, some of them down to the leaves.
MCPlaces ==
    { At(<<0>>, <<>>), At(<<0, 0>>, <<>>), At(<<0, 1>>, <<>>), At(<<1, 0>>, <<>>),
      At(<<0>>, <<0>>), At(<<0>>, <<1, 0>>), At(<<0, 1>>, <<1>>), At(<<0, 1>>, <<0, 1>>),
      At(<<1, 0>>, <<1, 1>>) }

\* The whole world, every single string, and two strings of different lengths.
MCAreas == {{s} : s \in BitStringsUpTo(XY_BITS)}
           \cup {{s, t} : s \in {<<0>>}, t \in BitStringsUpTo(XY_BITS) \ {<<>>, <<0>>}}
=============================================================================
