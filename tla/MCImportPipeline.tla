------------------------- MODULE MCImportPipeline -------------------------
(* Constants of ImportPipeline for TLC. *)
EXTENDS ImportPipeline

CONSTANTS c1, c2, c3

East == [xy |-> <<1>>, z |-> <<>>]
WestLow == [xy |-> <<0>>, z |-> <<0>>]

\* c1 names a position twice.  With c1 alone the tree has three nodes, with c2
\* four, which fill two files.
MCCovers == [c \in Certs |->
    CASE c = c1 -> <<WestLow, WestLow>>
      [] c = c2 -> <<WestLow, East>>
      [] OTHER -> <<East>>]

\* Between them: no row at all, every reason to skip one, a file of certificates
\* that is full and one that is not, a certificate that occurs twice.
MCDatasets == {
    <<>>,
    <<Unusable, c3>>,
    <<c1>>,
    <<c2, Unusable, c1>>,
    <<c1, c3, c2>>,
    <<c2, c2, c1>>}
=============================================================================
