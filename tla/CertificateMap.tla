-------------------------- MODULE CertificateMap --------------------------
(***************************************************************************)
(* What the ingestion promises of the next map, without rows, hashes or    *)
(* transactions: which certificates each position lists, and a root that   *)
(* commits to them.  SparseMerkleTree implements it.                       *)
(***************************************************************************)
CONSTANTS Certs, Positions, Covers

VARIABLE content   \* content[p]: the certificates listed at position p

Init == content = [p \in Positions |-> {}]

\* A batch is published at all its positions, or not at all.
Insert == \E batch \in SUBSET Certs :
    content' = [p \in Positions |-> content[p] \cup {c \in batch : p \in Covers[c]}]

\* Certificates leave the map from all their positions at once.
Expire == \E gone \in SUBSET Certs :
    content' = [p \in Positions |-> content[p] \ gone]

Spec == Init /\ [][Insert \/ Expire]_content
=============================================================================
