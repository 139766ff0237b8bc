----------------------------- MODULE SmtNodes -----------------------------
(***************************************************************************)
(* The rows of the sparse Merkle tree and their hashes, as the database    *)
(* computes them (database/functions) and as the client and the importer   *)
(* do (pkg/crypto/node.go).                                                *)
(*                                                                         *)
(* A hash is modelled as a record of what is hashed, so that two hashes    *)
(* are equal exactly when their inputs are.                                *)
(***************************************************************************)
EXTENDS BitStrings

CONSTANT Certs   \* certificates

\* certificate_hashes is an array: how often each certificate occurs in it,
\* as its order never matters.
Array == [Certs -> Nat]
NoCerts == [c \in Certs |-> 0]
Listed(a) == {c \in Certs : a[c] > 0}
SetToArray(S) == [c \in Certs |-> IF c \in S THEN 1 ELSE 0]

\* Mutant: the new array replaces the old one.
array_union_Replace(a, b) == SetToArray(Listed(b))

array_union(a, b) == SetToArray(Listed(a) \cup Listed(b))
array_difference(a, b) == SetToArray(Listed(a) \ Listed(b))

Null == [kind |-> "null"]
DEFAULT_HASH == [kind |-> "sha256(0)"]
OrDefault(h) == IF h = Null THEN DEFAULT_HASH ELSE h

\* An array that is empty is left out of what is hashed; it has one value.
NodeHash(hashes, certs) ==
    [kind |-> "node", children |-> [s \in Sides |-> OrDefault(hashes[s])], certs |-> certs]
LeafHash(certs) == [kind |-> "leaf", certs |-> certs]

\* A row: the stored hashes of its children and the certificates it lists.
NewRow(certs) == [child |-> [s \in Sides |-> Null], certs |-> certs]
Upserted(t, p, row) == [q \in DOMAIN t \cup {p} |-> IF q = p THEN row ELSE t[q]]
-----------------------------------------------------------------------------
(* The database. *)

\* Mutant: every row is hashed as an intermediate node.
smt_hash_NoLeaf(p, row) == NodeHash(row.child, row.certs)

\* The hash of an empty leaf is NULL, as string_agg of no rows is NULL.
smt_hash(p, row) ==
    IF ~Leaf(p) THEN NodeHash(row.child, row.certs)
    ELSE IF row.certs = NoCerts THEN Null ELSE LeafHash(row.certs)

\* The LEFT JOIN finds no row for a child that is not stored.
StoredHash(t, p) == IF p \in DOMAIN t THEN smt_hash(p, t[p]) ELSE Null

\* The row update_children_hashes leaves at p.
Rehashed(t, p) ==
    [child |-> [s \in Sides |-> IF HasSide(p, s) THEN StoredHash(t, Child(p, s)) ELSE Null],
     certs |-> t[p].certs]

\* QueryRootHash: the hash of the root row alone.
QueryRootHash(t) == smt_hash(Root, t[Root])
-----------------------------------------------------------------------------
(* The client.  A tree is built from nodes: a child whose hash a node does *)
(* not give is linked if it is among the nodes.                            *)

Linked(t, p, s) == HasSide(p, s) /\ t[p].child[s] = Null /\ Child(p, s) \in DOMAIN t

\* node.Hash() for every node of a tree.
Hash(t) ==
    LET H[p \in DOMAIN t] ==
            IF ~Leaf(p)
            THEN NodeHash([s \in Sides |-> IF Linked(t, p, s) THEN H[Child(p, s)]
                                           ELSE t[p].child[s]], t[p].certs)
            ELSE IF t[p].certs = NoCerts THEN DEFAULT_HASH ELSE LeafHash(t[p].certs)
    IN  H

\* The same nodes without any hash: a tree that is sent as a whole.
WithoutHashes(t) == [p \in DOMAIN t |-> NewRow(t[p].certs)]
=============================================================================
