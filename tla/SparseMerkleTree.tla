------------------------- MODULE SparseMerkleTree -------------------------
(***************************************************************************)
(* The incremental maintenance of table nodes_next: the import of a first  *)
(* set of certificates (cmd/db-address-exporter), AddNewCertificates and   *)
(* RemoveExpiredCertificates (pkg/database/ingestion.go) and the functions *)
(* of database/functions they call.  Each SQL statement is an action; the  *)
(* transaction around them commits or rolls back.  The loop over the map   *)
(* of changed positions runs in any order, as Go's does.                   *)
(***************************************************************************)
EXTENDS SmtNodes, FiniteSets

CONSTANTS
    Covers,           \* Covers[c]: CertificateToBitStrings(c), one after the
                      \*   other for each area of c, so it may repeat a pair
    Imported,         \* the certificates of the importer's input
    MaxBatch,         \* bound on the length of an insertion
    RemovalAccepted   \* does the database accept the UPDATE of a removal

ASSUME TreeAssumption ==
    /\ IsFiniteSet(Certs)
    /\ Covers \in [Certs -> Seq(Pairs)]
    /\ Imported \subseteq Certs
    /\ MaxBatch \in Nat
    /\ RemovalAccepted \in BOOLEAN

VARIABLES
    rows,        \* nodes_next as the transaction sees it: position -> row
    committed,   \* nodes_next as of the last commit
    job,         \* what runs: "none", "import", "add" or "remove"
    phase,       \* its loop: over "certs" or over "ancestors"
    change,      \* certificatesToAdd / certificatesToRemove, still to be applied
    pending      \* ancestorSet: positions whose child hashes are recomputed

vars == <<rows, committed, job, phase, change, pending>>
-----------------------------------------------------------------------------
Occurrences(c, p) == Cardinality({i \in DOMAIN Covers[c] : Covers[c][i] = p})
Extent(c) == ToSet(Covers[c])
NoChange == [p \in {} |-> NoCerts]

\* The importer's map of nodes: each certificate at its positions, every
\* ancestor, no hashes yet.  Its loop over all nodes sets the hashes.
ImportedNodes ==
    LET listing == UNION {Extent(c) : c \in Imported}
    IN  [p \in listing \cup UNION {Ancestors(q) : q \in listing} |->
            NewRow([c \in Certs |-> IF c \in Imported THEN Occurrences(c, p) ELSE 0])]

Init ==
    /\ rows = ImportedNodes
    /\ committed = [p \in {} |-> NewRow(NoCerts)]
    /\ job = "import"
    /\ phase = "ancestors"
    /\ change = NoChange
    /\ pending = DOMAIN rows

\* insertCertificates: appends, for each certificate of the batch and each of
\* its positions.
AddNewCertificates(batch) ==
    /\ job = "none"
    /\ job' = "add"
    /\ phase' = "certs"
    /\ change' = [p \in UNION {Extent(batch[i]) : i \in DOMAIN batch} |->
                    [c \in Certs |-> Cardinality({i \in DOMAIN batch : batch[i] = c})
                                     * Occurrences(c, p)]]
    /\ pending' = {Root}
    /\ UNCHANGED <<rows, committed>>

\* Mutant: on a conflict the child hashes are reset as for a new row.
UpsertCertificates_ResetsHashes(p) ==
    /\ job = "add" /\ phase = "certs"
    /\ p \in DOMAIN change
    /\ rows' = Upserted(rows, p,
                 NewRow(IF p \in DOMAIN rows THEN array_union(rows[p].certs, change[p])
                        ELSE change[p]))
    /\ pending' = pending \cup Ancestors(p)
    /\ change' = [q \in DOMAIN change \ {p} |-> change[q]]
    /\ UNCHANGED <<committed, job, phase>>

\* INSERT ... ON CONFLICT DO UPDATE for one position, then its ancestors.
UpsertCertificates(p) ==
    /\ job = "add" /\ phase = "certs"
    /\ p \in DOMAIN change
    /\ rows' = Upserted(rows, p,
                 IF p \in DOMAIN rows
                 THEN [rows[p] EXCEPT !.certs = array_union(@, change[p])]
                 ELSE NewRow(change[p]))
    /\ pending' = pending \cup Ancestors(p)
    /\ change' = [q \in DOMAIN change \ {p} |-> change[q]]
    /\ UNCHANGED <<committed, job, phase>>

\* findAndRemoveExpiredCertificates: the rows that list an expired certificate.
RemoveExpiredCertificates(expired) ==
    /\ job = "none"
    /\ job' = "remove"
    /\ phase' = "certs"
    /\ change' = [p \in {q \in DOMAIN rows : Listed(rows[q].certs) \cap expired # {}} |->
                    SetToArray(expired)]
    /\ pending' = {Root}
    /\ UNCHANGED <<rows, committed>>

\* UPDATE ... array_difference for one position, then its ancestors.
RemoveCertificates(p) ==
    /\ job = "remove" /\ phase = "certs"
    /\ p \in DOMAIN change
    /\ RemovalAccepted
    /\ rows' = [rows EXCEPT ![p].certs = array_difference(@, change[p])]
    /\ pending' = pending \cup Ancestors(p)
    /\ change' = [q \in DOMAIN change \ {p} |-> change[q]]
    /\ UNCHANGED <<committed, job, phase>>

\* Every position is changed: sort the ancestors.
SortAncestors ==
    /\ job # "none" /\ phase = "certs"
    /\ change = NoChange
    /\ phase' = "ancestors"
    /\ UNCHANGED <<rows, committed, job, change, pending>>

\* Mutant: missing ancestors are not created.
UpdateAncestor_NoInsert(p) ==
    /\ job # "none" /\ phase = "ancestors"
    /\ p \in pending
    /\ \A q \in pending : ~Deeper(q, p)
    /\ rows' = IF p \in DOMAIN rows THEN Upserted(rows, p, Rehashed(rows, p)) ELSE rows
    /\ pending' = pending \ {p}
    /\ UNCHANGED <<committed, job, phase, change>>

\* The next ancestor: an insertion creates its row if it is missing; then
\* update_children_hashes, which changes nothing where there is no row.
UpdateAncestor(p) ==
    /\ job # "none" /\ phase = "ancestors"
    /\ p \in pending
    /\ \A q \in pending : ~Deeper(q, p)
    /\ LET t == IF job = "add" /\ p \notin DOMAIN rows
                THEN Upserted(rows, p, NewRow(NoCerts)) ELSE rows
       IN  rows' = IF p \in DOMAIN t THEN Upserted(t, p, Rehashed(t, p)) ELSE t
    /\ pending' = pending \ {p}
    /\ UNCHANGED <<committed, job, phase, change>>

Commit ==
    /\ job # "none" /\ phase = "ancestors"
    /\ pending = {}
    /\ committed' = rows
    /\ job' = "none"
    /\ UNCHANGED <<rows, phase, change, pending>>

\* A statement fails and the handler returns: the transaction is rolled back.
\* An import that does not end leaves the tables empty.
Rollback ==
    /\ job # "none"
    /\ rows' = committed
    /\ job' = "none"
    /\ change' = NoChange
    /\ pending' = {}
    /\ UNCHANGED <<committed, phase>>

Insertion == \E n \in 0..MaxBatch : \E batch \in [1..n -> Certs] : AddNewCertificates(batch)
Removal == \E expired \in SUBSET Certs : RemoveExpiredCertificates(expired)
Upsert == \E p \in DOMAIN change : UpsertCertificates(p)
TakeOff == \E p \in DOMAIN change : RemoveCertificates(p)
Rehash == \E p \in pending : UpdateAncestor(p)

Next == Insertion \/ Removal \/ Upsert \/ TakeOff \/ SortAncestors \/ Rehash \/ Commit \/ Rollback

Spec == Init /\ [][Next]_vars
-----------------------------------------------------------------------------
\* The smallest tree that lists the same certificates, each once: what a
\* single insertion into empty tables would store.
Minimal(t) ==
    LET used == {p \in DOMAIN t : t[p].certs # NoCerts}
    IN  [p \in {Root} \cup used \cup UNION {Ancestors(q) : q \in used} |->
            NewRow(SetToArray(Listed(t[p].certs)))]
-----------------------------------------------------------------------------
(* Rows are stored at positions of the tree and list certificates.         *)
TypeOK ==
    /\ DOMAIN rows \subseteq Pairs /\ DOMAIN committed \subseteq Pairs
    /\ \A p \in DOMAIN rows : rows[p].certs \in Array
    /\ \A p \in DOMAIN committed : committed[p].certs \in Array
    /\ job \in {"none", "import", "add", "remove"}
    /\ phase \in {"certs", "ancestors"}
    /\ DOMAIN change \subseteq Pairs
    /\ \A p \in DOMAIN change : change[p] \in Array
    /\ pending \subseteq Pairs

\* The child hashes stored at p are those of the children that are stored.
Current(t, p) == t[p] = Rehashed(t, p)

(* Between transactions every stored hash is the hash of the stored child, *)
(* whatever the order in which positions changed: the loop over ancestors  *)
(* recomputes every hash it must, and each after those below it.           *)
HashesCurrent == \A p \in DOMAIN committed : Current(committed, p)

(* No row is stored without its ancestors: nothing is lost from the hash   *)
(* of the root, and a walk from the root reaches every row.                *)
NoOrphans == \A p \in DOMAIN committed : Ancestors(p) \subseteq DOMAIN committed

(* The hash that is signed, computed from the root row alone, is the hash  *)
(* a client computes from the complete tree.                               *)
RootCommitsToTree ==
    Root \in DOMAIN committed => QueryRootHash(committed) = Hash(WithoutHashes(committed))[Root]

(* A node lists a set of certificates (the comments of insertCertificates  *)
(* and AddNewCertificates): none occurs twice.                             *)
ListedOnce == \A p \in DOMAIN committed : committed[p].certs \in [Certs -> {0, 1}]

(* Unless something is removed, and while no row repeats a certificate,    *)
(* the root is the one a single insertion of all certificates would give:  *)
(* it depends neither on the order nor on the grouping of the insertions.  *)
RootIndependentOfHistory ==
    [](job # "remove") =>
    [](Root \in DOMAIN committed /\ ListedOnce
       => QueryRootHash(committed) = Hash(Minimal(committed))[Root])

(* Each transaction changes the certificates of the map as one insertion   *)
(* or one expiry does, at all their positions or at none.                  *)
Content(t) == [p \in Pairs |-> IF p \in DOMAIN t THEN Listed(t[p].certs) ELSE {}]
PromisedMap == INSTANCE CertificateMap WITH
    Positions <- Pairs, Covers <- [c \in Certs |-> Extent(c)], content <- Content(committed)
ImplementsMap == PromisedMap!Spec
=============================================================================
