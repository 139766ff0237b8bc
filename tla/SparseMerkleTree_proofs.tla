--------------------- MODULE SparseMerkleTree_proofs ---------------------
(***************************************************************************)
(* Theorems about SparseMerkleTree, for every length of bit strings, every *)
(* set of certificates and every cover of theirs: types; hashes and        *)
(* ancestors; the map that a transaction changes as a whole, whatever the  *)
(* order of its statements; and what the root commits to.                  *)
(***************************************************************************)
EXTENDS SparseMerkleTree, SmtNodes_proofs

---------------------------------------------------------------------------
(* Types *)

\* A row is a record of its child hashes and its certificates.
Row(r) == r = [child |-> r.child, certs |-> r.certs] /\ r.certs \in Array

TypeInv ==
    /\ TypeOK
    /\ \A p \in DOMAIN rows : Row(rows[p])
    /\ \A p \in DOMAIN committed : Row(committed[p])

LEMMA ArrayTypes ==
    /\ NoCerts \in Array
    /\ \A S : SetToArray(S) \in Array
    /\ \A a, b : array_union(a, b) \in Array /\ array_difference(a, b) \in Array
BY DEF NoCerts, Array, SetToArray, array_union, array_difference

LEMMA RowIntro == \A h : \A a \in Array : Row([child |-> h, certs |-> a])
BY DEF Row

LEMMA NewRowIsRow == \A a \in Array : Row(NewRow(a)) /\ NewRow(a).certs = a
BY DEF Row, NewRow

LEMMA CoverTypes ==
    ASSUME NEW c \in Certs
    PROVE  Extent(c) \subseteq Pairs /\ \A p : Occurrences(c, p) \in Nat
<1>1. Covers[c] \in Seq(Pairs) /\ DOMAIN Covers[c] = 1..Len(Covers[c]) /\ Len(Covers[c]) \in Nat
  BY TreeAssumption, LenProperties
<1>2. Extent(c) \subseteq Pairs
  BY <1>1, ElementOfSeq DEF Extent, ToSet
<1>3. ASSUME NEW p PROVE Occurrences(c, p) \in Nat
  <2>1. IsFiniteSet(1..Len(Covers[c]))
    BY <1>1, FS_Interval
  <2>2. IsFiniteSet({i \in DOMAIN Covers[c] : Covers[c][i] = p})
    BY <1>1, <2>1, FS_Subset
  <2> QED BY <2>2, FS_CardinalityType DEF Occurrences
<1> QED BY <1>2, <1>3

\* What an insertion appends for each position.
LEMMA BatchTypes ==
    ASSUME NEW n \in Nat, NEW batch \in [1..n -> Certs], NEW p
    PROVE  [c \in Certs |-> Cardinality({i \in DOMAIN batch : batch[i] = c})
                            * Occurrences(c, p)] \in Array
<1> DEFINE times(c) == Cardinality({i \in DOMAIN batch : batch[i] = c}) * Occurrences(c, p)
<1>1. ASSUME NEW c \in Certs PROVE times(c) \in Nat
  <2>1. IsFiniteSet({i \in DOMAIN batch : batch[i] = c})
    BY FS_Interval, FS_Subset
  <2>2. Cardinality({i \in DOMAIN batch : batch[i] = c}) \in Nat
    BY <2>1, FS_CardinalityType
  <2>3. \A x, y \in Nat : x * y \in Nat
    OBVIOUS
  <2> QED BY <2>2, <2>3, CoverTypes
<1> HIDE DEF times
<1>2. [c \in Certs |-> times(c)] \in Array
  BY <1>1 DEF Array
<1> QED BY <1>2 DEF times

LEMMA ImportTypes ==
    /\ DOMAIN ImportedNodes \subseteq Pairs
    /\ \A p \in DOMAIN ImportedNodes : Row(ImportedNodes[p])
    /\ \A p \in DOMAIN ImportedNodes : Ancestors(p) \subseteq DOMAIN ImportedNodes
<1> DEFINE listing == UNION {Extent(c) : c \in Imported}
           array(p) == [c \in Certs |-> IF c \in Imported THEN Occurrences(c, p) ELSE 0]
<1>1. listing \subseteq Pairs
  BY CoverTypes, TreeAssumption
<1>2. DOMAIN ImportedNodes = listing \cup UNION {Ancestors(q) : q \in listing}
  BY DEF ImportedNodes
<1>3. \A p \in DOMAIN ImportedNodes : ImportedNodes[p] = NewRow(array(p))
  BY DEF ImportedNodes
<1>4. ASSUME NEW p PROVE array(p) \in Array
  BY CoverTypes DEF Array
<1>5. \A p \in DOMAIN ImportedNodes : Row(ImportedNodes[p])
  BY <1>3, <1>4, NewRowIsRow
<1>6. \A p \in DOMAIN ImportedNodes : Ancestors(p) \subseteq DOMAIN ImportedNodes
  BY <1>1, <1>2, AncestorsTransitive
<1> QED BY <1>1, <1>2, <1>5, <1>6, AncestorsAbove

\* A row that is written leaves the others as they are.
LEMMA UpsertedFacts ==
    ASSUME NEW t, NEW p, NEW r
    PROVE  /\ DOMAIN Upserted(t, p, r) = DOMAIN t \cup {p}
           /\ Upserted(t, p, r)[p] = r
           /\ \A q \in DOMAIN t : q # p => Upserted(t, p, r)[q] = t[q]
BY DEF Upserted

\* What the two statements for an ancestor leave.
LEMMA UpdateAncestorFacts ==
    ASSUME NEW p, UpdateAncestor(p), NoCerts \in Array
    PROVE  /\ p \in DOMAIN rows \/ job = "add" =>
                /\ DOMAIN rows' = DOMAIN rows \cup {p}
                /\ rows'[p] = [child |-> [s \in Sides |-> IF HasSide(p, s)
                                             THEN StoredHash(IF p \in DOMAIN rows THEN rows
                                                             ELSE Upserted(rows, p, NewRow(NoCerts)),
                                                             Child(p, s))
                                             ELSE Null],
                               certs |-> IF p \in DOMAIN rows THEN rows[p].certs ELSE NoCerts]
                /\ \A q \in DOMAIN rows : q # p => rows'[q] = rows[q]
           /\ ~(p \in DOMAIN rows \/ job = "add") => rows' = rows
<1> DEFINE new == Upserted(rows, p, NewRow(NoCerts))
<1>1. CASE p \in DOMAIN rows
  <2>1. rows' = Upserted(rows, p, Rehashed(rows, p))
    BY <1>1 DEF UpdateAncestor
  <2>2. /\ DOMAIN rows' = DOMAIN rows \cup {p}
        /\ rows'[p] = Rehashed(rows, p)
        /\ \A q \in DOMAIN rows : q # p => rows'[q] = rows[q]
    BY ONLY <2>1 DEF Upserted
  <2> QED BY <1>1, <2>2 DEF Rehashed
<1>2. CASE p \notin DOMAIN rows /\ job = "add"
  <2>1. DOMAIN new = DOMAIN rows \cup {p} /\ new[p] = NewRow(NoCerts)
        /\ \A q \in DOMAIN rows : q # p => new[q] = rows[q]
    BY ONLY TRUE DEF Upserted
  <2>2. rows' = Upserted(new, p, Rehashed(new, p))
    BY <1>2, <2>1 DEF UpdateAncestor
  <2>3. /\ DOMAIN rows' = DOMAIN new \cup {p}
        /\ rows'[p] = Rehashed(new, p)
        /\ \A q \in DOMAIN new : q # p => rows'[q] = new[q]
    BY ONLY <2>2 DEF Upserted
  <2>4. new[p].certs = NoCerts
    BY <2>1, NewRowIsRow
  <2>5. Rehashed(new, p) = [child |-> [s \in Sides |-> IF HasSide(p, s) THEN StoredHash(new, Child(p, s))
                                                       ELSE Null], certs |-> NoCerts]
    BY <2>4 DEF Rehashed
  <2>6. DOMAIN rows' = DOMAIN rows \cup {p} /\ \A q \in DOMAIN rows : q # p => rows'[q] = rows[q]
    BY <2>1, <2>3
  <2> HIDE DEF new
  <2> QED BY <1>2, <2>3, <2>5, <2>6 DEF new
<1>3. CASE ~(p \in DOMAIN rows \/ job = "add")
  BY <1>3 DEF UpdateAncestor
<1> QED BY <1>1, <1>2, <1>3

LEMMA InitTypeInv == Init => TypeInv
<1> SUFFICES ASSUME Init PROVE TypeInv
  OBVIOUS
<1>1. DOMAIN rows \subseteq Pairs /\ \A p \in DOMAIN rows : Row(rows[p])
  BY ImportTypes DEF Init
<1>2. DOMAIN committed = {} /\ DOMAIN change = {} /\ pending \subseteq Pairs
  BY <1>1 DEF Init, NoChange
<1> QED BY <1>1, <1>2 DEF TypeInv, TypeOK, Row, Init

LEMMA NextTypeInv == TypeInv /\ [Next]_vars => TypeInv'
<1> SUFFICES ASSUME TypeInv, [Next]_vars PROVE TypeInv'
  OBVIOUS
<1> USE DEF TypeInv, TypeOK
<1>1. ASSUME NEW n \in 0..MaxBatch, NEW batch \in [1..n -> Certs], AddNewCertificates(batch)
      PROVE  TypeInv'
  <2>1. DOMAIN change' \subseteq Pairs
    BY <1>1, CoverTypes DEF AddNewCertificates
  <2>2. \A p \in DOMAIN change' : change'[p] \in Array
    <3>1. n \in Nat
      BY TreeAssumption
    <3>2. \A p \in DOMAIN change' :
              change'[p] = [c \in Certs |-> Cardinality({i \in DOMAIN batch : batch[i] = c})
                                           * Occurrences(c, p)]
      BY <1>1 DEF AddNewCertificates
    <3>3. ASSUME NEW p \in DOMAIN change' PROVE change'[p] \in Array
      <4>1. [c \in Certs |-> Cardinality({i \in DOMAIN batch : batch[i] = c})
                             * Occurrences(c, p)] \in Array
        BY <3>1, BatchTypes, Zenon
      <4> QED BY <4>1, <3>2, Zenon
    <3> QED BY <3>3
  <2> QED BY <1>1, <2>1, <2>2, RootFacts DEF AddNewCertificates
<1>2. ASSUME NEW p \in DOMAIN change, UpsertCertificates(p) PROVE TypeInv'
  <2> DEFINE row == IF p \in DOMAIN rows THEN [rows[p] EXCEPT !.certs = array_union(@, change[p])]
                    ELSE NewRow(change[p])
  <2>1. Row(row)
    BY ArrayTypes, NewRowIsRow DEF Row
  <2>2. rows' = Upserted(rows, p, row)
    BY <1>2 DEF UpsertCertificates
  <2>3. DOMAIN rows' \subseteq Pairs /\ \A q \in DOMAIN rows' : Row(rows'[q])
    <3>1. DOMAIN rows' = DOMAIN rows \cup {p}
      BY <2>2, UpsertedFacts
    <3>2. rows'[p] = row /\ \A q \in DOMAIN rows : q # p => rows'[q] = rows[q]
      BY ONLY <2>2 DEF Upserted
    <3> HIDE DEF row
    <3> QED BY <2>1, <3>1, <3>2
  <2>4. Ancestors(p) \subseteq Pairs
    BY AncestorsAbove
  <2>5. DOMAIN change' \subseteq Pairs /\ \A q \in DOMAIN change' : change'[q] \in Array
    BY <1>2 DEF UpsertCertificates
  <2> QED BY <1>2, <2>3, <2>4, <2>5 DEF UpsertCertificates, Row
<1>3. ASSUME NEW expired \in SUBSET Certs, RemoveExpiredCertificates(expired) PROVE TypeInv'
  BY <1>3, ArrayTypes, RootFacts DEF RemoveExpiredCertificates
<1>4. ASSUME NEW p \in DOMAIN change, RemoveCertificates(p) PROVE TypeInv'
  <2>1. DOMAIN rows' = DOMAIN rows
    BY <1>4 DEF RemoveCertificates
  <2>2. \A q \in DOMAIN rows' : Row(rows'[q])
    BY <1>4, ArrayTypes DEF RemoveCertificates, Row
  <2>3. Ancestors(p) \subseteq Pairs
    BY AncestorsAbove
  <2>4. DOMAIN change' \subseteq Pairs /\ \A q \in DOMAIN change' : change'[q] \in Array
    BY <1>4 DEF RemoveCertificates
  <2> QED BY <1>4, <2>1, <2>2, <2>3, <2>4 DEF RemoveCertificates, Row
<1>5. CASE SortAncestors
  BY <1>5 DEF SortAncestors
<1>6. ASSUME NEW p \in pending, UpdateAncestor(p) PROVE TypeInv'
  <2>1. DOMAIN rows' \subseteq Pairs /\ \A q \in DOMAIN rows' : Row(rows'[q])
    <3>1. CASE p \in DOMAIN rows \/ job = "add"
      <4>1. DOMAIN rows' = DOMAIN rows \cup {p} /\ \A q \in DOMAIN rows : q # p => rows'[q] = rows[q]
        BY <1>6, <3>1, UpdateAncestorFacts, ArrayTypes
      <4>2. Row(rows'[p])
        <5>1. (IF p \in DOMAIN rows THEN rows[p].certs ELSE NoCerts) \in Array
          BY ArrayTypes
        <5>2. \E h : rows'[p] = [child |-> h, certs |-> IF p \in DOMAIN rows THEN rows[p].certs
                                                       ELSE NoCerts]
          BY <1>6, <3>1, UpdateAncestorFacts, ArrayTypes
        <5> QED BY <5>1, <5>2, RowIntro
      <4> QED BY <4>1, <4>2
    <3>2. CASE ~(p \in DOMAIN rows \/ job = "add")
      <4>1. rows' = rows
        BY <1>6, <3>2, UpdateAncestorFacts, ArrayTypes
      <4> QED BY <4>1 DEF Row
    <3> QED BY <3>1, <3>2
  <2> QED BY <1>6, <2>1 DEF UpdateAncestor, Row
<1>7. CASE Commit
  BY <1>7 DEF Commit
<1>8. CASE Rollback
  BY <1>8 DEF Rollback, NoChange
<1>9. CASE UNCHANGED vars
  BY <1>9 DEF vars
<1> QED
  BY <1>1, <1>2, <1>3, <1>4, <1>5, <1>6, <1>7, <1>8, <1>9
     DEF Next, Insertion, Removal, Upsert, TakeOff, Rehash

\* Rows are stored at positions of the tree and list certificates, in every
\* state of an import, an insertion or a removal.
THEOREM TreeTypeCorrect == Spec => []TypeOK
<1>1. TypeInv => TypeOK
  BY DEF TypeInv
<1> QED BY <1>1, InitTypeInv, NextTypeInv, PTL DEF Spec

---------------------------------------------------------------------------
(* Hashes and ancestors *)

\* What is still pending with a position is pending with its ancestors.
PendingClosed == \A a \in pending : Ancestors(a) \subseteq pending

\* An ancestor that is not stored is going to be; only insertions need that.
AncestorsKept ==
    \A p \in DOMAIN rows :
        /\ Ancestors(p) \subseteq DOMAIN rows \cup pending
        /\ job # "add" => Ancestors(p) \subseteq DOMAIN rows

\* Stale hashes are found at pending positions only.
StaleArePending == \A p \in DOMAIN rows \ pending : Current(rows, p)

TreeInv ==
    /\ TypeInv
    /\ PendingClosed
    /\ AncestorsKept
    /\ StaleArePending
    /\ job = "none" => pending = {}
    /\ HashesCurrent
    /\ NoOrphans

\* A change at one position leaves the hashes stored at all positions but its
\* ancestors current.
LEMMA ChangeAtOnePosition ==
    ASSUME NEW t, NEW u, NEW p \in Pairs, NEW q \in DOMAIN t,
           DOMAIN t \subseteq Pairs,
           DOMAIN u \in {DOMAIN t, DOMAIN t \cup {p}},
           \A r \in DOMAIN t : r # p => u[r] = t[r],
           q # p, q \notin Ancestors(p), Current(t, q)
    PROVE  Current(u, q)
<1>1. ASSUME NEW s \in Sides, HasSide(q, s)
      PROVE  StoredHash(u, Child(q, s)) = StoredHash(t, Child(q, s))
  <2>1. Child(q, s) # p
    BY <1>1, ParentIsAncestor
  <2> QED BY <2>1 DEF StoredHash
<1>2. u[q] = t[q]
  OBVIOUS
<1> QED BY <1>1, <1>2 DEF Current, Rehashed

\* Nothing hangs from a position whose row is missing, unless it is pending.
LEMMA NewRowIsCurrent ==
    ASSUME TreeInv, NEW p \in Pairs \ (DOMAIN rows \cup pending), NEW u, NEW a,
           DOMAIN u = DOMAIN rows \cup {p}, u[p] = NewRow(a)
    PROVE  Current(u, p)
<1>1. ASSUME NEW s \in Sides, HasSide(p, s) PROVE StoredHash(u, Child(p, s)) = Null
  <2>1. ASSUME Child(p, s) \in DOMAIN u PROVE FALSE
    <3>1. Child(p, s) \in Pairs
      BY <2>1 DEF TreeInv, TypeInv, TypeOK
    <3>2. p \in Ancestors(Child(p, s)) /\ Child(p, s) # p
      BY <1>1, <3>1, ParentIsAncestor
    <3>3. Child(p, s) \in DOMAIN rows
      BY <2>1, <3>2
    <3> QED BY <3>2, <3>3 DEF TreeInv, AncestorsKept
  <2> QED BY <2>1 DEF StoredHash
<1>2. Rehashed(u, p) = [child |-> [s \in Sides |-> Null], certs |-> u[p].certs]
  BY <1>1 DEF Rehashed
<1> QED BY <1>2 DEF Current, NewRow

LEMMA InitTreeInv == Init => TreeInv
<1> SUFFICES ASSUME Init PROVE TreeInv
  OBVIOUS
<1>1. rows = ImportedNodes /\ pending = DOMAIN rows /\ job = "import" /\ DOMAIN committed = {}
  BY DEF Init
<1>2. PendingClosed /\ AncestorsKept /\ StaleArePending
  BY <1>1, ImportTypes DEF PendingClosed, AncestorsKept, StaleArePending
<1> QED BY <1>1, <1>2, InitTypeInv DEF TreeInv, HashesCurrent, NoOrphans

\* A change of the certificates at p, whose ancestors become pending.
LEMMA ChangeTreeInv ==
    ASSUME TreeInv, TypeInv', NEW p \in Pairs, job' = job, job # "none",
           UNCHANGED committed, pending' = pending \cup Ancestors(p),
           \A r \in DOMAIN rows : r # p => rows'[r] = rows[r],
           \/ DOMAIN rows' = DOMAIN rows
           \/ job = "add" /\ DOMAIN rows' = DOMAIN rows \cup {p},
           p \in DOMAIN rows' \ pending' => Current(rows', p)
    PROVE  TreeInv'
<1> USE DEF TreeInv
<1>1. PendingClosed'
  BY AncestorsTransitive DEF PendingClosed
<1>2. AncestorsKept'
  BY DEF AncestorsKept
<1>3. StaleArePending'
  <2>1. ASSUME NEW q \in DOMAIN rows' \ pending', q # p PROVE Current(rows', q)
    <3>1. q \in DOMAIN rows /\ q \notin Ancestors(p) /\ Current(rows, q)
      BY <2>1 DEF StaleArePending
    <3> QED BY <2>1, <3>1, ChangeAtOnePosition DEF TypeInv, TypeOK
  <2> QED BY <2>1 DEF StaleArePending
<1>4. HashesCurrent' /\ NoOrphans'
  BY DEF HashesCurrent, NoOrphans
<1> QED BY <1>1, <1>2, <1>3, <1>4

LEMMA UpdateAncestorTreeInv ==
    ASSUME TreeInv, TypeInv', NEW p \in pending, UpdateAncestor(p)
    PROVE  TreeInv'
<1>1. /\ p \in Pairs /\ DOMAIN rows \subseteq Pairs /\ pending \subseteq Pairs
      /\ pending' = pending \ {p} /\ job' = job /\ job # "none" /\ committed' = committed
      /\ \A q \in pending : ~Deeper(q, p)
  BY DEF TreeInv, TypeInv, TypeOK, UpdateAncestor
<1>2. PendingClosed'
  <2>1. ASSUME NEW a \in pending \ {p} PROVE p \notin Ancestors(a)
    BY <1>1, <2>1, AncestorsAbove
  <2> QED BY <1>1, <2>1 DEF TreeInv, PendingClosed
<1>3. p # Root => p \notin Ancestors(p)
  BY <1>1, AncestorsAbove
<1>4. Ancestors(p) \subseteq pending
  BY DEF TreeInv, PendingClosed
<1>5. CASE p \in DOMAIN rows \/ job = "add"
  <2>1. /\ DOMAIN rows' = DOMAIN rows \cup {p}
        /\ \A q \in DOMAIN rows : q # p => rows'[q] = rows[q]
    BY <1>5, UpdateAncestorFacts, ArrayTypes
  <2>2. Current(rows', p)
    <3> DEFINE t == IF p \in DOMAIN rows THEN rows ELSE Upserted(rows, p, NewRow(NoCerts))
               h == [s \in Sides |-> IF HasSide(p, s) THEN StoredHash(t, Child(p, s)) ELSE Null]
    <3>1. \E a : rows'[p] = [child |-> h, certs |-> a]
      BY <1>5, UpdateAncestorFacts, ArrayTypes
    <3>2. DOMAIN t = DOMAIN rows' /\ \A q \in DOMAIN rows : q # p => t[q] = rows'[q]
      <4>1. CASE p \in DOMAIN rows
        BY <2>1, <4>1
      <4>2. CASE p \notin DOMAIN rows
        <5>1. t = Upserted(rows, p, NewRow(NoCerts))
          BY <4>2
        <5>2. DOMAIN t = DOMAIN rows \cup {p} /\ \A q \in DOMAIN rows : q # p => t[q] = rows[q]
          BY ONLY <5>1 DEF Upserted
        <5> QED BY ONLY <2>1, <5>2
      <4> QED BY <4>1, <4>2
    <3> HIDE DEF t
    <3>3. ASSUME NEW s \in Sides, HasSide(p, s)
          PROVE  StoredHash(t, Child(p, s)) = StoredHash(rows', Child(p, s))
      <4>1. Child(p, s) # p
        BY <1>1, <3>3, ParentIsAncestor
      <4> QED BY <2>1, <3>2, <4>1 DEF StoredHash
    <3>4. h = [s \in Sides |-> IF HasSide(p, s) THEN StoredHash(rows', Child(p, s)) ELSE Null]
      BY <3>3
    <3> HIDE DEF h
    <3> QED BY <3>1, <3>4 DEF Current, Rehashed
  <2>3. AncestorsKept'
    <3>1. ASSUME NEW q \in DOMAIN rows, q # p
          PROVE  /\ Ancestors(q) \subseteq DOMAIN rows' \cup pending'
                 /\ job # "add" => Ancestors(q) \subseteq DOMAIN rows'
      BY <1>1, <2>1 DEF TreeInv, AncestorsKept
    <3>2. Ancestors(p) \subseteq DOMAIN rows' \cup pending'
      BY <1>1, <1>4, <2>1
    <3>3. job # "add" => Ancestors(p) \subseteq DOMAIN rows'
      BY <1>5, <2>1 DEF TreeInv, AncestorsKept
    <3> QED BY <1>1, <2>1, <3>1, <3>2, <3>3 DEF AncestorsKept
  <2>4. StaleArePending'
    <3>1. ASSUME NEW q \in DOMAIN rows' \ pending', q # p PROVE Current(rows', q)
      <4>1. q \in DOMAIN rows /\ q \notin Ancestors(p) /\ Current(rows, q)
        BY <1>1, <1>4, <2>1, <3>1 DEF TreeInv, StaleArePending
      <4> QED BY <1>1, <2>1, <3>1, <4>1, ChangeAtOnePosition
    <3> QED BY <2>2, <3>1 DEF StaleArePending
  <2>5. HashesCurrent' /\ NoOrphans'
    BY <1>1 DEF TreeInv, HashesCurrent, NoOrphans
  <2> QED BY <1>1, <1>2, <2>3, <2>4, <2>5 DEF TreeInv
<1>6. CASE ~(p \in DOMAIN rows \/ job = "add")
  <2>1. rows' = rows
    BY <1>6, UpdateAncestorFacts, ArrayTypes
  <2>2. AncestorsKept' /\ StaleArePending'
    BY <1>1, <1>6, <2>1 DEF TreeInv, AncestorsKept, StaleArePending
  <2>3. HashesCurrent' /\ NoOrphans'
    BY <1>1 DEF TreeInv, HashesCurrent, NoOrphans
  <2> QED BY <1>1, <1>2, <2>2, <2>3 DEF TreeInv
<1> QED BY <1>5, <1>6

LEMMA NextTreeInv == TreeInv /\ [Next]_vars => TreeInv'
<1> SUFFICES ASSUME TreeInv, [Next]_vars PROVE TreeInv'
  OBVIOUS
<1>0. TypeInv'
  BY NextTypeInv DEF TreeInv
<1> USE DEF PendingClosed, AncestorsKept, StaleArePending, HashesCurrent, NoOrphans
<1>1. ASSUME NEW batch, AddNewCertificates(batch) PROVE TreeInv'
  BY <1>0, <1>1, RootFacts DEF TreeInv, AddNewCertificates
<1>2. ASSUME NEW p \in DOMAIN change, UpsertCertificates(p) PROVE TreeInv'
  <2>1. p \in Pairs
    BY DEF TreeInv, TypeInv, TypeOK
  <2> DEFINE row == IF p \in DOMAIN rows THEN [rows[p] EXCEPT !.certs = array_union(@, change[p])]
                    ELSE NewRow(change[p])
  <2>0. rows' = Upserted(rows, p, row)
    BY <1>2 DEF UpsertCertificates
  <2>2. /\ DOMAIN rows' = DOMAIN rows \cup {p}
        /\ rows'[p] = row
        /\ \A r \in DOMAIN rows : r # p => rows'[r] = rows[r]
    BY ONLY <2>0 DEF Upserted
  <2>3. ASSUME p \notin pending' PROVE Current(rows', p)
    <3>1. p \notin pending /\ p \notin Ancestors(p)
      BY <1>2, <2>3 DEF UpsertCertificates
    <3>2. CASE p \in DOMAIN rows
      <4>1. rows'[p] = [rows[p] EXCEPT !.certs = array_union(rows[p].certs, change[p])]
        BY <2>2, <3>2
      <4>2. rows[p] = Rehashed(rows, p)
        BY <3>1, <3>2 DEF TreeInv, Current
      <4>3. ASSUME NEW s \in Sides, HasSide(p, s)
            PROVE  StoredHash(rows', Child(p, s)) = StoredHash(rows, Child(p, s))
        <5>1. Child(p, s) # p
          BY <2>1, <4>3, ParentIsAncestor
        <5> QED BY <2>2, <5>1 DEF StoredHash
      <4> QED BY <4>1, <4>2, <4>3 DEF Current, Rehashed
    <3>3. CASE p \notin DOMAIN rows
      <4>1. rows'[p] = NewRow(change[p])
        BY <2>2, <3>3
      <4> QED BY <2>1, <2>2, <3>1, <3>3, <4>1, NewRowIsCurrent
    <3> QED BY <3>2, <3>3
  <2>4. /\ job' = job /\ job = "add" /\ UNCHANGED committed
        /\ pending' = pending \cup Ancestors(p)
    BY <1>2 DEF UpsertCertificates
  <2> QED BY ONLY TreeInv, <1>0, <2>1, <2>2, <2>3, <2>4, ChangeTreeInv
<1>3. ASSUME NEW expired, RemoveExpiredCertificates(expired) PROVE TreeInv'
  BY <1>0, <1>3, RootFacts DEF TreeInv, RemoveExpiredCertificates, Current
<1>4. ASSUME NEW p \in DOMAIN change, RemoveCertificates(p) PROVE TreeInv'
  <2>1. p \in Pairs
    BY DEF TreeInv, TypeInv, TypeOK
  <2>2. DOMAIN rows' = DOMAIN rows /\ \A r \in DOMAIN rows : r # p => rows'[r] = rows[r]
    BY <1>4 DEF RemoveCertificates
  <2>3. ASSUME p \in DOMAIN rows' \ pending' PROVE Current(rows', p)
    <3>1. p \in DOMAIN rows \ pending
      BY <1>4, <2>2, <2>3 DEF RemoveCertificates
    <3>2. rows'[p] = [rows[p] EXCEPT !.certs = array_difference(rows[p].certs, change[p])]
      BY <1>4, <3>1 DEF RemoveCertificates
    <3>3. rows[p] = Rehashed(rows, p)
      BY <3>1 DEF TreeInv, Current
    <3>4. ASSUME NEW s \in Sides, HasSide(p, s)
          PROVE  StoredHash(rows', Child(p, s)) = StoredHash(rows, Child(p, s))
      <4>1. Child(p, s) # p
        BY <2>1, <3>4, ParentIsAncestor
      <4> QED BY <2>2, <4>1 DEF StoredHash
    <3> QED BY <3>2, <3>3, <3>4 DEF Current, Rehashed
  <2>4. /\ job' = job /\ job = "remove" /\ UNCHANGED committed
        /\ pending' = pending \cup Ancestors(p)
    BY <1>4 DEF RemoveCertificates
  <2> QED BY ONLY TreeInv, <1>0, <2>1, <2>2, <2>3, <2>4, ChangeTreeInv
<1>5. CASE SortAncestors
  BY <1>0, <1>5 DEF TreeInv, SortAncestors
<1>6. ASSUME NEW p \in pending, UpdateAncestor(p) PROVE TreeInv'
  BY ONLY TreeInv, <1>0, <1>6, UpdateAncestorTreeInv
<1>7. CASE Commit
  BY <1>0, <1>7 DEF TreeInv, Commit
<1>8. CASE Rollback
  BY <1>0, <1>8 DEF TreeInv, Rollback
<1>9. CASE UNCHANGED vars
  BY <1>0, <1>9 DEF TreeInv, vars, Current
<1> QED
  BY <1>1, <1>2, <1>3, <1>4, <1>5, <1>6, <1>7, <1>8, <1>9
     DEF Next, Insertion, Removal, Upsert, TakeOff, Rehash

\* Every committed child hash is the hash of the child that is committed: the
\* loops over changed positions and ancestors, in whatever order Go's map
\* yields them, recompute each hash after all it depends on.
THEOREM CommittedHashesCurrent == Spec => []HashesCurrent
<1>1. TreeInv => HashesCurrent
  BY DEF TreeInv
<1> QED BY <1>1, InitTreeInv, NextTreeInv, PTL DEF Spec

\* Every committed row hangs from committed rows up to the root.
THEOREM CommittedTreeConnected == Spec => []NoOrphans
<1>1. TreeInv => NoOrphans
  BY DEF TreeInv
<1> QED BY <1>1, InitTreeInv, NextTreeInv, PTL DEF Spec

---------------------------------------------------------------------------
(* The promised map *)

\* The certificates that the running transaction still has to apply at p.
Due(p) == IF p \in DOMAIN change THEN Listed(change[p]) ELSE {}

\* The stored rows and what is due make up the committed rows after one
\* insertion of a batch B, or one expiry of certificates E.
Inserting(B) ==
    \A p \in Pairs : Content(rows)[p] \cup Due(p)
                     = Content(committed)[p] \cup {c \in B : p \in Extent(c)}
Expiring(E) ==
    \A p \in Pairs : Content(rows)[p] \ Due(p) = Content(committed)[p] \ E

MapInv ==
    /\ TypeInv
    /\ job = "none" => rows = committed
    /\ job # "none" /\ phase = "ancestors" => DOMAIN change = {}
    /\ job \in {"import", "add"} => \E B \in SUBSET Certs : Inserting(B)
    /\ job = "remove" => \E E \in SUBSET Certs : Expiring(E)

LEMMA ListedFacts ==
    /\ Listed(NoCerts) = {}
    /\ \A S : Listed(SetToArray(S)) = S \cap Certs
    /\ \A a : Listed(a) \subseteq Certs
    /\ \A a, b : Listed(array_union(a, b)) = Listed(a) \cup Listed(b)
    /\ \A a, b : Listed(array_difference(a, b)) = Listed(a) \ Listed(b)
BY DEF Listed, NoCerts, SetToArray, array_union, array_difference

LEMMA ContentAt ==
    ASSUME NEW t, NEW p \in Pairs
    PROVE  Content(t)[p] = IF p \in DOMAIN t THEN Listed(t[p].certs) ELSE {}
BY DEF Content

\* A certificate is listed at p as soon as one of its areas gives p.
LEMMA OccurrencesCount ==
    ASSUME NEW c \in Certs, NEW p
    PROVE  Occurrences(c, p) > 0 <=> p \in Extent(c)
<1> DEFINE S == {i \in DOMAIN Covers[c] : Covers[c][i] = p}
<1>1. DOMAIN Covers[c] = 1..Len(Covers[c]) /\ Len(Covers[c]) \in Nat
  BY TreeAssumption, LenProperties
<1>2. IsFiniteSet(S)
  <2>1. IsFiniteSet(1..Len(Covers[c])) /\ S \subseteq 1..Len(Covers[c])
    BY <1>1, FS_Interval
  <2> QED BY <2>1, FS_Subset
<1>3. Cardinality(S) \in Nat /\ (Cardinality(S) = 0 <=> S = {})
  BY <1>2, FS_CardinalityType, FS_EmptySet
<1>4. S # {} <=> p \in Extent(c)
  BY DEF Extent, ToSet
<1>5. Occurrences(c, p) = Cardinality(S)
  BY DEF Occurrences
<1> HIDE DEF S
<1> QED BY <1>3, <1>4, <1>5

\* What an insertion appends at p lists the batch's certificates that cover p.
LEMMA BatchListed ==
    ASSUME NEW n \in Nat, NEW batch \in [1..n -> Certs], NEW p
    PROVE  Listed([c \in Certs |-> Cardinality({i \in DOMAIN batch : batch[i] = c})
                                   * Occurrences(c, p)])
           = {c \in ToSet(batch) : p \in Extent(c)}
<1> DEFINE times(c) == Cardinality({i \in DOMAIN batch : batch[i] = c}) * Occurrences(c, p)
<1>1. ASSUME NEW c \in Certs
      PROVE  times(c) > 0 <=> c \in ToSet(batch) /\ p \in Extent(c)
  <2> DEFINE S == {i \in DOMAIN batch : batch[i] = c}
             x == Cardinality(S)
             y == Occurrences(c, p)
  <2>1. IsFiniteSet(S)
    BY FS_Interval, FS_Subset
  <2>2. x \in Nat /\ (x = 0 <=> S = {})
    BY <2>1, FS_CardinalityType, FS_EmptySet
  <2>3. S # {} <=> c \in ToSet(batch)
    BY DEF ToSet
  <2>4. y \in Nat /\ (y > 0 <=> p \in Extent(c))
    BY CoverTypes, OccurrencesCount
  <2>5. times(c) = x * y
    OBVIOUS
  <2> HIDE DEF S, x, y, times
  <2>6. x * y > 0 <=> x > 0 /\ y > 0
    BY <2>2, <2>4
  <2> QED BY <2>2, <2>3, <2>4, <2>5, <2>6
<1>2. ToSet(batch) \subseteq Certs
  BY DEF ToSet
<1> HIDE DEF times
<1>3. Listed([c \in Certs |-> times(c)]) = {c \in ToSet(batch) : p \in Extent(c)}
  BY <1>1, <1>2 DEF Listed
<1> QED BY <1>3 DEF times

---------------------------------------------------------------------------
LEMMA InitMapInv == Init => MapInv
<1> SUFFICES ASSUME Init PROVE MapInv
  OBVIOUS
<1>1. rows = ImportedNodes /\ DOMAIN committed = {} /\ DOMAIN change = {} /\ job = "import"
  BY DEF Init, NoChange
<1>2. ASSUME NEW p \in Pairs
      PROVE  Content(rows)[p] = {c \in Imported : p \in Extent(c)}
  <2> DEFINE listing == UNION {Extent(c) : c \in Imported}
             array == [c \in Certs |-> IF c \in Imported THEN Occurrences(c, p) ELSE 0]
  <2>1. CASE p \in DOMAIN ImportedNodes
    <3>1. ImportedNodes[p] = NewRow(array)
      BY <2>1 DEF ImportedNodes
    <3>2. Content(rows)[p] = Listed(array)
      BY <1>1, <2>1, <3>1, ContentAt DEF NewRow
    <3>3. Listed(array) = {c \in Imported : p \in Extent(c)}
      BY OccurrencesCount, TreeAssumption DEF Listed
    <3> QED BY <3>2, <3>3
  <2>2. CASE p \notin DOMAIN ImportedNodes
    <3>1. p \notin listing
      BY <2>2 DEF ImportedNodes
    <3> QED BY <1>1, <2>2, <3>1, ContentAt
  <2> QED BY <2>1, <2>2
<1>3. Inserting(Imported)
  BY <1>1, <1>2, ContentAt DEF Inserting, Due
<1> QED BY <1>1, <1>3, InitTypeInv, TreeAssumption DEF MapInv

\* The rows of an ancestor are written without touching what is listed.
LEMMA UpdateAncestorContent ==
    ASSUME NEW p, UpdateAncestor(p), NEW q \in Pairs
    PROVE  Content(rows')[q] = Content(rows)[q]
<1>1. CASE p \in DOMAIN rows \/ job = "add"
  <2>1. /\ DOMAIN rows' = DOMAIN rows \cup {p}
        /\ rows'[p].certs = IF p \in DOMAIN rows THEN rows[p].certs ELSE NoCerts
        /\ \A r \in DOMAIN rows : r # p => rows'[r] = rows[r]
    <3>1. \E h : rows'[p] = [child |-> h, certs |-> IF p \in DOMAIN rows THEN rows[p].certs
                                                   ELSE NoCerts]
      BY <1>1, UpdateAncestorFacts, ArrayTypes
    <3>2. rows'[p].certs = IF p \in DOMAIN rows THEN rows[p].certs ELSE NoCerts
      BY ONLY <3>1
    <3>3. DOMAIN rows' = DOMAIN rows \cup {p} /\ \A r \in DOMAIN rows : r # p => rows'[r] = rows[r]
      BY <1>1, UpdateAncestorFacts, ArrayTypes
    <3> QED BY <3>2, <3>3
  <2>2. CASE q = p
    <3>1. Content(rows')[p] = Listed(rows'[p].certs)
      BY <2>1, <2>2, ContentAt
    <3>2. Content(rows)[p] = IF p \in DOMAIN rows THEN Listed(rows[p].certs) ELSE {}
      BY <2>2, ContentAt
    <3> QED BY <2>1, <2>2, <3>1, <3>2, ListedFacts
  <2>3. CASE q # p
    BY <2>1, <2>3, ContentAt
  <2> QED BY <2>2, <2>3
<1>2. CASE ~(p \in DOMAIN rows \/ job = "add")
  BY <1>2, UpdateAncestorFacts, ArrayTypes
<1> QED BY <1>1, <1>2

LEMMA NextMapInv == MapInv /\ [Next]_vars => MapInv'
<1> SUFFICES ASSUME MapInv, [Next]_vars PROVE MapInv'
  OBVIOUS
<1>0. TypeInv'
  BY NextTypeInv DEF MapInv
<1>1. ASSUME NEW n \in 0..MaxBatch, NEW batch \in [1..n -> Certs], AddNewCertificates(batch)
      PROVE  MapInv'
  <2>1. ToSet(batch) \in SUBSET Certs
    BY DEF ToSet
  <2>2. rows = committed /\ UNCHANGED <<rows, committed>>
    BY <1>1 DEF AddNewCertificates, MapInv
  <2>3. ASSUME NEW p \in Pairs PROVE Due(p)' = {c \in ToSet(batch) : p \in Extent(c)}
    <3>1. CASE p \in DOMAIN change'
      <4>1. change'[p] = [c \in Certs |-> Cardinality({i \in DOMAIN batch : batch[i] = c})
                                          * Occurrences(c, p)]
        BY <1>1, <3>1 DEF AddNewCertificates
      <4>2. n \in Nat
        BY TreeAssumption
      <4>3. Listed(change'[p]) = {c \in ToSet(batch) : p \in Extent(c)}
        BY <4>1, <4>2, BatchListed, Zenon
      <4> QED BY <3>1, <4>3 DEF Due
    <3>2. CASE p \notin DOMAIN change'
      <4>1. \A i \in DOMAIN batch : p \notin Extent(batch[i])
        BY <1>1, <3>2 DEF AddNewCertificates
      <4> QED BY <3>2, <4>1 DEF Due, ToSet
    <3> QED BY <3>1, <3>2
  <2>4. Inserting(ToSet(batch))'
    BY <2>2, <2>3 DEF Inserting
  <2>5. job' = "add" /\ phase' = "certs"
    BY <1>1 DEF AddNewCertificates
  <2> QED BY <1>0, <2>1, <2>4, <2>5 DEF MapInv
<1>2. ASSUME NEW p \in DOMAIN change, UpsertCertificates(p) PROVE MapInv'
  <2> DEFINE row == IF p \in DOMAIN rows THEN [rows[p] EXCEPT !.certs = array_union(@, change[p])]
                    ELSE NewRow(change[p])
  <2>1. rows' = Upserted(rows, p, row)
    BY <1>2 DEF UpsertCertificates
  <2>2. /\ DOMAIN rows' = DOMAIN rows \cup {p}
        /\ rows'[p] = row
        /\ \A r \in DOMAIN rows : r # p => rows'[r] = rows[r]
    BY ONLY <2>1 DEF Upserted
  <2>3. /\ job = "add" /\ job' = job /\ phase' = "certs" /\ committed' = committed
        /\ DOMAIN change' = DOMAIN change \ {p}
        /\ \A r \in DOMAIN change : r # p => change'[r] = change[r]
    BY <1>2 DEF UpsertCertificates
  <2>4. row.certs = IF p \in DOMAIN rows THEN array_union(rows[p].certs, change[p]) ELSE change[p]
    <3>1. p \in DOMAIN rows => Row(rows[p])
      BY DEF MapInv, TypeInv
    <3> QED BY <3>1 DEF Row, NewRow
  <2> HIDE DEF row
  <2>5. ASSUME NEW q \in Pairs
        PROVE  Content(rows')[q] \cup Due(q)' = Content(rows)[q] \cup Due(q)
    <3>1. CASE q = p
      <4>1. Content(rows')[p] = Content(rows)[p] \cup Listed(change[p])
        BY <2>2, <2>4, <3>1, ContentAt, ListedFacts
      <4> QED BY <2>3, <3>1, <4>1 DEF Due
    <3>2. CASE q # p
      BY <2>2, <2>3, <3>2, ContentAt DEF Due
    <3> QED BY <3>1, <3>2
  <2>6. ASSUME NEW B, Inserting(B) PROVE Inserting(B)'
    BY <2>3, <2>5, <2>6 DEF Inserting
  <2> QED BY <1>0, <2>3, <2>6 DEF MapInv
<1>3. ASSUME NEW expired \in SUBSET Certs, RemoveExpiredCertificates(expired) PROVE MapInv'
  <2>1. rows = committed /\ UNCHANGED <<rows, committed>>
    BY <1>3 DEF RemoveExpiredCertificates, MapInv
  <2>2. ASSUME NEW p \in Pairs
        PROVE  Content(rows)[p] \ Due(p)' = Content(rows)[p] \ expired
    <3>1. CASE p \in DOMAIN change'
      <4>1. change'[p] = SetToArray(expired)
        BY <1>3, <3>1 DEF RemoveExpiredCertificates
      <4> QED BY <3>1, <4>1, ListedFacts DEF Due
    <3>2. CASE p \notin DOMAIN change'
      <4>1. Content(rows)[p] \cap expired = {}
        BY <1>3, <3>2, ContentAt DEF RemoveExpiredCertificates
      <4> QED BY <3>2, <4>1 DEF Due
    <3> QED BY <3>1, <3>2
  <2>3. Expiring(expired)'
    BY <2>1, <2>2 DEF Expiring
  <2>4. job' = "remove" /\ phase' = "certs"
    BY <1>3 DEF RemoveExpiredCertificates
  <2> QED BY <1>0, <2>3, <2>4 DEF MapInv
<1>4. ASSUME NEW p \in DOMAIN change, RemoveCertificates(p) PROVE MapInv'
  <2>1. /\ DOMAIN rows' = DOMAIN rows
        /\ \A r \in DOMAIN rows : r # p => rows'[r] = rows[r]
        /\ p \in DOMAIN rows =>
               rows'[p] = [rows[p] EXCEPT !.certs = array_difference(rows[p].certs, change[p])]
    BY <1>4 DEF RemoveCertificates
  <2>2. /\ job = "remove" /\ job' = job /\ phase' = "certs" /\ committed' = committed
        /\ DOMAIN change' = DOMAIN change \ {p}
        /\ \A r \in DOMAIN change : r # p => change'[r] = change[r]
    BY <1>4 DEF RemoveCertificates
  <2>3. p \in DOMAIN rows => rows'[p].certs = array_difference(rows[p].certs, change[p])
    <3>1. p \in DOMAIN rows => Row(rows[p])
      BY DEF MapInv, TypeInv
    <3> QED BY <2>1, <3>1 DEF Row
  <2>4. ASSUME NEW q \in Pairs
        PROVE  Content(rows')[q] \ Due(q)' = Content(rows)[q] \ Due(q)
    <3>1. CASE q = p
      <4>1. Content(rows')[p] = Content(rows)[p] \ Listed(change[p])
        BY <2>1, <2>3, <3>1, ContentAt, ListedFacts
      <4> QED BY <2>2, <3>1, <4>1 DEF Due
    <3>2. CASE q # p
      BY <2>1, <2>2, <3>2, ContentAt DEF Due
    <3> QED BY <3>1, <3>2
  <2>5. ASSUME NEW E, Expiring(E) PROVE Expiring(E)'
    BY <2>2, <2>4, <2>5 DEF Expiring
  <2> QED BY <1>0, <2>2, <2>5 DEF MapInv
<1>5. CASE SortAncestors
  BY <1>0, <1>5 DEF MapInv, SortAncestors, NoChange, Inserting, Expiring, Due
<1>6. ASSUME NEW p \in pending, UpdateAncestor(p) PROVE MapInv'
  <2>1. /\ job # "none" /\ UNCHANGED <<committed, job, phase, change>>
        /\ \A q \in Pairs : Content(rows')[q] = Content(rows)[q]
    BY <1>6, UpdateAncestorContent DEF UpdateAncestor
  <2>2. ASSUME NEW B PROVE (Inserting(B) => Inserting(B)') /\ (Expiring(B) => Expiring(B)')
    BY <2>1 DEF Inserting, Expiring, Due
  <2> QED BY <1>0, <2>1, <2>2 DEF MapInv
<1>7. CASE Commit
  BY <1>0, <1>7 DEF MapInv, Commit
<1>8. CASE Rollback
  BY <1>0, <1>8 DEF MapInv, Rollback
<1>9. CASE UNCHANGED vars
  BY <1>0, <1>9 DEF MapInv, vars, Inserting, Expiring, Due
<1> QED
  BY <1>1, <1>2, <1>3, <1>4, <1>5, <1>6, <1>7, <1>8, <1>9
     DEF Next, Insertion, Removal, Upsert, TakeOff, Rehash

LEMMA InitContent == Init => PromisedMap!Init
BY DEF Init, PromisedMap!Init, Content

\* Only a commit changes the map, by one insertion or one expiry.
LEMMA StepContent ==
    MapInv /\ [Next]_vars =>
        [PromisedMap!Insert \/ PromisedMap!Expire]_(Content(committed))
<1> SUFFICES ASSUME MapInv, [Next]_vars, committed' # committed
             PROVE  PromisedMap!Insert \/ PromisedMap!Expire
  OBVIOUS
<1>1. Commit
  BY DEF Next, vars, Insertion, Removal, Upsert, TakeOff, Rehash, AddNewCertificates,
         UpsertCertificates, RemoveExpiredCertificates, RemoveCertificates, SortAncestors,
         UpdateAncestor, Rollback
<1>2. committed' = rows /\ \A p \in Pairs : Due(p) = {}
  BY <1>1 DEF Commit, MapInv, Due
<1>3. job \in {"import", "add"} \/ job = "remove"
  BY <1>1 DEF Commit, MapInv, TypeInv, TypeOK
<1>4. CASE job \in {"import", "add"}
  <2>1. PICK B \in SUBSET Certs : Inserting(B)
    BY <1>4 DEF MapInv
  <2>2. \A p \in Pairs : Content(rows)[p] = Content(committed)[p] \cup {c \in B : p \in Extent(c)}
    BY <1>2, <2>1 DEF Inserting
  <2>3. Content(rows) = [p \in Pairs |-> Content(committed)[p]
                            \cup {c \in B : p \in [d \in Certs |-> Extent(d)][c]}]
    BY <2>2 DEF Content
  <2> QED BY <1>2, <2>3 DEF PromisedMap!Insert
<1>5. CASE job = "remove"
  <2>1. PICK E \in SUBSET Certs : Expiring(E)
    BY <1>5 DEF MapInv
  <2>2. \A p \in Pairs : Content(rows)[p] = Content(committed)[p] \ E
    BY <1>2, <2>1 DEF Expiring
  <2>3. Content(rows) = [p \in Pairs |-> Content(committed)[p] \ E]
    BY <2>2 DEF Content
  <2> QED BY <1>2, <2>3 DEF PromisedMap!Expire
<1> QED BY <1>3, <1>4, <1>5

\* The transactions of the ingestion implement the map that CertificateMap
\* promises: a batch at all its positions or at none, an expiry likewise.
THEOREM TreeImplementsMap == Spec => ImplementsMap
<1>1. Spec => []MapInv
  BY InitMapInv, NextMapInv, PTL DEF Spec
<1> QED BY <1>1, InitContent, StepContent, PTL DEF Spec, ImplementsMap, PromisedMap!Spec

---------------------------------------------------------------------------
(* Roots *)

\* In a tree with current hashes, the hash the database computes from a row is
\* the hash of the tree below it.
LEMMA StoredIsComputed ==
    ASSUME NEW t, DOMAIN t \subseteq Pairs, \A p \in DOMAIN t : Current(t, p)
    PROVE  \A p \in DOMAIN t : Hash(WithoutHashes(t))[p] = OrDefault(smt_hash(p, t[p]))
<1> DEFINE w == WithoutHashes(t)
           M == XY_BITS + Z_BITS + 1
           Computed(p) == Hash(w)[p] = OrDefault(smt_hash(p, t[p]))
           T == {n \in 0..M : \A p \in DOMAIN t : Depth(p) >= n => Computed(p)}
<1>0. M \in Nat /\ \A p \in DOMAIN t : Depth(p) \in 0..M - 1
  BY DepthBound, BitsAssumption
<1>1. /\ DOMAIN w = DOMAIN t
      /\ \A p \in DOMAIN t : w[p].certs = t[p].certs /\ \A s \in Sides : w[p].child[s] = Null
  BY DEF WithoutHashes, NewRow
<1>2. \A p \in DOMAIN t : Hash(w)[p] = HashAt(Hash(w), w, p)
  BY <1>1, HashUnfolded
<1>3. M \in T
  BY <1>0
<1>4. ASSUME NEW p \in DOMAIN t,
             \A s \in Sides : HasSide(p, s) /\ Child(p, s) \in DOMAIN t => Computed(Child(p, s))
      PROVE  Computed(p)
  <2>1. CASE Leaf(p)
    BY <1>1, <1>2, <2>1
       DEF HashAt, smt_hash, OrDefault, Null, DEFAULT_HASH, LeafHash
  <2>2. CASE ~Leaf(p)
    <3> DEFINE h == [s \in Sides |-> IF Linked(w, p, s) THEN Hash(w)[Child(p, s)]
                                     ELSE w[p].child[s]]
               k == t[p].child
    <3>1. ASSUME NEW s \in Sides PROVE OrDefault(h[s]) = OrDefault(k[s])
      <4>1. k[s] = IF HasSide(p, s) THEN StoredHash(t, Child(p, s)) ELSE Null
        BY DEF Current, Rehashed
      <4>2. CASE HasSide(p, s) /\ Child(p, s) \in DOMAIN t
        <5>1. h[s] = Hash(w)[Child(p, s)]
          BY <1>1, <4>2 DEF Linked
        <5>2. h[s] = OrDefault(smt_hash(Child(p, s), t[Child(p, s)]))
          BY <1>4, <4>2, <5>1
        <5>3. k[s] = smt_hash(Child(p, s), t[Child(p, s)])
          BY <4>1, <4>2 DEF StoredHash
        <5>4. \A x : OrDefault(OrDefault(x)) = OrDefault(x)
          BY DEF OrDefault, Null, DEFAULT_HASH
        <5> HIDE DEF h, k
        <5> QED BY <5>2, <5>3, <5>4
      <4>3. CASE ~(HasSide(p, s) /\ Child(p, s) \in DOMAIN t)
        <5>1. h[s] = Null
          BY <1>1, <4>3 DEF Linked
        <5>2. k[s] = Null
          BY <4>1, <4>3 DEF StoredHash
        <5> HIDE DEF h, k
        <5> QED BY <5>1, <5>2
      <4> QED BY <4>2, <4>3
    <3> HIDE DEF h, k
    <3>2. NodeHash(h, t[p].certs) = NodeHash(k, t[p].certs)
      BY <3>1 DEF NodeHash
    <3>3. NodeHash(k, t[p].certs) # Null
      <4>1. NodeHash(k, t[p].certs).kind # Null.kind
        BY DEF NodeHash, Null
      <4> QED BY <4>1
    <3>4. Hash(w)[p] = NodeHash(h, t[p].certs)
      BY <1>1, <1>2, <2>2 DEF HashAt, h
    <3> QED BY <2>2, <3>2, <3>3, <3>4 DEF smt_hash, OrDefault, k
  <2> QED BY <2>1, <2>2
<1>5. ASSUME NEW n \in 0..M - 1, n + 1 \in T PROVE n \in T
  <2>1. ASSUME NEW p \in DOMAIN t, Depth(p) >= n PROVE Computed(p)
    <3>1. ASSUME NEW s \in Sides, HasSide(p, s), Child(p, s) \in DOMAIN t
          PROVE  Computed(Child(p, s))
      <4>1. Depth(Child(p, s)) >= n + 1
        BY <1>0, <2>1, <3>1, ChildFacts
      <4> HIDE DEF Computed
      <4> QED BY <1>5, <3>1, <4>1
    <3> HIDE DEF Computed
    <3> QED BY <1>4, <3>1
  <2> HIDE DEF Computed
  <2> QED BY <1>0, <2>1
<1> HIDE DEF T
<1>6. 0 \in T
  BY <1>0, <1>3, <1>5, Downwards
<1> HIDE DEF M, w
<1> QED BY <1>0, <1>6 DEF T, w

LEMMA RootIsNoLeaf == ~Leaf(Root)
BY BitsAssumption, EmptySeq DEF Leaf, Root

\* The root hash the ingestion leaves commits to the whole tree.
LEMMA RootComputed ==
    ASSUME TreeInv, Root \in DOMAIN committed
    PROVE  QueryRootHash(committed) = Hash(WithoutHashes(committed))[Root]
<1>1. Hash(WithoutHashes(committed))[Root] = OrDefault(smt_hash(Root, committed[Root]))
  BY StoredIsComputed DEF TreeInv, TypeInv, TypeOK, HashesCurrent
<1>2. smt_hash(Root, committed[Root]).kind # Null.kind
  BY RootIsNoLeaf DEF smt_hash, NodeHash, Null
<1>3. smt_hash(Root, committed[Root]) # Null
  BY <1>2
<1> QED BY <1>1, <1>3 DEF QueryRootHash, OrDefault

\* The hash that is signed after a commit, computed from the root's row alone,
\* is the hash that a client computes from the certificates of all positions.
THEOREM RootsCommitToTrees == Spec => []RootCommitsToTree
<1>1. TreeInv => RootCommitsToTree
  BY RootComputed DEF RootCommitsToTree
<1> QED BY <1>1, InitTreeInv, NextTreeInv, PTL DEF Spec

\* A row is needed if it is the root, lists a certificate or is above one that does.
Needed(t, p) ==
    p = Root \/ \E q \in DOMAIN t : t[q].certs # NoCerts /\ p \in {q} \cup Ancestors(q)

\* Without removals no row is stored that a single insertion would not store.
NeededInv ==
    /\ TreeInv
    /\ \A p \in DOMAIN rows \cup pending : Needed(rows, p)
    /\ \A p \in DOMAIN committed : Needed(committed, p)
    /\ job = "add" => \A p \in DOMAIN change : change[p] # NoCerts

\* What is needed stays needed while no row loses its certificates.
LEMMA StillNeeded ==
    ASSUME NEW t, NEW u, NEW p, Needed(t, p), DOMAIN t \subseteq DOMAIN u,
           \A q \in DOMAIN t : t[q].certs # NoCerts => u[q].certs # NoCerts
    PROVE  Needed(u, p)
BY DEF Needed

LEMMA NotEmpty == \A a \in Array : a # NoCerts <=> Listed(a) # {}
BY DEF Array, NoCerts, Listed

LEMMA InitNeededInv == Init => NeededInv
<1> SUFFICES ASSUME Init PROVE NeededInv
  OBVIOUS
<1>1. /\ rows = ImportedNodes /\ pending = DOMAIN rows /\ job = "import"
      /\ DOMAIN committed = {}
  BY DEF Init
<1> DEFINE listing == UNION {Extent(c) : c \in Imported}
           array(p) == [c \in Certs |-> IF c \in Imported THEN Occurrences(c, p) ELSE 0]
<1>2. DOMAIN rows = listing \cup UNION {Ancestors(q) : q \in listing}
  BY <1>1 DEF ImportedNodes
<1>3. ASSUME NEW q \in listing PROVE q \in DOMAIN rows /\ rows[q].certs # NoCerts
  <2>1. PICK c \in Imported : q \in Extent(c)
    OBVIOUS
  <2>2. c \in Certs /\ Occurrences(c, q) > 0
    BY <2>1, TreeAssumption, OccurrencesCount
  <2>3. rows[q].certs = array(q) /\ q \in DOMAIN rows
    BY <1>1, <1>2 DEF ImportedNodes, NewRow
  <2>4. array(q)[c] # NoCerts[c]
    BY <2>2 DEF NoCerts
  <2> QED BY <2>3, <2>4
<1> HIDE DEF listing, array
<1>4. ASSUME NEW p \in DOMAIN rows PROVE Needed(rows, p)
  BY <1>2, <1>3 DEF Needed
<1> QED BY <1>1, <1>4, InitTreeInv DEF NeededInv

LEMMA NextNeededInv == NeededInv /\ [Next]_vars /\ (job # "remove")' => NeededInv'
<1> SUFFICES ASSUME NeededInv, [Next]_vars, job' # "remove" PROVE NeededInv'
  OBVIOUS
<1>0. TreeInv'
  BY NextTreeInv DEF NeededInv
<1>1. ASSUME NEW n \in 0..MaxBatch, NEW batch \in [1..n -> Certs], AddNewCertificates(batch)
      PROVE  NeededInv'
  <2>1. ASSUME NEW p \in DOMAIN change' PROVE change'[p] # NoCerts
    <3>1. change'[p] = [c \in Certs |-> Cardinality({i \in DOMAIN batch : batch[i] = c})
                                        * Occurrences(c, p)]
      BY <1>1 DEF AddNewCertificates
    <3>2. n \in Nat /\ \E i \in DOMAIN batch : p \in Extent(batch[i])
      BY <1>1, TreeAssumption DEF AddNewCertificates
    <3>3. Listed(change'[p]) = {c \in ToSet(batch) : p \in Extent(c)}
      BY <3>1, <3>2, BatchListed, Zenon
    <3>4. Listed(change'[p]) # {}
      BY <3>2, <3>3 DEF ToSet
    <3> QED BY <3>4, ListedFacts
  <2>2. UNCHANGED <<rows, committed>> /\ pending' = {Root}
    BY <1>1 DEF AddNewCertificates
  <2>3. Needed(rows, Root)
    BY DEF Needed
  <2> QED BY <1>0, <2>1, <2>2, <2>3 DEF NeededInv
<1>2. ASSUME NEW p \in DOMAIN change, UpsertCertificates(p) PROVE NeededInv'
  <2> DEFINE row == IF p \in DOMAIN rows THEN [rows[p] EXCEPT !.certs = array_union(@, change[p])]
                    ELSE NewRow(change[p])
  <2>1. rows' = Upserted(rows, p, row)
    BY <1>2 DEF UpsertCertificates
  <2>2. /\ DOMAIN rows' = DOMAIN rows \cup {p}
        /\ rows'[p] = row
        /\ \A r \in DOMAIN rows : r # p => rows'[r] = rows[r]
    BY ONLY <2>1 DEF Upserted
  <2>3. row.certs = IF p \in DOMAIN rows THEN array_union(rows[p].certs, change[p]) ELSE change[p]
    <3>1. p \in DOMAIN rows => Row(rows[p])
      BY DEF NeededInv, TreeInv, TypeInv
    <3> QED BY <3>1 DEF Row, NewRow
  <2>4. change[p] \in Array /\ change[p] # NoCerts
    BY <1>2 DEF NeededInv, TreeInv, TypeInv, TypeOK, UpsertCertificates
  <2>5. Listed(row.certs) # {}
    BY <2>3, <2>4, ListedFacts, NotEmpty
  <2> HIDE DEF row
  <2>6. rows'[p].certs # NoCerts
    BY <2>2, <2>5, ListedFacts
  <2>7. \A q \in DOMAIN rows \cup pending : Needed(rows', q)
    BY <2>2, <2>6, StillNeeded DEF NeededInv
  <2>8. \A q \in {p} \cup Ancestors(p) : Needed(rows', q)
    BY <2>2, <2>6 DEF Needed
  <2>9. /\ pending' = pending \cup Ancestors(p) /\ committed' = committed /\ job' = job
        /\ DOMAIN change' = DOMAIN change \ {p}
        /\ \A r \in DOMAIN change' : change'[r] = change[r]
    BY <1>2 DEF UpsertCertificates
  <2> QED BY <1>0, <2>2, <2>7, <2>8, <2>9 DEF NeededInv
<1>3. CASE Removal
  BY <1>3 DEF Removal, RemoveExpiredCertificates
<1>4. CASE TakeOff
  BY <1>4 DEF TakeOff, RemoveCertificates
<1>5. CASE SortAncestors
  BY <1>0, <1>5 DEF NeededInv, SortAncestors
<1>6. ASSUME NEW p \in pending, UpdateAncestor(p) PROVE NeededInv'
  <2>1. /\ UNCHANGED <<committed, job, change>> /\ pending' = pending \ {p}
    BY <1>6 DEF UpdateAncestor
  <2>2. /\ DOMAIN rows \subseteq DOMAIN rows' /\ DOMAIN rows' \subseteq DOMAIN rows \cup {p}
        /\ \A q \in DOMAIN rows : rows'[q].certs = rows[q].certs
    <3>1. CASE p \in DOMAIN rows \/ job = "add"
      <4>1. \E h : rows'[p] = [child |-> h, certs |-> IF p \in DOMAIN rows THEN rows[p].certs
                                                     ELSE NoCerts]
        BY <1>6, <3>1, UpdateAncestorFacts, ArrayTypes
      <4>2. rows'[p].certs = IF p \in DOMAIN rows THEN rows[p].certs ELSE NoCerts
        BY ONLY <4>1
      <4>3. DOMAIN rows' = DOMAIN rows \cup {p} /\ \A r \in DOMAIN rows : r # p => rows'[r] = rows[r]
        BY <1>6, <3>1, UpdateAncestorFacts, ArrayTypes
      <4> QED BY <4>2, <4>3
    <3>2. CASE ~(p \in DOMAIN rows \/ job = "add")
      BY <1>6, <3>2, UpdateAncestorFacts, ArrayTypes
    <3> QED BY <3>1, <3>2
  <2>3. \A q \in DOMAIN rows \cup pending : Needed(rows', q)
    BY <2>2, StillNeeded DEF NeededInv
  <2> QED BY <1>0, <2>1, <2>2, <2>3 DEF NeededInv
<1>7. CASE Commit
  BY <1>0, <1>7 DEF NeededInv, Commit
<1>8. CASE Rollback
  BY <1>0, <1>8 DEF NeededInv, Rollback, NoChange
<1>9. CASE UNCHANGED vars
  BY <1>0, <1>9 DEF NeededInv, vars
<1> QED
  BY <1>1, <1>2, <1>3, <1>4, <1>5, <1>6, <1>7, <1>8, <1>9 DEF Next, Insertion, Upsert, Rehash

\* A tree that stores only what is needed, each certificate once per row, is
\* the smallest one that lists its certificates.
LEMMA NeededIsMinimal ==
    ASSUME NeededInv, Root \in DOMAIN committed, ListedOnce
    PROVE  Minimal(committed) = WithoutHashes(committed)
<1> DEFINE used == {p \in DOMAIN committed : committed[p].certs # NoCerts}
<1>1. {Root} \cup used \cup UNION {Ancestors(q) : q \in used} = DOMAIN committed
  <2>1. \A q \in used : Ancestors(q) \subseteq DOMAIN committed
    BY DEF NeededInv, TreeInv, NoOrphans
  <2>2. \A p \in DOMAIN committed :
            p = Root \/ \E q \in used : p \in {q} \cup Ancestors(q)
    BY DEF NeededInv, Needed
  <2> HIDE DEF used
  <2>3. used \subseteq DOMAIN committed
    BY DEF used
  <2> QED BY <2>1, <2>2, <2>3
<1>2. ASSUME NEW p \in DOMAIN committed
      PROVE  SetToArray(Listed(committed[p].certs)) = committed[p].certs
  <2>1. committed[p].certs \in [Certs -> {0, 1}]
    BY DEF ListedOnce
  <2> QED BY <2>1 DEF SetToArray, Listed
<1> QED BY <1>1, <1>2 DEF Minimal, WithoutHashes

\* While nothing is removed the root depends on which certificates were
\* inserted and not on how they were grouped and in which order they came.
THEOREM RootsDependOnContent == Spec => RootIndependentOfHistory
<1>1. NeededInv => (Root \in DOMAIN committed /\ ListedOnce
                    => QueryRootHash(committed) = Hash(Minimal(committed))[Root])
  BY NeededIsMinimal, RootComputed DEF NeededInv
<1>2. Spec /\ [](job # "remove") => []NeededInv
  BY InitNeededInv, NextNeededInv, PTL DEF Spec
<1> QED BY <1>1, <1>2, PTL DEF RootIndependentOfHistory
=============================================================================
