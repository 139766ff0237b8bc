-------------------------- MODULE MapQuery_proofs --------------------------
(***************************************************************************)
(* What a client may conclude from an answer it accepts, whatever happened *)
(* to the answer on its way: it lists nothing that the signed tree does    *)
(* not (AcceptedIsAuthentic), and it lacks nothing of the volume asked for *)
(* (AcceptedIsComplete).  The root hash pins down the hash of every node   *)
(* of the answer, from the root downwards; a hash pins down the            *)
(* certificates of the node and which children it has.                     *)
(***************************************************************************)
EXTENDS MapQuery, SmtNodes_proofs

\* A tree without hashes: rows that list certificates, and their ancestors.
PlainTree(t) ==
    /\ Root \in DOMAIN t
    /\ DOMAIN t \subseteq Pairs
    /\ \A p \in DOMAIN t : Ancestors(p) \subseteq DOMAIN t
    /\ \A p \in DOMAIN t : t[p] = NewRow(t[p].certs) /\ t[p].certs \in Array

\* The table holds the rows of a tree, with the hashes of that tree.
Published == PlainTree(WithoutHashes(nodes)) /\ nodes = Stored(WithoutHashes(nodes))

QueryInv ==
    /\ TypeOK
    /\ Published
    /\ verdict = "accepted" => query # NoQuery /\ Verified(answer, query)
---------------------------------------------------------------------------
(* The published tree *)

\* What is stored are the certificates of the tree, and its hashes.
LEMMA StoredRows ==
    ASSUME NEW t
    PROVE  /\ DOMAIN Stored(t) = DOMAIN t
           /\ \A p \in DOMAIN t : Stored(t)[p].certs = t[p].certs
           /\ \A p \in DOMAIN t, s \in Sides :
                Stored(t)[p].child[s] =
                    IF ~(HasSide(p, s) /\ Child(p, s) \in DOMAIN t) THEN Null
                    ELSE IF Hash(t)[Child(p, s)] = DEFAULT_HASH THEN Null
                    ELSE Hash(t)[Child(p, s)]
BY DEF Stored

LEMMA PlainRows ==
    ASSUME NEW t, PlainTree(t)
    PROVE  WithoutHashes(Stored(t)) = [p \in DOMAIN t |-> NewRow(t[p].certs)]
<1>1. DOMAIN Stored(t) = DOMAIN t /\ \A p \in DOMAIN t : Stored(t)[p].certs = t[p].certs
  BY StoredRows
<1> QED BY <1>1 DEF WithoutHashes

\* A row of certificates at every place, its ancestors: a tree.
LEMMA TreeIsPublished ==
    ASSUME NEW S \in SUBSET Pairs, NEW D0, NEW listed,
           D0 = S \cup {Root} \cup UNION {Ancestors(q) : q \in S},
           \A p \in Pairs : listed[p] \in Array
    PROVE  PlainTree([p \in D0 |-> NewRow(listed[p])])
<1> DEFINE t == [p \in D0 |-> NewRow(listed[p])]
<1>1. DOMAIN t = D0 /\ \A p \in D0 : t[p] = NewRow(listed[p])
  OBVIOUS
<1>2. D0 \subseteq Pairs
  BY AncestorsAbove, RootFacts
<1>3. ASSUME NEW p \in D0 PROVE Ancestors(p) \subseteq D0
  <2>1. CASE p \in S
    BY <2>1
  <2>2. CASE p = Root
    BY <2>2, RootFacts
  <2>3. CASE \E q \in S : p \in Ancestors(q)
    BY <2>3, AncestorsTransitive
  <2> QED BY <2>1, <2>2, <2>3
<1>4. \A p \in D0 : NewRow(listed[p]) = NewRow(NewRow(listed[p]).certs)
                    /\ NewRow(listed[p]).certs \in Array
  BY <1>2 DEF NewRow
<1> HIDE DEF t
<1> QED BY <1>1, <1>2, <1>3, <1>4 DEF PlainTree

LEMMA ArrayFacts == \A S : SetToArray(S) \in Array
BY DEF SetToArray, Array

\* A stored tree is published.
LEMMA StoredIsPublished ==
    ASSUME NEW t, PlainTree(t), t = [p \in DOMAIN t |-> NewRow(t[p].certs)]
    PROVE  PlainTree(WithoutHashes(Stored(t))) /\ Stored(t) = Stored(WithoutHashes(Stored(t)))
BY PlainRows

LEMMA InitPublished == Init => Published
<1> SUFFICES ASSUME Init PROVE Published
  OBVIOUS
<1>1. PICK listing \in SUBSET Pairs, kept \in SUBSET Pairs : nodes = Tree(listing, kept)
  <2>0. PICK n \in 0..MaxListed : \E place \in [1..n -> Places] : \E l \in SUBSET (1..n) :
            nodes = Tree({place[i] : i \in l}, {place[i] : i \in 1..n})
    BY Zenon DEF Init
  <2>1. PICK place \in [1..n -> Places], l \in SUBSET (1..n) :
            nodes = Tree({place[i] : i \in l}, {place[i] : i \in 1..n})
    BY ONLY <2>0, Zenon
  <2>2. {place[i] : i \in l} \in SUBSET Pairs /\ {place[i] : i \in 1..n} \in SUBSET Pairs
    BY QueryAssumption
  <2> QED BY <2>1, <2>2
<1> DEFINE S == listing \cup kept
           D0 == S \cup {Root} \cup UNION {Ancestors(q) : q \in S}
           listed == [p \in Pairs |-> SetToArray(IF p \in listing THEN Certs ELSE {})]
           t == [p \in D0 |-> NewRow(listed[p])]
<1>2. nodes = Stored(t)
  BY <1>1, Zenon DEF Tree
<1>3. \A p \in Pairs : listed[p] \in Array
  BY ArrayFacts
<1>4. S \in SUBSET Pairs
  OBVIOUS
<1>5. PlainTree(t)
  <2> HIDE DEF listed, S
  <2> QED BY <1>3, <1>4, TreeIsPublished
<1>6. t = [p \in DOMAIN t |-> NewRow(t[p].certs)]
  <2>1. DOMAIN t = D0 /\ \A p \in D0 : t[p] = NewRow(listed[p])
    BY Zenon
  <2>2. \A p \in D0 : NewRow(t[p].certs) = NewRow(listed[p])
    BY <2>1 DEF NewRow
  <2> HIDE DEF D0, listed
  <2> QED BY <2>1, <2>2
<1> HIDE DEF t
<1> QED BY <1>2, <1>5, <1>6, StoredIsPublished DEF Published
---------------------------------------------------------------------------
(* The hashes of a tree *)

\* What a child contributes to the hash of its parent.
ChildHash(a, p, s) == OrDefault(IF Linked(a, p, s) THEN Hash(a)[Child(p, s)] ELSE a[p].child[s])

LEMMA NodeHashParts ==
    ASSUME NEW a, DOMAIN a \subseteq Pairs, NEW p \in DOMAIN a, ~Leaf(p)
    PROVE  /\ Hash(a)[p].certs = a[p].certs
           /\ \A s \in Sides : Hash(a)[p].children[s] = ChildHash(a, p, s)
<1>1. Hash(a)[p] = HashAt(Hash(a), a, p)
  BY HashUnfolded
<1> QED BY <1>1 DEF HashAt, NodeHash, ChildHash

LEMMA LeafHashParts ==
    ASSUME NEW a, DOMAIN a \subseteq Pairs, NEW p \in DOMAIN a, Leaf(p)
    PROVE  Hash(a)[p] = IF a[p].certs = NoCerts THEN DEFAULT_HASH ELSE LeafHash(a[p].certs)
<1>1. Hash(a)[p] = HashAt(Hash(a), a, p)
  BY HashUnfolded
<1> QED BY <1>1 DEF HashAt

\* A child of a plain tree contributes its hash, one that is not there zeros.
LEMMA PlainChild ==
    ASSUME NEW t, PlainTree(t), NEW p \in DOMAIN t, NEW s \in Sides
    PROVE  ChildHash(t, p, s) = IF HasSide(p, s) /\ Child(p, s) \in DOMAIN t
                                THEN Hash(t)[Child(p, s)] ELSE DEFAULT_HASH
<1>1. t[p].child[s] = Null
  <2>1. t[p] = NewRow(t[p].certs)
    BY DEF PlainTree
  <2>2. NewRow(t[p].certs).child[s] = Null
    BY DEF NewRow
  <2> QED BY <2>1, <2>2
<1>2. CASE HasSide(p, s) /\ Child(p, s) \in DOMAIN t
  <2>1. Hash(t)[Child(p, s)] # Null
    BY <1>2, HashKinds DEF PlainTree
  <2> QED BY <1>1, <1>2, <2>1 DEF ChildHash, Linked, OrDefault
<1>3. CASE ~(HasSide(p, s) /\ Child(p, s) \in DOMAIN t)
  BY <1>1, <1>3 DEF ChildHash, Linked, OrDefault
<1> QED BY <1>2, <1>3

\* A stored child contributes the same.
LEMMA StoredChild ==
    ASSUME NEW t, PlainTree(t), NEW p \in DOMAIN t, NEW s \in Sides
    PROVE  OrDefault(Stored(t)[p].child[s]) = ChildHash(t, p, s)
<1>1. CASE HasSide(p, s) /\ Child(p, s) \in DOMAIN t
  <2>1. Hash(t)[Child(p, s)] # Null
    BY <1>1, HashKinds DEF PlainTree
  <2> QED BY <1>1, <2>1, StoredRows, PlainChild DEF OrDefault
<1>2. CASE ~(HasSide(p, s) /\ Child(p, s) \in DOMAIN t)
  BY <1>2, StoredRows, PlainChild DEF OrDefault
<1> QED BY <1>1, <1>2

LEMMA RootIsInner == ~Leaf(Root)
<1>1. Len(Root.xy) = 0 /\ XY_BITS # 0
  BY EmptySeq, BitsAssumption DEF Root
<1> QED BY <1>1 DEF Leaf

\* The hash of the root that is signed is the hash of the tree.
LEMMA SignedRoot ==
    ASSUME NEW t, PlainTree(t)
    PROVE  QueryRootHash(Stored(t)) = Hash(t)[Root]
<1>0. Root \in DOMAIN t /\ DOMAIN t \subseteq Pairs
  BY DEF PlainTree
<1>1. Hash(t)[Root] = HashAt(Hash(t), t, Root)
  BY <1>0, HashUnfolded
<1>2. Hash(t)[Root]
        = [kind |-> "node", children |-> [s \in Sides |-> ChildHash(t, Root, s)],
           certs |-> t[Root].certs]
  BY <1>1, RootIsInner DEF HashAt, NodeHash, ChildHash
<1>3. QueryRootHash(Stored(t))
        = [kind |-> "node", children |-> [s \in Sides |-> OrDefault(Stored(t)[Root].child[s])],
           certs |-> Stored(t)[Root].certs]
  BY RootIsInner DEF QueryRootHash, smt_hash, NodeHash
<1>4. [s \in Sides |-> OrDefault(Stored(t)[Root].child[s])] = [s \in Sides |-> ChildHash(t, Root, s)]
  <2>1. \A s \in Sides : OrDefault(Stored(t)[Root].child[s]) = ChildHash(t, Root, s)
    BY <1>0, StoredChild
  <2> QED BY <2>1
<1>5. Stored(t)[Root].certs = t[Root].certs
  BY <1>0, StoredRows
<1> QED BY ONLY <1>2, <1>3, <1>4, <1>5
---------------------------------------------------------------------------
(* What the root pins down *)

\* Every node of the answer has the hash that it has in the signed tree.
LEMMA SameHashes ==
    ASSUME NEW t, PlainTree(t), NEW a, DOMAIN a \subseteq DOMAIN t,
           Root \in DOMAIN a, InTree(a) = DOMAIN a, Hash(a)[Root] = Hash(t)[Root]
    PROVE  \A p \in DOMAIN a : Hash(a)[p] = Hash(t)[p]
<1> DEFINE M == XY_BITS + Z_BITS
           T == {n \in 0..M : \A p \in DOMAIN a : Depth(p) = n => Hash(a)[p] = Hash(t)[p]}
<1>0. DOMAIN t \subseteq Pairs /\ DOMAIN a \subseteq Pairs /\ M \in Nat
  BY BitsAssumption DEF PlainTree
<1>1. \A p \in Pairs : p # Root => Depth(p) # 0
  <2>1. SUFFICES ASSUME NEW p \in Pairs, p # Root PROVE Depth(p) # 0
    OBVIOUS
  <2>2. Root \in Ancestors(p) /\ Root \in Pairs
    BY RootFacts, Zenon DEF Ancestors
  <2>3. Depth(Root) < Depth(p)
    BY <2>1, <2>2, AncestorDepth
  <2>4. Depth(Root) >= 0
    BY <2>2, DepthBound, BitsAssumption
  <2>5. Depth(Root) \in Int
    BY <2>2, DepthBound, BitsAssumption
  <2> QED BY <2>3, <2>4, <2>5
<1>2. 0 \in T
  BY <1>0, <1>1
<1>3. ASSUME NEW n \in 0..M - 1, n \in T PROVE n + 1 \in T
  <2>0. n + 1 \in 0..M /\ n + 1 # 0 /\ n \in Int
    BY <1>0
  <2>1. SUFFICES ASSUME NEW p \in DOMAIN a, Depth(p) = n + 1, p # Root
                 PROVE  Hash(a)[p] = Hash(t)[p]
    BY <2>0
  <2>3. PICK q \in Ancestors(p), s \in Sides : q # p /\ HasSide(q, s) /\ Child(q, s) = p
    BY <1>0, <2>1, HasParent
  <2>4. q \in DOMAIN a /\ \E r \in Sides : Linked(a, q, r) /\ Child(q, r) \in Ancestors(p) \cup {p}
    BY <2>3 DEF InTree
  <2>5. q \in Pairs /\ Depth(p) = Depth(q) + 1 /\ ~Leaf(q) /\ Depth(q) \in Int
    BY <1>0, <2>3, <2>4, ChildFacts
  <2>6. PICK r \in Sides : Linked(a, q, r) /\ Child(q, r) \in Ancestors(p) \cup {p}
    BY <2>4
  <2>7. Child(q, r) = p
    <3>1. Child(q, r) \in Pairs /\ HasSide(q, r)
      BY <1>0, <2>6 DEF Linked
    <3>2. Depth(Child(q, r)) = Depth(p)
      BY <2>5, <3>1, ChildFacts
    <3>3. Child(q, r) # p => Depth(Child(q, r)) < Depth(p)
      BY <1>0, <2>6, AncestorDepth
    <3>4. Depth(p) \in Int
      BY <2>5
    <3> QED BY <3>2, <3>3, <3>4
  <2>8. Hash(a)[q] = Hash(t)[q]
    <3>1. Depth(q) = n
      BY <2>0, <2>1, <2>5
    <3> QED BY <1>3, <2>4, <3>1
  <2>9. ChildHash(a, q, r) = ChildHash(t, q, r)
    <3>1. Hash(a)[q].children[r] = ChildHash(a, q, r)
      BY <1>0, <2>4, <2>5, NodeHashParts
    <3>2. Hash(t)[q].children[r] = ChildHash(t, q, r)
      BY <1>0, <2>4, <2>5, NodeHashParts
    <3> QED BY <2>8, <3>1, <3>2
  <2>10. ChildHash(a, q, r) = Hash(a)[p]
    <3>1. Hash(a)[p] # Null
      BY <1>0, HashKinds
    <3> QED BY <2>6, <2>7, <3>1 DEF ChildHash, OrDefault
  <2>11. ChildHash(t, q, r) = Hash(t)[p]
    <3>1. p \in DOMAIN t /\ q \in DOMAIN t /\ HasSide(q, r)
      BY <2>4, <2>6 DEF Linked
    <3> QED BY <2>7, <3>1, PlainChild
  <2> QED BY <2>9, <2>10, <2>11
<1> HIDE DEF T
<1>4. 0..M \subseteq T
  BY <1>0, <1>2, <1>3, Upwards
<1> QED BY <1>0, <1>4, DepthBound DEF T

\* The hash of a node pins down its certificates.
LEMMA SameCertificates ==
    ASSUME NEW t, PlainTree(t), NEW a, DOMAIN a \subseteq DOMAIN t,
           NEW p \in DOMAIN a, Hash(a)[p] = Hash(t)[p]
    PROVE  a[p].certs = t[p].certs
<1>0. DOMAIN t \subseteq Pairs /\ DOMAIN a \subseteq Pairs /\ p \in DOMAIN t
  BY DEF PlainTree
<1>1. CASE ~Leaf(p)
  BY <1>0, <1>1, NodeHashParts
<1>2. CASE Leaf(p)
  <2>1. /\ Hash(a)[p] = IF a[p].certs = NoCerts THEN DEFAULT_HASH ELSE LeafHash(a[p].certs)
        /\ Hash(t)[p] = IF t[p].certs = NoCerts THEN DEFAULT_HASH ELSE LeafHash(t[p].certs)
    BY <1>0, <1>2, LeafHashParts
  <2>2. \A c : LeafHash(c).kind # DEFAULT_HASH.kind /\ LeafHash(c).certs = c
    BY DEF LeafHash, DEFAULT_HASH
  <2> QED BY <2>1, <2>2
<1> QED BY <1>1, <1>2
---------------------------------------------------------------------------
(* The invariant *)

\* The rows the server selects are rows of its table.
LEMMA ResponseRows ==
    ASSUME NEW S \in SUBSET DOMAIN nodes
    PROVE  /\ DOMAIN Response(S) = S
           /\ \A p \in S : Response(S)[p].certs = nodes[p].certs
BY DEF Response

LEMMA PublishedRows ==
    ASSUME Published
    PROVE  /\ DOMAIN WithoutHashes(nodes) = DOMAIN nodes
           /\ DOMAIN nodes \subseteq Pairs /\ Root \in DOMAIN nodes
           /\ \A p \in DOMAIN nodes : /\ WithoutHashes(nodes)[p].certs = nodes[p].certs
                                      /\ nodes[p].certs \in Array
<1>1. /\ DOMAIN WithoutHashes(nodes) = DOMAIN nodes
      /\ \A p \in DOMAIN nodes : WithoutHashes(nodes)[p].certs = nodes[p].certs
  BY DEF WithoutHashes, NewRow
<1> QED BY <1>1 DEF Published, PlainTree

LEMMA InitQueryInv == Init => QueryInv
<1> SUFFICES ASSUME Init PROVE QueryInv
  OBVIOUS
<1>1. Published
  BY InitPublished
<1>2. TypeOK
  BY DEF Init, TypeOK, NoAnswer
<1>3. verdict # "accepted"
  BY DEF Init
<1> QED BY <1>1, <1>2, <1>3 DEF QueryInv

LEMMA NextQueryInv == QueryInv /\ [Next]_vars => QueryInv'
<1> SUFFICES ASSUME QueryInv, [Next]_vars PROVE QueryInv'
  OBVIOUS
<1>0. nodes' = nodes
  BY DEF Next, PostQuery, LoseNode, MixVersions, VerifyResponse, vars
<1>1. Published /\ Published'
  BY <1>0 DEF QueryInv, Published
<1>2. ASSUME NEW q \in Queries, NEW p \in DOMAIN nodes, NEW missing \in {{}, {p}},
             PostQuery(q, missing)
      PROVE  TypeOK' /\ verdict' # "accepted"
  <2>1. query = NoQuery /\ query' = q /\ damaged' = (missing # {})
    BY <1>2 DEF PostQuery
  <2>2. verdict \in {"none", "refused", "rejected", "accepted"} /\ verdict # "accepted"
    BY <2>1 DEF QueryInv, TypeOK
  <2>3. Selected(q) \ missing \in SUBSET DOMAIN nodes
    BY DEF Selected
  <2>4. CASE Root \in Selected(q) \ missing
    <3>1. answer' = Response(Selected(q) \ missing) /\ verdict' = verdict
      BY <1>2, <2>4 DEF PostQuery
    <3>2. /\ DOMAIN answer' = Selected(q) \ missing
          /\ \A r \in DOMAIN answer' : answer'[r].certs = nodes[r].certs
      BY <2>3, <3>1, ResponseRows
    <3>3. \A r \in DOMAIN answer' : answer'[r].certs \in Array
      BY <1>1, <2>3, <3>2, PublishedRows
    <3>4. DOMAIN answer' \subseteq DOMAIN nodes'
      BY <1>0, <2>3, <3>2
    <3> QED BY ONLY <2>1, <2>2, <2>4, <3>1, <3>2, <3>3, <3>4, q \in Queries DEF TypeOK
  <2>5. CASE Root \notin Selected(q) \ missing
    <3>1. answer' = NoAnswer /\ verdict' = "refused"
      BY <1>2, <2>5 DEF PostQuery
    <3>2. DOMAIN answer' = {}
      BY <3>1 DEF NoAnswer
    <3> QED BY ONLY <2>1, <3>1, <3>2, q \in Queries DEF TypeOK
  <2> QED BY <2>4, <2>5
<1>3. ASSUME LoseNode PROVE TypeOK' /\ verdict' # "accepted"
  <2>1. PICK p \in DOMAIN answer : answer' = [r \in DOMAIN answer \ {p} |-> answer[r]]
    BY <1>3 DEF LoseNode
  <2>2. DOMAIN answer' \subseteq DOMAIN answer /\ \A r \in DOMAIN answer' : answer'[r] = answer[r]
    BY <2>1
  <2>3. damaged' = TRUE /\ query' = query /\ verdict' = verdict /\ verdict = "none"
    BY <1>3 DEF LoseNode
  <2>4. TypeOK
    BY DEF QueryInv
  <2> QED BY ONLY <1>0, <2>2, <2>3, <2>4 DEF TypeOK
<1>4. ASSUME MixVersions PROVE TypeOK' /\ verdict' # "accepted"
  <2>1. PICK p \in DOMAIN answer, S \in SUBSET Certs :
            answer' = [answer EXCEPT ![p].certs = SetToArray(S)]
    BY <1>4 DEF MixVersions
  <2>2. TypeOK
    BY DEF QueryInv
  <2>3. DOMAIN answer' = DOMAIN answer
    BY <2>1
  <2>4. \A r \in DOMAIN answer' : answer'[r].certs \in Array
    <3>1. \A r \in DOMAIN answer : answer[r].certs \in Array
      BY <2>2 DEF TypeOK
    <3>2. \A r \in DOMAIN answer : r # p => answer'[r] = answer[r]
      BY ONLY <2>1
    <3>3. answer'[p] = [answer[p] EXCEPT !.certs = SetToArray(S)]
      BY ONLY <2>1
    <3>4. answer'[p].certs = answer[p].certs \/ answer'[p].certs = SetToArray(S)
      BY ONLY <3>3
    <3> QED BY <2>3, <3>1, <3>2, <3>4, ArrayFacts
  <2>5. /\ damaged' = (answer' # answer) /\ query' = query
        /\ verdict' = verdict /\ verdict = "none" /\ ~damaged
    BY <1>4 DEF MixVersions
  <2> QED BY ONLY <1>0, <2>2, <2>3, <2>4, <2>5 DEF TypeOK
<1>5. ASSUME VerifyResponse PROVE TypeOK' /\ (verdict' = "accepted" => Verified(answer, query))
  BY <1>0, <1>5 DEF VerifyResponse, QueryInv, TypeOK
<1>6. CASE verdict' # "accepted" /\ TypeOK'
  BY <1>1, <1>6 DEF QueryInv
<1>7. CASE VerifyResponse
  <2>1. /\ query' = query /\ answer' = answer /\ query # NoQuery
    BY <1>7 DEF VerifyResponse
  <2>2. Verified(answer, query) => Verified(answer, query)'
    BY <1>0, <2>1 DEF Verified
  <2> QED BY <1>1, <1>5, <1>7, <2>1, <2>2 DEF QueryInv
<1>8. CASE UNCHANGED vars
  <2>1. /\ query' = query /\ answer' = answer /\ verdict' = verdict /\ damaged' = damaged
    BY <1>8 DEF vars
  <2>2. Verified(answer, query) => Verified(answer, query)'
    BY <1>0, <2>1 DEF Verified
  <2>3. TypeOK'
    BY <1>0, <2>1 DEF QueryInv, TypeOK
  <2> QED BY <1>1, <2>1, <2>2, <2>3 DEF QueryInv
<1>9. CASE Next
  BY <1>2, <1>3, <1>4, <1>6, <1>7, <1>9 DEF Next
<1> QED BY <1>8, <1>9

\* Only rows of the table are sent, among them the root, or the query is refused.
THEOREM TypeCorrect == Spec => []TypeOK
<1>1. QueryInv => TypeOK
  BY DEF QueryInv
<1> QED BY <1>1, InitQueryInv, NextQueryInv, PTL DEF Spec

\* An accepted answer lists exactly what the signed tree lists at its nodes:
\* the client needs to trust nothing but the signed root.
THEOREM AcceptedAnswersAreAuthentic == Spec => []AcceptedIsAuthentic
<1>1. ASSUME QueryInv PROVE AcceptedIsAuthentic
  <2>1. SUFFICES ASSUME verdict = "accepted" PROVE \A p \in DOMAIN answer : answer[p].certs = nodes[p].certs
    BY DEF AcceptedIsAuthentic
  <2> DEFINE t == WithoutHashes(nodes)
  <2>2. PlainTree(t) /\ nodes = Stored(t) /\ Published
    BY <1>1 DEF QueryInv, Published
  <2>3. DOMAIN answer \subseteq DOMAIN t
    BY <1>1, <2>2, PublishedRows DEF QueryInv, TypeOK
  <2>4. /\ Root \in DOMAIN answer /\ InTree(answer) = DOMAIN answer
        /\ Hash(answer)[Root] = QueryRootHash(nodes)
    BY <1>1, <2>1 DEF QueryInv, Verified
  <2>5. Hash(answer)[Root] = Hash(t)[Root]
    <3>1. QueryRootHash(Stored(t)) = Hash(t)[Root]
      BY <2>2, SignedRoot
    <3> HIDE DEF t
    <3> QED BY <2>2, <2>4, <3>1
  <2>6. \A p \in DOMAIN answer : t[p].certs = nodes[p].certs
    BY <2>2, <2>3, PublishedRows
  <2> HIDE DEF t
  <2>7. \A p \in DOMAIN answer : Hash(answer)[p] = Hash(t)[p]
    BY <2>2, <2>3, <2>4, <2>5, SameHashes
  <2> QED BY <2>2, <2>3, <2>6, <2>7, SameCertificates
<1> QED BY <1>1, InitQueryInv, NextQueryInv, PTL DEF Spec
---------------------------------------------------------------------------
(* The client's checks, one node at a time *)

ZCompleteAt(Z, a, q, p) ==
    \A s \in ZSides :
        Len(p.z) < Z_BITS /\ IntersectsAltitudeRange(Child(p, s).z, q)
        => IF Linked(a, p, s) THEN Z[Child(p, s)] ELSE a[p].child[s] = Null

CompleteAt(C, a, q, p) ==
    /\ \A s \in XYSides :
        IF Linked(a, p, s) THEN C[Child(p, s)] ELSE a[p].child[s] = Null
    /\ \A s \in ZSides :
        IF Linked(a, p, s) THEN IsZComplete(a, q)[Child(p, s)]
        ELSE a[p].child[s] = Null \/ ~IntersectsAltitudeRange(Child(p, s).z, q)

\* Both checks are well defined, as hashes are: the deeper nodes first.
LEMMA ZCompleteUnfolded ==
    ASSUME NEW q, NEW a, DOMAIN a \subseteq Pairs
    PROVE  IsZComplete(a, q) = [p \in DOMAIN a |-> ZCompleteAt(IsZComplete(a, q), a, q, p)]
<1> DEFINE M == XY_BITS + Z_BITS + 1
           Level(n) == {p \in DOMAIN a : Depth(p) >= n}
           T == {n \in 0..M : \E G : G = [p \in Level(n) |-> ZCompleteAt(G, a, q, p)]}
<1>0. M \in Nat /\ \A p \in DOMAIN a : Depth(p) \in 0..M - 1
  BY DepthBound, BitsAssumption
<1>1. M \in T
  <2>1. Level(M) = {}
    BY <1>0
  <2>2. [p \in {} |-> Null] = [p \in {} |-> ZCompleteAt([p_1 \in {} |-> Null], a, q, p)]
    OBVIOUS
  <2>3. \E G : G = [p \in Level(M) |-> ZCompleteAt(G, a, q, p)]
    BY <2>1, <2>2
  <2>4. M \in 0..M
    BY <1>0
  <2> HIDE DEF M, Level
  <2> QED BY <2>3, <2>4
<1>2. ASSUME NEW n \in 0..M - 1, n + 1 \in T PROVE n \in T
  <2>1. PICK F : F = [p \in Level(n + 1) |-> ZCompleteAt(F, a, q, p)]
    BY <1>2
  <2> DEFINE G == [p \in Level(n) |-> ZCompleteAt(F, a, q, p)]
  <2>2. ASSUME NEW p \in Level(n) PROVE ZCompleteAt(G, a, q, p) = ZCompleteAt(F, a, q, p)
    <3>1. ASSUME NEW s \in Sides, Linked(a, p, s) PROVE G[Child(p, s)] = F[Child(p, s)]
      <4>1. Child(p, s) \in Level(n + 1) /\ Child(p, s) \in Level(n)
        BY <1>0, <3>1, ChildFacts DEF Linked
      <4>2. F[Child(p, s)] = ZCompleteAt(F, a, q, Child(p, s))
        BY <2>1, <4>1
      <4> QED BY <4>1, <4>2
    <3> HIDE DEF G
    <3> QED BY <3>1 DEF ZCompleteAt, Sides
  <2>3. G = [p \in Level(n) |-> ZCompleteAt(G, a, q, p)]
    <3>1. \A p \in Level(n) : ZCompleteAt(G, a, q, p) = ZCompleteAt(F, a, q, p)
      BY <2>2
    <3> QED BY <3>1
  <2> HIDE DEF G
  <2>4. \E F1 : F1 = [p \in Level(n) |-> ZCompleteAt(F1, a, q, p)]
    BY <2>3
  <2>5. n \in 0..M
    BY <1>0
  <2> HIDE DEF M, Level
  <2> QED BY <2>4, <2>5
<1> HIDE DEF T
<1>3. 0 \in T
  BY <1>0, <1>1, <1>2, Downwards
<1>4. PICK G : G = [p \in Level(0) |-> ZCompleteAt(G, a, q, p)]
  BY <1>3 DEF T
<1>5. Level(0) = DOMAIN a
  BY <1>0
<1>6. G = [p \in DOMAIN a |-> ZCompleteAt(G, a, q, p)]
  BY <1>4, <1>5
<1> HIDE DEF Level, M
<1> QED BY <1>6 DEF IsZComplete, ZCompleteAt

LEMMA CompleteUnfolded ==
    ASSUME NEW q, NEW a, DOMAIN a \subseteq Pairs
    PROVE  IsComplete(a, q) = [p \in DOMAIN a |-> CompleteAt(IsComplete(a, q), a, q, p)]
<1> DEFINE M == XY_BITS + Z_BITS + 1
           Level(n) == {p \in DOMAIN a : Depth(p) >= n}
           T == {n \in 0..M : \E G : G = [p \in Level(n) |-> CompleteAt(G, a, q, p)]}
<1>0. M \in Nat /\ \A p \in DOMAIN a : Depth(p) \in 0..M - 1
  BY DepthBound, BitsAssumption
<1>1. M \in T
  <2>1. Level(M) = {}
    BY <1>0
  <2>2. [p \in {} |-> Null] = [p \in {} |-> CompleteAt([p_1 \in {} |-> Null], a, q, p)]
    OBVIOUS
  <2>3. \E G : G = [p \in Level(M) |-> CompleteAt(G, a, q, p)]
    BY <2>1, <2>2
  <2>4. M \in 0..M
    BY <1>0
  <2> HIDE DEF M, Level
  <2> QED BY <2>3, <2>4
<1>2. ASSUME NEW n \in 0..M - 1, n + 1 \in T PROVE n \in T
  <2>1. PICK F : F = [p \in Level(n + 1) |-> CompleteAt(F, a, q, p)]
    BY <1>2
  <2> DEFINE G == [p \in Level(n) |-> CompleteAt(F, a, q, p)]
  <2>2. ASSUME NEW p \in Level(n) PROVE CompleteAt(G, a, q, p) = CompleteAt(F, a, q, p)
    <3>1. ASSUME NEW s \in Sides, Linked(a, p, s) PROVE G[Child(p, s)] = F[Child(p, s)]
      <4>1. Child(p, s) \in Level(n + 1) /\ Child(p, s) \in Level(n)
        BY <1>0, <3>1, ChildFacts DEF Linked
      <4>2. F[Child(p, s)] = CompleteAt(F, a, q, Child(p, s))
        BY <2>1, <4>1
      <4> QED BY <4>1, <4>2
    <3> HIDE DEF G
    <3> QED BY <3>1 DEF CompleteAt, Sides
  <2>3. G = [p \in Level(n) |-> CompleteAt(G, a, q, p)]
    <3>1. \A p \in Level(n) : CompleteAt(G, a, q, p) = CompleteAt(F, a, q, p)
      BY <2>2
    <3> QED BY <3>1
  <2> HIDE DEF G
  <2>4. \E F1 : F1 = [p \in Level(n) |-> CompleteAt(F1, a, q, p)]
    BY <2>3
  <2>5. n \in 0..M
    BY <1>0
  <2> HIDE DEF M, Level
  <2> QED BY <2>4, <2>5
<1> HIDE DEF T
<1>3. 0 \in T
  BY <1>0, <1>1, <1>2, Downwards
<1>4. PICK G : G = [p \in Level(0) |-> CompleteAt(G, a, q, p)]
  BY <1>3 DEF T
<1>5. Level(0) = DOMAIN a
  BY <1>0
<1>6. G = [p \in DOMAIN a |-> CompleteAt(G, a, q, p)]
  BY <1>4, <1>5
<1> HIDE DEF Level, M
<1> QED BY <1>6 DEF IsComplete, CompleteAt

LEMMA ZCompleteNode ==
    ASSUME NEW q, NEW a, DOMAIN a \subseteq Pairs, NEW p \in DOMAIN a
    PROVE  IsZComplete(a, q)[p] = ZCompleteAt(IsZComplete(a, q), a, q, p)
<1> DEFINE Z == IsZComplete(a, q)
<1>1. Z = [r \in DOMAIN a |-> ZCompleteAt(Z, a, q, r)]
  BY ZCompleteUnfolded
<1> HIDE DEF Z
<1>2. Z[p] = ZCompleteAt(Z, a, q, p)
  BY ONLY p \in DOMAIN a, <1>1
<1> QED BY <1>2 DEF Z

LEMMA CompleteNode ==
    ASSUME NEW q, NEW a, DOMAIN a \subseteq Pairs, NEW p \in DOMAIN a
    PROVE  IsComplete(a, q)[p] = CompleteAt(IsComplete(a, q), a, q, p)
<1> DEFINE C == IsComplete(a, q)
<1>1. C = [r \in DOMAIN a |-> CompleteAt(C, a, q, r)]
  BY CompleteUnfolded
<1> HIDE DEF C
<1>2. C[p] = CompleteAt(C, a, q, p)
  BY ONLY p \in DOMAIN a, <1>1
<1> QED BY <1>2 DEF C

\* Along a path each position is checked before the next one.
PathAt(P, a, xy, q, k) ==
    IF k = Len(xy) THEN IsComplete(a, q)[[xy |-> SubSeq(xy, 1, k), z |-> <<>>]]
    ELSE /\ IsZComplete(a, q)[[xy |-> SubSeq(xy, 1, k), z |-> <<>>]]
         /\ IF Linked(a, [xy |-> SubSeq(xy, 1, k), z |-> <<>>], XYSide(xy[k + 1])) THEN P[k + 1]
            ELSE a[[xy |-> SubSeq(xy, 1, k), z |-> <<>>]].child[XYSide(xy[k + 1])] = Null
Paths(P, a, xy, q) == P = [k \in 0..Len(xy) |-> PathAt(P, a, xy, q, k)]

LEMMA PathUnfolded ==
    ASSUME NEW a, NEW xy, Len(xy) \in Nat, NEW q
    PROVE  \E P : Paths(P, a, xy, q) /\ PathIsComplete(a, xy, q) = P[0]
<1> DEFINE m == Len(xy)
           T == {n \in 0..m : \E P : P = [k \in n..m |-> PathAt(P, a, xy, q, k)]}
<1>0. m \in Nat
  OBVIOUS
<1> HIDE DEF m
<1>1. m \in T
  <2> DEFINE P == [k \in m..m |-> PathAt([j \in {} |-> Null], a, xy, q, k)]
  <2>1. ASSUME NEW k \in m..m
        PROVE PathAt(P, a, xy, q, k) = PathAt([j \in {} |-> Null], a, xy, q, k)
    <3>1. k = m
      BY <1>0
    <3> HIDE DEF P
    <3> QED BY <3>1 DEF PathAt, m
  <2>2. P = [k \in m..m |-> PathAt(P, a, xy, q, k)]
    <3>1. \A k \in m..m : PathAt(P, a, xy, q, k) = PathAt([j \in {} |-> Null], a, xy, q, k)
      BY <2>1
    <3> QED BY <3>1
  <2>3. m \in 0..m
    BY <1>0
  <2> HIDE DEF P
  <2>4. \E P1 : P1 = [k \in m..m |-> PathAt(P1, a, xy, q, k)]
    BY <2>2
  <2> QED BY <2>3, <2>4
<1>2. ASSUME NEW n \in 0..m - 1, n + 1 \in T PROVE n \in T
  <2>0. n \in 0..m /\ n \in Int
    BY <1>0
  <2>1. PICK F : F = [k \in n + 1..m |-> PathAt(F, a, xy, q, k)]
    BY <1>2
  <2> DEFINE P == [k \in n..m |-> PathAt(F, a, xy, q, k)]
  <2>2. ASSUME NEW k \in n..m PROVE PathAt(P, a, xy, q, k) = PathAt(F, a, xy, q, k)
    <3>1. ASSUME k # m PROVE P[k + 1] = F[k + 1]
      <4>1. k + 1 \in n + 1..m /\ k + 1 \in n..m
        BY <1>0, <2>0, <3>1
      <4>2. F[k + 1] = PathAt(F, a, xy, q, k + 1)
        BY <2>1, <4>1
      <4> QED BY <4>1, <4>2
    <3> HIDE DEF P
    <3> QED BY <3>1 DEF PathAt, m
  <2>3. P = [k \in n..m |-> PathAt(P, a, xy, q, k)]
    <3>1. \A k \in n..m : PathAt(P, a, xy, q, k) = PathAt(F, a, xy, q, k)
      BY <2>2
    <3> QED BY <3>1
  <2> HIDE DEF P
  <2>4. \E P1 : P1 = [k \in n..m |-> PathAt(P1, a, xy, q, k)]
    BY <2>3
  <2> QED BY <2>0, <2>4
<1> HIDE DEF T
<1>3. 0 \in T
  BY <1>0, <1>1, <1>2, Downwards
<1>4. \E P : P = [k \in 0..m |-> PathAt(P, a, xy, q, k)]
  BY <1>3 DEF T
<1>5. \E P : P = [k \in 0..Len(xy) |-> PathAt(P, a, xy, q, k)] /\ PathIsComplete(a, xy, q) = P[0]
  BY <1>4 DEF PathIsComplete, PathAt, XYSide, m
<1> QED BY <1>5 DEF Paths
---------------------------------------------------------------------------
(* The way down to a node that is asked for *)

\* An answer whose nodes have the hashes of the signed tree.
Sound(a, t) ==
    /\ PlainTree(t)
    /\ DOMAIN a \subseteq DOMAIN t
    /\ \A p \in DOMAIN a : Hash(a)[p] = Hash(t)[p]

\* What must not be missing: a node with a certificate at queried altitudes.
Wanted(p, q, t) ==
    /\ p \in DOMAIN t /\ t[p].certs # NoCerts
    /\ q.min \in Int /\ q.max \in Int
    /\ ZMin(p.z) <= q.max /\ q.min < ZMax(p.z)

\* On the way, an honest hash is there where the next node is not.
LEMMA NextIsKnown ==
    ASSUME NEW t, NEW a, Sound(a, t), NEW p, NEW q, Wanted(p, q, t),
           NEW r \in DOMAIN a, NEW s \in Sides, HasSide(r, s),
           Child(r, s) \in Ancestors(p) \cup {p}
    PROVE  IF Linked(a, r, s) THEN Child(r, s) \in DOMAIN a ELSE a[r].child[s] # Null
<1> DEFINE c == Child(r, s)
<1>0. /\ DOMAIN t \subseteq Pairs /\ DOMAIN a \subseteq Pairs /\ r \in DOMAIN t
      /\ p \in DOMAIN t /\ p \in Pairs /\ PlainTree(t) /\ t[p].certs # NoCerts
  BY DEF Sound, PlainTree, Wanted
<1>1. c \in DOMAIN t
  BY <1>0 DEF PlainTree
<1>2. Hash(t)[c] # DEFAULT_HASH
  <2>1. CASE c = p
    BY <1>0, <2>1, HashKinds
  <2>2. CASE c # p
    <3>1. Deeper(p, c) /\ c \in Pairs
      BY <1>0, <2>2, AncestorsAbove
    <3>2. ~Leaf(c)
      <4>1. /\ Len(p.xy) \in 0..XY_BITS /\ Len(p.z) \in 0..Z_BITS
            /\ Len(c.xy) \in 0..XY_BITS /\ Len(c.z) \in 0..Z_BITS
        BY <1>0, <3>1, PairFacts
      <4>2. \A n \in Nat : \A i \in 0..n : ~(i > n)
        OBVIOUS
      <4>3. XY_BITS \in Nat /\ Z_BITS \in Nat
        BY BitsAssumption
      <4> HIDE DEF c
      <4> QED BY ONLY <3>1, <4>1, <4>2, <4>3, Zenon DEF Deeper, Leaf
    <3> QED BY <1>0, <1>1, <3>2, HashKinds
  <2> QED BY <2>1, <2>2
<1>3. ChildHash(t, r, s) = Hash(t)[c]
  BY <1>0, <1>1, PlainChild
<1>4. ChildHash(a, r, s) = ChildHash(t, r, s)
  <2>1. ~Leaf(r)
    BY <1>0, <1>1, ChildFacts
  <2>2. /\ Hash(a)[r].children[s] = ChildHash(a, r, s)
        /\ Hash(t)[r].children[s] = ChildHash(t, r, s)
    BY <1>0, <2>1, NodeHashParts
  <2>3. Hash(a)[r] = Hash(t)[r]
    BY DEF Sound
  <2> QED BY <2>2, <2>3
<1>5. CASE Linked(a, r, s)
  BY <1>5 DEF Linked
<1>6. CASE ~Linked(a, r, s)
  <2>1. ChildHash(a, r, s) = OrDefault(a[r].child[s])
    BY <1>6 DEF ChildHash
  <2> HIDE DEF c
  <2>2. a[r].child[s] # Null
    BY <1>2, <1>3, <1>4, <2>1 DEF OrDefault
  <2> QED BY <1>6, <2>2
<1> QED BY <1>5, <1>6

\* The altitudes of a string are among those of its prefixes.
LEMMA InRange ==
    ASSUME NEW z \in Seq(Bit), NEW k \in 0..Len(z), NEW q, q.min \in Int, q.max \in Int,
           ZMin(z) <= q.max, q.min < ZMax(z)
    PROVE  IntersectsAltitudeRange(SubSeq(z, 1, k), q)
<1>1. /\ ZMin(SubSeq(z, 1, k)) <= ZMin(z) /\ ZMax(z) <= ZMax(SubSeq(z, 1, k))
      /\ ZMin(z) \in Int /\ ZMax(z) \in Int
      /\ ZMin(SubSeq(z, 1, k)) \in Int /\ ZMax(SubSeq(z, 1, k)) \in Int
  <2>1. /\ Padded(SubSeq(z, 1, k), Z_BITS, 0) <= Padded(z, Z_BITS, 0)
        /\ Padded(z, Z_BITS, 1) <= Padded(SubSeq(z, 1, k), Z_BITS, 1)
        /\ Padded(z, Z_BITS, 0) \in Nat /\ Padded(z, Z_BITS, 1) \in Nat
        /\ Padded(SubSeq(z, 1, k), Z_BITS, 0) \in Nat /\ Padded(SubSeq(z, 1, k), Z_BITS, 1) \in Nat
    BY PaddedNested, BitsAssumption DEF Bit
  <2> QED BY <2>1 DEF ZMin, ZMax
<1> QED BY <1>1 DEF IntersectsAltitudeRange

\* A complete altitude tree holds what is wanted in it.
LEMMA ZCompleteHolds ==
    ASSUME NEW t, NEW a, Sound(a, t), NEW p, NEW q, Wanted(p, q, t), NEW k \in 0..Len(p.z),
           ZAbove(p, k) \in DOMAIN a, IsZComplete(a, q)[ZAbove(p, k)]
    PROVE  p \in DOMAIN a
<1>0. /\ p \in Pairs /\ DOMAIN a \subseteq Pairs /\ p.z \in Seq(Bit) /\ Len(p.z) \in Nat
      /\ Len(p.z) <= Z_BITS /\ Z_BITS \in Nat
  BY PairFacts, BitsAssumption DEF Sound, PlainTree, Wanted
<1> DEFINE m == Len(p.z)
           T == {n \in 0..m : ZAbove(p, n) \in DOMAIN a /\ IsZComplete(a, q)[ZAbove(p, n)]
                              => p \in DOMAIN a}
<1>1. m \in T
  BY <1>0, WaysDown
<1>2. ASSUME NEW n \in 0..m - 1, n + 1 \in T PROVE n \in T
  <2> DEFINE r == ZAbove(p, n)
             s == ZSide(p.z[n + 1])
  <2>0. n \in 0..m /\ n + 1 \in 0..m /\ n < Z_BITS /\ n \in 0..Len(p.z) - 1
    BY <1>0
  <2>1. SUFFICES ASSUME r \in DOMAIN a, IsZComplete(a, q)[r] PROVE p \in DOMAIN a
    BY <2>0
  <2>2. s \in ZSides /\ HasSide(r, s) /\ Child(r, s) = ZAbove(p, n + 1)
    BY <1>0, <2>0, ZWayDown
  <2>3. Len(r.z) < Z_BITS
    BY <1>0, <2>0, PrefixFacts DEF ZAbove
  <2>4. IntersectsAltitudeRange(Child(r, s).z, q)
    <3>1. ZAbove(p, n + 1).z = SubSeq(p.z, 1, n + 1)
      BY DEF ZAbove
    <3>2. /\ q.min \in Int /\ q.max \in Int /\ ZMin(p.z) <= q.max /\ q.min < ZMax(p.z)
      BY DEF Wanted
    <3> QED BY <1>0, <2>0, <2>2, <3>1, <3>2, InRange
  <2>5. IF Linked(a, r, s) THEN Child(r, s) \in DOMAIN a ELSE a[r].child[s] # Null
    <3>1. s \in Sides /\ Child(r, s) \in Ancestors(p) \cup {p}
      BY <1>0, <2>0, <2>2, WaysDown DEF Sides
    <3> HIDE DEF r, s
    <3> QED BY <2>1, <2>2, <3>1, NextIsKnown
  <2> HIDE DEF r, s
  <2>6. ZCompleteAt(IsZComplete(a, q), a, q, r)
    <3>1. IsZComplete(a, q)[r] = ZCompleteAt(IsZComplete(a, q), a, q, r)
      BY <1>0, <2>1, ZCompleteNode
    <3> QED BY <2>1, <3>1
  <2>7. IF Linked(a, r, s) THEN IsZComplete(a, q)[Child(r, s)] ELSE a[r].child[s] = Null
    BY ONLY <2>2, <2>3, <2>4, <2>6, Zenon DEF ZCompleteAt
  <2>8. ZAbove(p, n + 1) \in DOMAIN a /\ IsZComplete(a, q)[ZAbove(p, n + 1)]
    BY ONLY <2>2, <2>5, <2>7, Zenon
  <2> QED BY <1>2, <2>8
<1> HIDE DEF T
<1>3. k \in T
  BY <1>0, <1>1, <1>2, Downwards
<1> QED BY <1>3 DEF T

\* So does a complete subtree.
LEMMA CompleteHolds ==
    ASSUME NEW t, NEW a, Sound(a, t), NEW p, NEW q, Wanted(p, q, t), NEW k \in 0..Len(p.xy),
           XYAbove(p, k) \in DOMAIN a, IsComplete(a, q)[XYAbove(p, k)]
    PROVE  p \in DOMAIN a
<1>0. /\ p \in Pairs /\ DOMAIN a \subseteq Pairs
      /\ p.z \in Seq(Bit) /\ Len(p.z) \in Nat /\ p.xy \in Seq(Bit) /\ Len(p.xy) \in Nat
  BY PairFacts, BitsAssumption DEF Sound, PlainTree, Wanted
<1> DEFINE m == Len(p.xy)
           T == {n \in 0..m : XYAbove(p, n) \in DOMAIN a /\ IsComplete(a, q)[XYAbove(p, n)]
                              => p \in DOMAIN a}
<1>1. m \in T
  <2> DEFINE r == XYAbove(p, m)
  <2>0. m \in 0..m
    BY <1>0
  <2>1. SUFFICES ASSUME r \in DOMAIN a, IsComplete(a, q)[r] PROVE p \in DOMAIN a
    BY <2>0
  <2>2. r = ZAbove(p, 0)
    BY <1>0, WaysDown
  <2>3. CASE Len(p.z) = 0
    BY <1>0, <2>1, <2>2, <2>3, WaysDown
  <2>4. CASE Len(p.z) # 0
    <3> DEFINE s == ZSide(p.z[0 + 1])
    <3>0. 0 \in 0..Len(p.z) - 1 /\ 1 \in 0..Len(p.z) /\ 0 + 1 = 1
      BY <1>0, <2>4
    <3>1. s \in ZSides /\ HasSide(r, s) /\ Child(r, s) = ZAbove(p, 1)
      BY <1>0, <2>2, <3>0, ZWayDown
    <3>2. IntersectsAltitudeRange(Child(r, s).z, q)
      <4>1. ZAbove(p, 1).z = SubSeq(p.z, 1, 1)
        BY DEF ZAbove
      <4>2. /\ q.min \in Int /\ q.max \in Int /\ ZMin(p.z) <= q.max /\ q.min < ZMax(p.z)
        BY DEF Wanted
      <4> QED BY <1>0, <3>0, <3>1, <4>1, <4>2, InRange
    <3>3. IF Linked(a, r, s) THEN Child(r, s) \in DOMAIN a ELSE a[r].child[s] # Null
      <4>1. s \in Sides /\ Child(r, s) \in Ancestors(p) \cup {p}
        BY <1>0, <3>0, <3>1, WaysDown DEF Sides
      <4> HIDE DEF r, s
      <4> QED BY <2>1, <3>1, <4>1, NextIsKnown
    <3> HIDE DEF r, s
    <3>4. CompleteAt(IsComplete(a, q), a, q, r)
      BY <1>0, <2>1, CompleteNode
    <3>5. IF Linked(a, r, s) THEN IsZComplete(a, q)[Child(r, s)] ELSE a[r].child[s] = Null
      BY ONLY <3>1, <3>2, <3>4, Zenon DEF CompleteAt
    <3>6. ZAbove(p, 1) \in DOMAIN a /\ IsZComplete(a, q)[ZAbove(p, 1)]
      BY ONLY <3>1, <3>3, <3>5, Zenon
    <3> QED BY <3>0, <3>6, ZCompleteHolds
  <2> QED BY <2>3, <2>4
<1>2. ASSUME NEW n \in 0..m - 1, n + 1 \in T PROVE n \in T
  <2> DEFINE r == XYAbove(p, n)
             s == XYSide(p.xy[n + 1])
  <2>0. n \in 0..m /\ n + 1 \in 0..m /\ n \in 0..Len(p.xy) - 1
    BY <1>0
  <2>1. SUFFICES ASSUME r \in DOMAIN a, IsComplete(a, q)[r] PROVE p \in DOMAIN a
    BY <2>0
  <2>2. s \in XYSides /\ HasSide(r, s) /\ Child(r, s) = XYAbove(p, n + 1)
    BY <1>0, <2>0, XYWayDown
  <2>3. IF Linked(a, r, s) THEN Child(r, s) \in DOMAIN a ELSE a[r].child[s] # Null
    <3>1. s \in Sides /\ Child(r, s) \in Ancestors(p) \cup {p}
      BY <1>0, <2>0, <2>2, WaysDown DEF Sides
    <3> HIDE DEF r, s
    <3> QED BY <2>1, <2>2, <3>1, NextIsKnown
  <2> HIDE DEF r, s
  <2>4. CompleteAt(IsComplete(a, q), a, q, r)
    BY <1>0, <2>1, CompleteNode
  <2>5. IF Linked(a, r, s) THEN IsComplete(a, q)[Child(r, s)] ELSE a[r].child[s] = Null
    BY ONLY <2>2, <2>4, Zenon DEF CompleteAt
  <2>6. XYAbove(p, n + 1) \in DOMAIN a /\ IsComplete(a, q)[XYAbove(p, n + 1)]
    BY ONLY <2>2, <2>3, <2>5, Zenon
  <2> QED BY <1>2, <2>6
<1> HIDE DEF T
<1>3. k \in T
  BY <1>0, <1>1, <1>2, Downwards
<1> QED BY <1>3 DEF T

\* So does a complete path, below its end and beside its nodes.
LEMMA PathHolds ==
    ASSUME NEW t, NEW a, Sound(a, t), NEW p, NEW q, Wanted(p, q, t), Root \in DOMAIN a,
           NEW xy \in Seq(Bit), PathIsComplete(a, xy, q), NEW m \in Nat,
           m <= Len(xy), m <= Len(p.xy), m = Len(xy) \/ m = Len(p.xy),
           SubSeq(xy, 1, m) = SubSeq(p.xy, 1, m)
    PROVE  p \in DOMAIN a
<1>0. /\ p \in Pairs /\ DOMAIN a \subseteq Pairs /\ Len(xy) \in Nat /\ m \in 0..Len(xy)
      /\ p.z \in Seq(Bit) /\ Len(p.z) \in Nat /\ p.xy \in Seq(Bit) /\ Len(p.xy) \in Nat
      /\ m \in 0..Len(p.xy) /\ 0 \in 0..m /\ 0 \in 0..Len(p.z)
  BY PairFacts, BitsAssumption DEF Sound, PlainTree, Wanted
<1>1. PICK P : Paths(P, a, xy, q) /\ PathIsComplete(a, xy, q) = P[0]
  BY <1>0, PathUnfolded
<1>2. \A k \in 0..Len(xy) : P[k] = PathAt(P, a, xy, q, k)
  BY <1>1 DEF Paths
<1>3. ASSUME NEW k \in 0..m
      PROVE  XYAbove(p, k) = [xy |-> SubSeq(xy, 1, k), z |-> <<>>]
  <2>1. SubSeq(SubSeq(xy, 1, m), 1, k) = SubSeq(xy, 1, k)
    BY <1>0, PrefixFacts
  <2>2. SubSeq(SubSeq(p.xy, 1, m), 1, k) = SubSeq(p.xy, 1, k)
    BY <1>0, PrefixFacts
  <2> QED BY <2>1, <2>2 DEF XYAbove
<1>4. ASSUME NEW k \in 0..m - 1 PROVE xy[k + 1] = p.xy[k + 1]
  <2>1. /\ k + 1 \in 1..m /\ m \in Int
    BY <1>0
  <2>2. /\ SubSeq(xy, 1, m)[k + 1] = xy[k + 1]
        /\ SubSeq(p.xy, 1, m)[k + 1] = p.xy[k + 1]
    <3>1. ASSUME NEW r \in Seq(Bit), m <= Len(r) PROVE SubSeq(r, 1, m)[k + 1] = r[k + 1]
      BY <1>0, <2>1, <3>1
    <3> QED BY <1>0, <3>1
  <2> QED BY <2>2
<1> DEFINE T == {k \in 0..m : XYAbove(p, k) \in DOMAIN a /\ P[k] => p \in DOMAIN a}
<1>5. m \in T
  <2> DEFINE r == XYAbove(p, m)
  <2>0. m \in 0..m
    BY <1>0
  <2>1. SUFFICES ASSUME r \in DOMAIN a, P[m] PROVE p \in DOMAIN a
    BY <2>0
  <2>2. r = [xy |-> SubSeq(xy, 1, m), z |-> <<>>]
    BY <1>3, <2>0
  <2>3. PathAt(P, a, xy, q, m)
    BY <1>0, <1>2, <2>1
  <2>4. CASE m = Len(xy)
    <3> HIDE DEF r
    <3>1. IsComplete(a, q)[r]
      BY ONLY <2>2, <2>3, <2>4, Zenon DEF PathAt
    <3> QED BY <1>0, <2>1, <3>1, CompleteHolds DEF r
  <2>5. CASE m # Len(xy)
    <3> HIDE DEF r
    <3>1. IsZComplete(a, q)[r]
      BY ONLY <2>2, <2>3, <2>5, Zenon DEF PathAt
    <3>2. r = ZAbove(p, 0)
      BY <1>0, <2>5, WaysDown DEF r
    <3> QED BY <1>0, <2>1, <3>1, <3>2, ZCompleteHolds
  <2> QED BY <2>4, <2>5
<1>6. ASSUME NEW k \in 0..m - 1, k + 1 \in T PROVE k \in T
  <2> DEFINE r == XYAbove(p, k)
             s == XYSide(p.xy[k + 1])
  <2>0. /\ k \in 0..m /\ k + 1 \in 0..m /\ k \in 0..Len(p.xy) - 1 /\ k # Len(xy)
        /\ k + 1 \in 0..Len(p.xy) /\ k \in 0..Len(xy)
    BY <1>0
  <2>1. SUFFICES ASSUME r \in DOMAIN a, P[k] PROVE p \in DOMAIN a
    BY <2>0
  <2>2. s \in XYSides /\ HasSide(r, s) /\ Child(r, s) = XYAbove(p, k + 1)
    BY <1>0, <2>0, XYWayDown
  <2>3. IF Linked(a, r, s) THEN Child(r, s) \in DOMAIN a ELSE a[r].child[s] # Null
    <3>1. s \in Sides /\ Child(r, s) \in Ancestors(p) \cup {p}
      BY <1>0, <2>0, <2>2, WaysDown DEF Sides
    <3> HIDE DEF r, s
    <3> QED BY <2>1, <2>2, <3>1, NextIsKnown
  <2>4. r = [xy |-> SubSeq(xy, 1, k), z |-> <<>>] /\ s = XYSide(xy[k + 1])
    BY <1>3, <1>4, <2>0
  <2> HIDE DEF r, s
  <2>5. PathAt(P, a, xy, q, k)
    BY <1>2, <2>0, <2>1
  <2>6. IF Linked(a, r, s) THEN P[k + 1] ELSE a[r].child[s] = Null
    BY ONLY <2>0, <2>4, <2>5, Zenon DEF PathAt
  <2>7. XYAbove(p, k + 1) \in DOMAIN a /\ P[k + 1]
    BY ONLY <2>2, <2>3, <2>6, Zenon
  <2> QED BY <1>6, <2>7
<1> HIDE DEF T
<1>7. 0 \in T
  BY <1>0, <1>5, <1>6, Downwards
<1>8. XYAbove(p, 0) = Root
  BY <1>0, WaysDown
<1> QED BY <1>1, <1>7, <1>8 DEF T

LEMMA OnePath ==
    ASSUME NEW s \in Seq(Bit), NEW r \in Seq(Bit), IsPrefix(s, r) \/ IsPrefix(r, s)
    PROVE  \E m \in Nat : /\ m <= Len(s) /\ m <= Len(r) /\ (m = Len(s) \/ m = Len(r))
                          /\ SubSeq(s, 1, m) = SubSeq(r, 1, m)
<1>0. Len(s) \in Nat /\ Len(r) \in Nat
  BY LenProperties
<1>1. CASE IsPrefix(s, r)
  <2>1. Len(s) <= Len(s) /\ Len(s) <= Len(r) /\ SubSeq(s, 1, Len(s)) = SubSeq(r, 1, Len(s))
    BY <1>0, <1>1 DEF IsPrefix
  <2> QED BY ONLY <1>0, <2>1, Zenon
<1>2. CASE IsPrefix(r, s)
  <2>1. Len(r) <= Len(r) /\ Len(r) <= Len(s) /\ SubSeq(s, 1, Len(r)) = SubSeq(r, 1, Len(r))
    BY <1>0, <1>2 DEF IsPrefix
  <2> QED BY ONLY <1>0, <2>1, Zenon
<1> QED BY <1>1, <1>2

\* The volume asked for holds no certificate that an accepted answer lacks:
\* neither the server nor the way to the client can leave one out unnoticed.
THEOREM AcceptedAnswersAreComplete == Spec => []AcceptedIsComplete
<1>1. ASSUME QueryInv PROVE AcceptedIsComplete
  <2>1. SUFFICES ASSUME verdict = "accepted", NEW p \in DOMAIN nodes, Asked(p, query),
                        nodes[p].certs # NoCerts
                 PROVE  p \in DOMAIN answer
    BY DEF AcceptedIsComplete
  <2> DEFINE t == WithoutHashes(nodes)
  <2>2. PlainTree(t) /\ nodes = Stored(t) /\ Published
    BY <1>1 DEF QueryInv, Published
  <2>3. DOMAIN answer \subseteq DOMAIN t /\ p \in DOMAIN t /\ t[p].certs # NoCerts /\ p \in Pairs
    BY <1>1, <2>1, <2>2, PublishedRows DEF QueryInv, TypeOK
  <2>4. /\ Root \in DOMAIN answer /\ InTree(answer) = DOMAIN answer
        /\ Hash(answer)[Root] = QueryRootHash(nodes)
        /\ \A xy \in query.area : PathIsComplete(answer, xy, query)
        /\ query # NoQuery
    BY <1>1, <2>1 DEF QueryInv, Verified
  <2>5. Hash(answer)[Root] = Hash(t)[Root]
    <3>1. QueryRootHash(Stored(t)) = Hash(t)[Root]
      BY <2>2, SignedRoot
    <3> HIDE DEF t
    <3> QED BY <2>2, <2>4, <3>1
  <2> HIDE DEF t
  <2>6. Sound(answer, t)
    BY <2>2, <2>3, <2>4, <2>5, SameHashes DEF Sound
  <2>7. query \in Queries
    BY <1>1, <2>4 DEF QueryInv, TypeOK
  <2>8. query.area \in Areas /\ query.min \in Altitudes /\ query.max \in Altitudes
    BY <2>7 DEF Queries
  <2>9. Wanted(p, query, t)
    <3>1. query.min \in Int /\ query.max \in Int
      BY <2>8 DEF Altitudes
    <3>2. ZMin(p.z) <= query.max /\ query.min < ZMax(p.z)
      BY <2>1 DEF Asked
    <3> QED BY <2>3, <3>1, <3>2 DEF Wanted
  <2>10. PICK s \in query.area : IsPrefix(s, p.xy) \/ IsPrefix(p.xy, s)
    BY <2>1 DEF Asked
  <2>11. s \in Seq(Bit) /\ p.xy \in Seq(Bit)
    <3>1. s \in BitStringsUpTo(XY_BITS)
      BY <2>8, <2>10, QueryAssumption
    <3> QED BY <2>3, <3>1, BitStringIsSeq, BitsAssumption, PairFacts
  <2>12. PICK m \in Nat : /\ m <= Len(s) /\ m <= Len(p.xy) /\ (m = Len(s) \/ m = Len(p.xy))
                          /\ SubSeq(s, 1, m) = SubSeq(p.xy, 1, m)
    BY <2>10, <2>11, OnePath
  <2> QED BY <2>4, <2>6, <2>9, <2>10, <2>11, <2>12, PathHolds
<1> QED BY <1>1, InitQueryInv, NextQueryInv, PTL DEF Spec
---------------------------------------------------------------------------
(* What the server selects *)

Related(xy, q) == \E s \in q.area : IsPrefix(s, xy) \/ IsPrefix(xy, s)

\* No node begins at the highest altitude that is asked for.
NoEdge(q) == \A p \in DOMAIN nodes : ~(Asked(p, q) /\ ZMin(p.z) = q.max)

LEMMA QueryFacts ==
    ASSUME NEW q \in Queries
    PROVE  /\ q.min \in Nat /\ q.max \in Nat /\ q.min <= q.max /\ q.max <= C_Z /\ C_Z \in Nat
           /\ \E s : s \in q.area
           /\ \A s \in q.area : s \in Seq(Bit) /\ Len(s) \in 0..XY_BITS
<1>0. <<>> \in Seq(Bit) /\ Len(<<>>) = 0
  BY EmptySeq
<1>1. C_Z \in Nat
  <2>1. Padded(<<>>, Z_BITS, 1) \in Nat
    <3>1. 0 \in 0..Len(<<>>) /\ Z_BITS \in Nat /\ 1 \in Bit
      BY <1>0, BitsAssumption DEF Bit
    <3> QED BY <1>0, <3>1, PaddedNested
  <2> QED BY <2>1 DEF C_Z
<1>2. q.area \in Areas /\ q.min \in Altitudes /\ q.max \in Altitudes /\ q.min <= q.max
  BY DEF Queries
<1>3. q.min \in Nat /\ q.max \in Nat /\ q.min <= q.max /\ q.max <= C_Z
  BY <1>1, <1>2 DEF Altitudes
<1>4. \E s : s \in q.area
  BY <1>2, QueryAssumption
<1>5. ASSUME NEW s \in q.area PROVE s \in Seq(Bit) /\ Len(s) \in 0..XY_BITS
  <2>1. s \in BitStringsUpTo(XY_BITS)
    BY <1>2, QueryAssumption
  <2>2. s \in Seq(Bit) /\ Len(s) <= XY_BITS
    BY <2>1, BitStringIsSeq, BitsAssumption
  <2> QED BY <2>2, BitsAssumption, LenProperties
<1> QED BY <1>1, <1>3, <1>4, <1>5

\* The ranges and the point queries find every string that begins s and
\* every string that s begins.
XYSelected(xy, s) == \/ MinInt(s) <= MinInt(xy) /\ MinInt(xy) <= MaxInt(s)
                     \/ xy = <<>>
                     \/ xy \in PointQueries(s)

LEMMA BegunIsSelected ==
    ASSUME NEW s \in Seq(Bit), NEW xy \in Seq(Bit), IsPrefix(s, xy)
    PROVE  XYSelected(xy, s)
<1>0. Len(s) \in 0..Len(xy) /\ XY_BITS \in Nat /\ 0 \in Bit /\ 1 \in Bit
  BY LenProperties, BitsAssumption DEF IsPrefix, Bit
<1>1. SubSeq(xy, 1, Len(s)) = s
  BY WholePrefix DEF IsPrefix
<1>2. /\ Padded(s, XY_BITS, 0) <= Padded(xy, XY_BITS, 0)
      /\ Padded(xy, XY_BITS, 0) <= Padded(xy, XY_BITS, 1)
      /\ Padded(xy, XY_BITS, 1) <= Padded(s, XY_BITS, 1)
      /\ Padded(xy, XY_BITS, 0) \in Nat /\ Padded(xy, XY_BITS, 1) \in Nat
      /\ Padded(s, XY_BITS, 1) \in Nat
  BY <1>0, <1>1, PaddedNested
<1> QED BY <1>2 DEF XYSelected, MinInt, MaxInt

LEMMA MaxFacts ==
    ASSUME NEW n \in Nat, NEW S, S \subseteq 1..n, NEW j \in S
    PROVE  Max(S) \in S /\ Max(S) >= j
<1> DEFINE T == {k \in 0..n : \A y \in S : y <= k => \E x \in S : \A u \in S : u <= k => x >= u}
<1>1. 0 \in T
  OBVIOUS
<1>2. ASSUME NEW k \in 0..n - 1, k \in T PROVE k + 1 \in T
  <2>0. k + 1 \in 0..n /\ k \in Nat
    OBVIOUS
  <2>1. SUFFICES ASSUME NEW y \in S, y <= k + 1
                 PROVE  \E x \in S : \A u \in S : u <= k + 1 => x >= u
    BY <2>0
  <2>2. CASE k + 1 \in S
    BY <2>0, <2>2
  <2>3. CASE k + 1 \notin S
    <3>1. \A u \in S : u <= k + 1 => u <= k
      BY <2>0, <2>3
    <3> QED BY <1>2, <2>1, <3>1
  <2> QED BY <2>2, <2>3
<1> HIDE DEF T
<1>3. n \in T
  <2>1. n \in 0..n
    OBVIOUS
  <2> QED BY <1>1, <1>2, <2>1, Upwards
<1>4. \E x \in S : \A u \in S : x >= u
  <2>1. \A u \in S : u <= n
    OBVIOUS
  <2> QED BY <1>3, <2>1 DEF T
<1>5. Max(S) \in S /\ \A u \in S : Max(S) >= u
  BY <1>4, Zenon DEF Max
<1> QED BY <1>5

LEMMA BeginningIsSelected ==
    ASSUME NEW s \in Seq(Bit), NEW k \in 0..Len(s)
    PROVE  XYSelected(SubSeq(s, 1, k), s)
<1> DEFINE ones == {j \in DOMAIN s : s[j] = 1}
           r == SubSeq(s, 1, k)
<1>0. /\ Len(s) \in Nat /\ k \in Nat /\ DOMAIN s = 1..Len(s) /\ 0 \in Bit /\ 1 \in Bit
      /\ XY_BITS \in Nat
      /\ r \in Seq(Bit) /\ Len(r) = k /\ (r = <<>> <=> k = 0)
      /\ \A j \in 1..k : r[j] = s[j]
  <2>1. /\ Len(s) \in Nat /\ k \in Nat /\ DOMAIN s = 1..Len(s) /\ 0 \in Bit /\ 1 \in Bit
        /\ XY_BITS \in Nat
    BY LenProperties, BitsAssumption DEF Bit
  <2>2. r \in Seq(Bit) /\ Len(r) = k /\ (r = <<>> <=> k = 0)
    BY PrefixFacts
  <2>3. \A j \in 1..k : r[j] = s[j]
    BY <2>1, <2>2
  <2> QED BY <2>1, <2>2, <2>3
<1>1. CASE k = 0
  BY <1>0, <1>1 DEF XYSelected
<1>2. CASE \A j \in ones : j <= k
  <2> HIDE DEF r
  <2>1. ASSUME NEW j \in 1..XY_BITS PROVE Digit(s, 0, j) = Digit(r, 0, j) /\ Digit(s, 0, j) \in Bit
    <3>0. j \in Nat
      OBVIOUS
    <3>1. CASE j \in 1..k
      <4>1. j \in 1..Len(s) /\ j \in 1..Len(r)
        BY <1>0, <3>1
      <4> QED BY <1>0, <3>0, <3>1, <4>1, PaddedBits
    <3>2. CASE j \notin 1..k
      <4>1. j \notin 1..Len(r) /\ Digit(r, 0, j) = 0
        BY <1>0, <3>0, <3>2, PaddedBits
      <4>2. CASE j \in 1..Len(s)
        <5>1. j \notin ones
          BY <1>2, <3>2
        <5>2. s[j] = 0
          BY <1>0, <4>2, <5>1, ElementOfSeq DEF Bit
        <5> QED BY <1>0, <3>0, <4>1, <4>2, <5>2, PaddedBits
      <4>3. CASE j \notin 1..Len(s)
        BY <1>0, <3>0, <4>1, <4>3, PaddedBits
      <4> QED BY <4>2, <4>3
    <3> QED BY <3>1, <3>2
  <2>2. \A j \in 1..XY_BITS : Digit(s, 0, j) <= Digit(r, 0, j) /\ Digit(r, 0, j) \in Bit
    BY <2>1 DEF Bit
  <2>3. Padded(s, XY_BITS, 0) <= Padded(r, XY_BITS, 0)
    BY <1>0, <2>1, <2>2, PaddedMonotone
  <2>4. /\ Padded(r, XY_BITS, 0) <= Padded(s, XY_BITS, 0)
        /\ Padded(s, XY_BITS, 0) <= Padded(s, XY_BITS, 1)
        /\ Padded(r, XY_BITS, 0) \in Nat /\ Padded(s, XY_BITS, 0) \in Nat
        /\ Padded(s, XY_BITS, 1) \in Nat
    BY <1>0, PaddedNested DEF r
  <2> QED BY <2>3, <2>4 DEF XYSelected, MinInt, MaxInt, r
<1>3. CASE k # 0 /\ \E j \in ones : ~(j <= k)
  <2>1. PICK j \in ones : ~(j <= k)
    BY <1>3
  <2>2. Max(ones) \in ones /\ Max(ones) >= j /\ ones # {}
    <3>1. ones \subseteq 1..Len(s)
      BY <1>0
    <3> HIDE DEF ones
    <3> QED BY <1>0, <2>1, <3>1, MaxFacts
  <2>3. k \in 1..(IF ones = {} THEN 0 ELSE Max(ones) - 1)
    <3>1. j \in Int /\ Max(ones) \in Int
      BY <1>0, <2>2
    <3> HIDE DEF ones
    <3> QED BY <1>0, <1>3, <2>1, <2>2, <3>1
  <2>4. r \in PointQueries(s)
    BY ONLY <2>3 DEF PointQueries
  <2> QED BY <2>4 DEF XYSelected
<1> QED BY <1>1, <1>2, <1>3

\* What is selected for s, with all that begins it.
LEMMA BeginningsAreSelected ==
    ASSUME NEW s \in Seq(Bit), NEW xy \in Seq(Bit), Len(s) <= XY_BITS, Len(xy) <= XY_BITS,
           XYSelected(xy, s), NEW j \in 0..Len(xy)
    PROVE  XYSelected(SubSeq(xy, 1, j), s)
<1>0. Len(s) \in Nat /\ Len(xy) \in Nat /\ XY_BITS \in Nat
  BY LenProperties, BitsAssumption
<1>1. CASE xy = <<>>
  <2>1. j = 0
    BY <1>1, EmptySeq
  <2> QED BY <2>1, SubSeqEmpty DEF XYSelected
<1>2. ASSUME NEW i \in 0..Len(s), xy = SubSeq(s, 1, i) PROVE XYSelected(SubSeq(xy, 1, j), s)
  <2>1. Len(xy) = i /\ j \in 0..i /\ j \in 0..Len(s)
    BY <1>0, <1>2, PrefixFacts
  <2>2. SubSeq(xy, 1, j) = SubSeq(s, 1, j)
    BY <1>2, <2>1, PrefixFacts
  <2> QED BY <2>1, <2>2, BeginningIsSelected
<1>3. CASE xy \in PointQueries(s)
  <2> DEFINE ones == {k \in DOMAIN s : s[k] = 1}
  <2>1. PICK i \in 1..(IF ones = {} THEN 0 ELSE Max(ones) - 1) : xy = SubSeq(s, 1, i)
    BY <1>3 DEF PointQueries
  <2>2. ones # {} => Max(ones) \in 1..Len(s)
    <3>1. ones \subseteq 1..Len(s)
      BY LenProperties
    <3> HIDE DEF ones
    <3> QED BY <1>0, <3>1, MaxFacts
  <2> HIDE DEF ones
  <2>3. i \in 0..Len(s)
    BY <1>0, <2>1, <2>2
  <2> QED BY <1>2, <2>1, <2>3
<1>4. CASE IsPrefix(xy, s)
  <2>1. Len(xy) \in 0..Len(s) /\ SubSeq(xy, 1, Len(xy)) = SubSeq(s, 1, Len(xy))
    BY <1>0, <1>4 DEF IsPrefix
  <2>2. xy = SubSeq(s, 1, Len(xy))
    BY <2>1, WholePrefix
  <2> QED BY <1>2, <2>1, <2>2
<1>5. CASE IsPrefix(s, xy)
  <2>1. Len(s) \in 0..Len(xy) /\ SubSeq(s, 1, Len(s)) = SubSeq(xy, 1, Len(s))
    BY <1>0, <1>5 DEF IsPrefix
  <2>2. SubSeq(xy, 1, j) \in Seq(Bit) /\ Len(SubSeq(xy, 1, j)) = j
    BY PrefixFacts
  <2>3. CASE j >= Len(s)
    <3>1. SubSeq(SubSeq(xy, 1, j), 1, Len(s)) = SubSeq(xy, 1, Len(s))
      BY <1>0, <2>3, PrefixFacts
    <3>2. IsPrefix(s, SubSeq(xy, 1, j))
      BY <2>1, <2>2, <2>3, <3>1 DEF IsPrefix
    <3> QED BY <2>2, <3>2, BegunIsSelected
  <2>4. CASE ~(j >= Len(s))
    <3>1. j \in 0..Len(s)
      BY <1>0, <2>4
    <3>2. /\ SubSeq(SubSeq(xy, 1, Len(s)), 1, j) = SubSeq(xy, 1, j)
          /\ SubSeq(s, 1, Len(s)) = s
      BY <2>1, <3>1, PrefixFacts, WholePrefix
    <3>3. SubSeq(xy, 1, j) = SubSeq(s, 1, j)
      BY <2>1, <3>2
    <3> QED BY <3>1, <3>3, BeginningIsSelected
  <2> QED BY <2>3, <2>4
<1>6. CASE MinInt(s) <= MinInt(xy) /\ MinInt(xy) <= MaxInt(s)
  <2>1. IsPrefix(s, xy) \/ IsPrefix(xy, s)
    BY <1>0, <1>6, BetweenIsRelated DEF MinInt, MaxInt
  <2> QED BY <1>4, <1>5, <2>1
<1> QED BY <1>1, <1>3, <1>6 DEF XYSelected

LEMMA AltitudeFacts ==
    ASSUME NEW z \in Seq(Bit)
    PROVE  /\ ZMin(z) \in Nat /\ ZMax(z) \in Nat /\ ZMin(z) < ZMax(z)
           /\ altitude_min(z) = ZMin(z) /\ altitude_max(z) = ZMax(z) - 1
           /\ \A k \in 0..Len(z) : /\ SubSeq(z, 1, k) \in Seq(Bit)
                                   /\ ZMin(SubSeq(z, 1, k)) <= ZMin(z)
                                   /\ ZMax(z) <= ZMax(SubSeq(z, 1, k))
<1>0. Len(z) \in 0..Len(z) /\ Z_BITS \in Nat /\ 0 \in Bit /\ 1 \in Bit
  BY LenProperties, BitsAssumption DEF Bit
<1>1. /\ Padded(z, Z_BITS, 0) \in Nat /\ Padded(z, Z_BITS, 1) \in Nat
      /\ Padded(z, Z_BITS, 0) <= Padded(z, Z_BITS, 1)
  BY <1>0, PaddedNested
<1>2. ASSUME NEW k \in 0..Len(z)
      PROVE  /\ SubSeq(z, 1, k) \in Seq(Bit)
             /\ ZMin(SubSeq(z, 1, k)) <= ZMin(z) /\ ZMax(z) <= ZMax(SubSeq(z, 1, k))
  <2>1. /\ Padded(SubSeq(z, 1, k), Z_BITS, 0) <= Padded(z, Z_BITS, 0)
        /\ Padded(z, Z_BITS, 1) <= Padded(SubSeq(z, 1, k), Z_BITS, 1)
        /\ Padded(SubSeq(z, 1, k), Z_BITS, 1) \in Nat
    BY <1>0, PaddedNested
  <2> QED BY <1>1, <2>1, PrefixFacts DEF ZMin, ZMax
<1>3. /\ ZMin(z) \in Nat /\ ZMax(z) \in Nat /\ ZMin(z) < ZMax(z)
      /\ altitude_min(z) = ZMin(z) /\ altitude_max(z) = ZMax(z) - 1
  BY <1>1 DEF ZMin, ZMax, altitude_min, altitude_max
<1> QED BY <1>2, <1>3

LEMMA SelectedCases ==
    ASSUME NEW q \in Queries, NEW p \in DOMAIN nodes
    PROVE  p \in Selected(q) <=> InAltitude(p.z, q) /\ \E s \in q.area : XYSelected(p.xy, s)
BY QueryFacts DEF Selected, XYSelected

\* What the client may ask for the server selects, unless it is at the edge.
LEMMA RelatedIsSelected ==
    ASSUME NEW q \in Queries, NoEdge(q), NEW p \in DOMAIN nodes, p \in Pairs,
           Related(p.xy, q), IntersectsAltitudeRange(p.z, q)
    PROVE  p \in Selected(q)
<1>0. p.xy \in Seq(Bit) /\ p.z \in Seq(Bit) /\ Len(p.xy) \in Nat
  BY PairFacts
<1>1. q.min \in Nat /\ q.max \in Nat /\ q.min <= q.max
  BY QueryFacts
<1>2. /\ ZMin(p.z) \in Nat /\ ZMax(p.z) \in Nat /\ ZMin(p.z) < ZMax(p.z)
      /\ altitude_min(p.z) = ZMin(p.z) /\ altitude_max(p.z) = ZMax(p.z) - 1
  BY <1>0, AltitudeFacts
<1>3. q.min <= ZMax(p.z) /\ q.max >= ZMin(p.z)
  BY DEF IntersectsAltitudeRange
<1>4. ZMin(p.z) # q.max
  <2>1. SUFFICES ASSUME ZMin(p.z) = q.max PROVE FALSE
    OBVIOUS
  <2>2. ZMin(p.z) <= q.max /\ q.min < ZMax(p.z)
    BY <1>1, <1>2, <2>1
  <2>3. Asked(p, q)
    BY <2>2 DEF Asked, Related
  <2> QED BY <2>1, <2>3 DEF NoEdge
<1>5. InAltitude(p.z, q)
  BY <1>1, <1>2, <1>3, <1>4 DEF InAltitude
<1>6. PICK s \in q.area : IsPrefix(s, p.xy) \/ IsPrefix(p.xy, s)
  BY DEF Related
<1>7. s \in Seq(Bit) /\ Len(s) \in Nat
  BY QueryFacts
<1>8. XYSelected(p.xy, s)
  <2>1. CASE IsPrefix(s, p.xy)
    BY <1>0, <1>7, <2>1, BegunIsSelected
  <2>2. CASE IsPrefix(p.xy, s)
    <3>1. Len(p.xy) \in 0..Len(s) /\ p.xy = SubSeq(s, 1, Len(p.xy))
      BY <1>0, <1>7, <2>2, WholePrefix DEF IsPrefix
    <3> QED BY <1>7, <3>1, BeginningIsSelected
  <2> QED BY <1>6, <2>1, <2>2
<1> QED BY <1>5, <1>8, SelectedCases

\* An ancestor has a beginning of either string.
LEMMA AncestorParts ==
    ASSUME NEW p \in Pairs, NEW a \in Ancestors(p)
    PROVE  \E j \in 0..Len(p.xy), k \in 0..Len(p.z) :
                a.xy = SubSeq(p.xy, 1, j) /\ a.z = SubSeq(p.z, 1, k)
<1>0. /\ Len(p.xy) \in Nat /\ Len(p.z) \in Nat /\ p.xy \in Seq(Bit) /\ p.z \in Seq(Bit)
      /\ SubSeq(p.xy, 1, 0) = <<>> /\ SubSeq(p.z, 1, 0) = <<>> /\ SubSeq(p.xy, 1, Len(p.xy)) = p.xy
      /\ 0 \in 0..Len(p.xy) /\ Len(p.xy) \in 0..Len(p.xy) /\ 0 \in 0..Len(p.z)
  BY PairFacts, SubSeqEmpty, WholePrefix
<1>1. CASE a = Root
  <2>1. a.xy = SubSeq(p.xy, 1, 0) /\ a.z = SubSeq(p.z, 1, 0)
    BY <1>0, <1>1 DEF Root
  <2> QED BY ONLY <1>0, <2>1, Zenon
<1>2. CASE \E k \in 0..Len(p.z) - 1 : a = [xy |-> p.xy, z |-> SubSeq(p.z, 1, k)]
  <2>1. PICK k \in 0..Len(p.z) - 1 : a = [xy |-> p.xy, z |-> SubSeq(p.z, 1, k)]
    BY <1>2
  <2>2. k \in 0..Len(p.z) /\ a.xy = SubSeq(p.xy, 1, Len(p.xy)) /\ a.z = SubSeq(p.z, 1, k)
    BY <1>0, <2>1
  <2> QED BY ONLY <1>0, <2>2, Zenon
<1>3. CASE \E k \in 0..Len(p.xy) - 1 : a = [xy |-> SubSeq(p.xy, 1, k), z |-> <<>>]
  <2>1. PICK k \in 0..Len(p.xy) - 1 : a = [xy |-> SubSeq(p.xy, 1, k), z |-> <<>>]
    BY <1>3
  <2>2. k \in 0..Len(p.xy) /\ a.xy = SubSeq(p.xy, 1, k) /\ a.z = SubSeq(p.z, 1, 0)
    BY <1>0, <2>1
  <2> QED BY ONLY <1>0, <2>2, Zenon
<1> QED BY AncestorCases, <1>1, <1>2, <1>3

\* With a node the server selects all nodes above it.
LEMMA SelectedClosed ==
    ASSUME Published, NEW q \in Queries, NEW p \in Selected(q), NEW a \in Ancestors(p)
    PROVE  a \in Selected(q)
<1>0. p \in DOMAIN nodes /\ p \in Pairs /\ a \in DOMAIN nodes
  <2>1. p \in DOMAIN nodes
    BY DEF Selected
  <2>2. DOMAIN WithoutHashes(nodes) = DOMAIN nodes /\ DOMAIN nodes \subseteq Pairs
    BY PublishedRows
  <2>3. Ancestors(p) \subseteq DOMAIN nodes
    BY <2>1, <2>2 DEF Published, PlainTree
  <2> QED BY <2>1, <2>2, <2>3
<1>1. PICK j \in 0..Len(p.xy), k \in 0..Len(p.z) :
            a.xy = SubSeq(p.xy, 1, j) /\ a.z = SubSeq(p.z, 1, k)
  BY <1>0, AncestorParts
<1>2. p.xy \in Seq(Bit) /\ Len(p.xy) \in 0..XY_BITS /\ p.z \in Seq(Bit)
  BY <1>0, PairFacts
<1>3. InAltitude(p.z, q) /\ \E s \in q.area : XYSelected(p.xy, s)
  BY <1>0, SelectedCases
<1>4. InAltitude(a.z, q)
  <2>1. /\ a.z \in Seq(Bit) /\ ZMin(a.z) <= ZMin(p.z) /\ ZMax(p.z) <= ZMax(a.z)
    BY <1>1, <1>2, AltitudeFacts
  <2>2. /\ ZMin(p.z) \in Nat /\ ZMax(p.z) \in Nat /\ ZMin(a.z) \in Nat /\ ZMax(a.z) \in Nat
        /\ altitude_min(p.z) = ZMin(p.z) /\ altitude_max(p.z) = ZMax(p.z) - 1
        /\ altitude_min(a.z) = ZMin(a.z) /\ altitude_max(a.z) = ZMax(a.z) - 1
    BY <1>2, <2>1, AltitudeFacts
  <2>3. q.min \in Nat /\ q.max \in Nat
    BY QueryFacts
  <2> QED BY <1>3, <2>1, <2>2, <2>3 DEF InAltitude
<1>5. \E s \in q.area : XYSelected(a.xy, s)
  <2>1. PICK s \in q.area : XYSelected(p.xy, s)
    BY <1>3
  <2>2. s \in Seq(Bit) /\ Len(s) <= XY_BITS /\ Len(p.xy) <= XY_BITS
    BY <1>2, QueryFacts, BitsAssumption
  <2>3. XYSelected(SubSeq(p.xy, 1, j), s)
    BY <1>2, <2>1, <2>2, BeginningsAreSelected
  <2> QED BY <1>1, <2>3
<1> QED BY <1>0, <1>4, <1>5, SelectedCases

\* The root is selected: it is refused only for a node at the edge.
LEMMA PaddedZeros == \A n \in Nat : Padded(<<>>, n, 0) = 0
<1> SUFFICES ASSUME NEW n \in Nat PROVE Padded(<<>>, n, 0) = 0
  OBVIOUS
<1>1. PICK V : Numbers(V, <<>>, 0, n) /\ Padded(<<>>, n, 0) = V[n]
  BY PaddedUnfolded
<1> DEFINE T == {m \in 0..n : V[m] = 0}
<1>2. 0 \in T
  <2>1. 0 \in 0..n
    OBVIOUS
  <2> QED BY <1>1, <2>1 DEF Numbers, NumberAt
<1>3. ASSUME NEW m \in 0..n - 1, m \in T PROVE m + 1 \in T
  <2>1. m + 1 \in 0..n /\ m + 1 # 0 /\ (m + 1) - 1 = m /\ V[m] = 0
    BY <1>3
  <2>2. V[m + 1] = NumberAt(V, <<>>, 0, m + 1)
    BY <1>1, <2>1 DEF Numbers
  <2>3. Digit(<<>>, 0, m + 1) = 0
    BY EmptySeq DEF Digit
  <2> QED BY <2>1, <2>2, <2>3 DEF NumberAt
<1> HIDE DEF T
<1>4. n \in T
  <2>1. n \in 0..n
    OBVIOUS
  <2> QED BY <1>2, <1>3, <2>1, Upwards
<1> QED BY <1>1, <1>4 DEF T

LEMMA RootIsSelected ==
    ASSUME Published, NEW q \in Queries, NoEdge(q)
    PROVE  Root \in Selected(q) /\ IntersectsAltitudeRange(<<>>, q)
<1>1. Root \in DOMAIN nodes /\ Root \in Pairs /\ Root.xy = <<>> /\ Root.z = <<>>
  BY PublishedRows, RootFacts DEF Root
<1>2. IntersectsAltitudeRange(<<>>, q)
  <2>1. ZMin(<<>>) = 0 /\ ZMax(<<>>) = C_Z + 1
    BY PaddedZeros, BitsAssumption DEF ZMin, ZMax, C_Z
  <2> QED BY <2>1, QueryFacts DEF IntersectsAltitudeRange
<1>3. Related(<<>>, q)
  <2>1. PICK s \in q.area : s \in Seq(Bit)
    BY QueryFacts
  <2>2. Len(<<>>) <= Len(s) /\ SubSeq(<<>>, 1, Len(<<>>)) = SubSeq(s, 1, Len(<<>>))
    <3>1. <<>> \in Seq(Bit) /\ Len(<<>>) = 0 /\ Len(s) \in Nat
      BY <2>1, EmptySeq, LenProperties
    <3>2. SubSeq(<<>>, 1, 0) = <<>> /\ SubSeq(s, 1, 0) = <<>>
      BY <2>1, <3>1, SubSeqEmpty
    <3> QED BY <3>1, <3>2
  <2> QED BY <2>2 DEF Related, IsPrefix
<1> QED BY <1>1, <1>2, <1>3, RelatedIsSelected
---------------------------------------------------------------------------
(* An honest answer *)

\* The answer's nodes, with all nodes above them.
Closed(S) ==
    /\ S \subseteq DOMAIN nodes
    /\ \A p \in S : Ancestors(p) \subseteq S

\* A child is linked exactly if it was sent; else its stored hash is there.
LEMMA ResponseChildren ==
    ASSUME NEW S \in SUBSET DOMAIN nodes, NEW p \in S, NEW s \in Sides
    PROVE  /\ Linked(Response(S), p, s) <=> HasSide(p, s) /\ Child(p, s) \in S
           /\ Response(S)[p].child[s] = IF ~HasSide(p, s) \/ Child(p, s) \in S THEN Null
                                        ELSE nodes[p].child[s]
<1>1. Response(S)[p].child[s] = IF ~HasSide(p, s) \/ Child(p, s) \in S THEN Null
                                ELSE nodes[p].child[s]
  BY DEF Response
<1>2. DOMAIN Response(S) = S
  BY ResponseRows
<1> QED BY <1>1, <1>2 DEF Linked

\* A child that is neither sent nor stored has no hash.
LEMMA NotStored ==
    ASSUME Published, NEW S \in SUBSET DOMAIN nodes, NEW p \in S, NEW s \in Sides,
           ~Linked(Response(S), p, s),
           HasSide(p, s) /\ Child(p, s) \in DOMAIN nodes => Child(p, s) \in S
    PROVE  Response(S)[p].child[s] = Null
<1> DEFINE t == WithoutHashes(nodes)
<1>1. nodes = Stored(t) /\ DOMAIN t = DOMAIN nodes
  BY PublishedRows DEF Published
<1>2. ~(HasSide(p, s) /\ Child(p, s) \in DOMAIN nodes) => nodes[p].child[s] = Null
  <2>1. p \in DOMAIN t
    BY <1>1
  <2> HIDE DEF t
  <2> QED BY <1>1, <2>1, StoredRows
<1> QED BY <1>2, ResponseChildren

\* Its nodes have the hashes they have in the table's tree.
LEMMA HonestHashes ==
    ASSUME Published, NEW S, Closed(S)
    PROVE  \A p \in S : Hash(Response(S))[p] = Hash(WithoutHashes(nodes))[p]
<1> DEFINE t == WithoutHashes(nodes)
           a == Response(S)
           M == XY_BITS + Z_BITS
           T == {n \in 0..M : \A p \in S : Depth(p) = n => Hash(a)[p] = Hash(t)[p]}
<1>0. /\ DOMAIN t = DOMAIN nodes /\ DOMAIN a = S /\ S \in SUBSET DOMAIN nodes
      /\ DOMAIN nodes \subseteq Pairs /\ M \in Nat /\ PlainTree(t) /\ nodes = Stored(t)
      /\ \A p \in S : a[p].certs = t[p].certs
  BY PublishedRows, ResponseRows, BitsAssumption DEF Published, Closed
<1> HIDE DEF t
<1>1. ASSUME NEW p \in S,
             \A s \in Sides : HasSide(p, s) /\ Child(p, s) \in S
                              => Hash(a)[Child(p, s)] = Hash(t)[Child(p, s)]
      PROVE  Hash(a)[p] = Hash(t)[p]
  <2>1. ASSUME NEW s \in Sides PROVE ChildHash(a, p, s) = ChildHash(t, p, s)
    <3>1. CASE HasSide(p, s) /\ Child(p, s) \in S
      <4>1. Linked(a, p, s)
        BY <1>0, <3>1, ResponseChildren
      <4>2. Child(p, s) \in DOMAIN t /\ p \in DOMAIN t
        BY <1>0, <3>1
      <4>3. ChildHash(t, p, s) = Hash(t)[Child(p, s)]
        BY <1>0, <3>1, <4>2, PlainChild
      <4>4. Hash(t)[Child(p, s)] # Null
        BY <1>0, <4>2, HashKinds
      <4>5. Hash(a)[Child(p, s)] = Hash(t)[Child(p, s)]
        BY <1>1, <3>1
      <4> QED BY <4>1, <4>3, <4>4, <4>5 DEF ChildHash, OrDefault
    <3>2. CASE HasSide(p, s) /\ Child(p, s) \notin S
      <4>1. ~Linked(a, p, s) /\ a[p].child[s] = nodes[p].child[s]
        BY <1>0, <3>2, ResponseChildren
      <4>2. OrDefault(nodes[p].child[s]) = ChildHash(t, p, s)
        BY <1>0, StoredChild
      <4> HIDE DEF a
      <4> QED BY <4>1, <4>2 DEF ChildHash
    <3>3. CASE ~HasSide(p, s)
      <4>1. ~Linked(a, p, s) /\ a[p].child[s] = Null
        BY <1>0, <3>3, ResponseChildren
      <4>2. ChildHash(t, p, s) = DEFAULT_HASH
        BY <1>0, <3>3, PlainChild
      <4> HIDE DEF a
      <4> QED BY <4>1, <4>2 DEF ChildHash, OrDefault
    <3> QED BY <3>1, <3>2, <3>3
  <2> HIDE DEF a
  <2>2. /\ Hash(a)[p] = HashAt(Hash(a), a, p) /\ Hash(t)[p] = HashAt(Hash(t), t, p)
        /\ a[p].certs = t[p].certs
    BY <1>0, HashUnfolded
  <2>3. CASE Leaf(p)
    BY <2>2, <2>3 DEF HashAt
  <2>4. CASE ~Leaf(p)
    <3>1. HashAt(Hash(a), a, p)
            = [kind |-> "node", children |-> [s \in Sides |-> ChildHash(a, p, s)],
               certs |-> a[p].certs]
      BY <2>4 DEF HashAt, NodeHash, ChildHash
    <3>2. HashAt(Hash(t), t, p)
            = [kind |-> "node", children |-> [s \in Sides |-> ChildHash(t, p, s)],
               certs |-> t[p].certs]
      BY <2>4 DEF HashAt, NodeHash, ChildHash
    <3>3. [s \in Sides |-> ChildHash(a, p, s)] = [s \in Sides |-> ChildHash(t, p, s)]
      BY <2>1
    <3> QED BY ONLY <2>2, <3>1, <3>2, <3>3
  <2> QED BY <2>3, <2>4
<1>2. M \in T
  <2>1. SUFFICES ASSUME NEW p \in S, Depth(p) = M PROVE Hash(a)[p] = Hash(t)[p]
    BY <1>0
  <2>2. ASSUME NEW s \in Sides, HasSide(p, s), Child(p, s) \in S PROVE FALSE
    <3>1. p \in Pairs /\ Child(p, s) \in Pairs
      BY <1>0, <2>2
    <3>2. Depth(Child(p, s)) = Depth(p) + 1 /\ Depth(Child(p, s)) \in 0..M
      BY <2>2, <3>1, ChildFacts, DepthBound
    <3> QED BY <1>0, <2>1, <3>2
  <2> HIDE DEF a
  <2> QED BY <1>1, <2>2
<1>3. ASSUME NEW n \in 0..M - 1, n + 1 \in T PROVE n \in T
  <2>0. n \in 0..M /\ n + 1 \in 0..M
    BY <1>0
  <2>1. SUFFICES ASSUME NEW p \in S, Depth(p) = n PROVE Hash(a)[p] = Hash(t)[p]
    BY <2>0
  <2>2. ASSUME NEW s \in Sides, HasSide(p, s), Child(p, s) \in S
        PROVE  Hash(a)[Child(p, s)] = Hash(t)[Child(p, s)]
    <3>1. p \in Pairs /\ Child(p, s) \in Pairs
      BY <1>0, <2>2
    <3>2. Depth(Child(p, s)) = n + 1
      BY <2>1, <2>2, <3>1, ChildFacts
    <3> QED BY <1>3, <2>2, <3>2
  <2> HIDE DEF a
  <2> QED BY <1>1, <2>2
<1> HIDE DEF T
<1>4. 0..M \subseteq T
  BY <1>0, <1>2, <1>3, Downwards
<1> QED BY <1>0, <1>4, DepthBound DEF T, t

\* From an ancestor there is a step towards a node.
LEMMA StepTowards ==
    ASSUME NEW p \in Pairs, NEW q \in Ancestors(p), q # p
    PROVE  \E s \in Sides : HasSide(q, s) /\ Child(q, s) \in Ancestors(p) \cup {p}
<1>0. /\ Len(p.xy) \in Nat /\ Len(p.z) \in Nat /\ p.xy \in Seq(Bit) /\ p.z \in Seq(Bit)
  BY PairFacts
<1>1. ASSUME NEW k \in 0..Len(p.z) - 1, q = ZAbove(p, k)
      PROVE  \E s \in Sides : HasSide(q, s) /\ Child(q, s) \in Ancestors(p) \cup {p}
  <2>1. k + 1 \in 0..Len(p.z)
    BY <1>0
  <2>2. ZSide(p.z[k + 1]) \in Sides
    BY ZWayDown DEF Sides
  <2>3. /\ HasSide(q, ZSide(p.z[k + 1]))
        /\ Child(q, ZSide(p.z[k + 1])) \in Ancestors(p) \cup {p}
    BY <1>1, <2>1, ZWayDown, WaysDown
  <2> QED BY <2>2, <2>3
<1>2. ASSUME NEW k \in 0..Len(p.xy) - 1, q = XYAbove(p, k)
      PROVE  \E s \in Sides : HasSide(q, s) /\ Child(q, s) \in Ancestors(p) \cup {p}
  <2>1. k + 1 \in 0..Len(p.xy)
    BY <1>0
  <2>2. XYSide(p.xy[k + 1]) \in Sides
    BY XYWayDown DEF Sides
  <2>3. /\ HasSide(q, XYSide(p.xy[k + 1]))
        /\ Child(q, XYSide(p.xy[k + 1])) \in Ancestors(p) \cup {p}
    BY <1>2, <2>1, XYWayDown, WaysDown
  <2> QED BY <2>2, <2>3
<1>3. CASE q = Root
  <2>1. p.xy # <<>>
    BY <1>3, PairFacts
  <2>2. Len(p.xy) # 0
    BY <1>0, <2>1, EmptySeq
  <2>3. 0 \in 0..Len(p.xy) - 1
    BY <1>0, <2>2
  <2>4. q = XYAbove(p, 0)
    BY <1>3, WaysDown
  <2> QED BY <1>2, <2>3, <2>4
<1>4. CASE \E k \in 0..Len(p.z) - 1 : q = [xy |-> p.xy, z |-> SubSeq(p.z, 1, k)]
  BY <1>1, <1>4 DEF ZAbove
<1>5. CASE \E k \in 0..Len(p.xy) - 1 : q = [xy |-> SubSeq(p.xy, 1, k), z |-> <<>>]
  BY <1>2, <1>5 DEF XYAbove
<1> QED BY AncestorCases, <1>3, <1>4, <1>5

\* All its nodes are in the tree that the client builds.
LEMMA HonestInTree ==
    ASSUME Published, NEW S, Closed(S)
    PROVE  InTree(Response(S)) = S
<1> DEFINE a == Response(S)
<1>0. DOMAIN a = S /\ S \in SUBSET DOMAIN nodes /\ DOMAIN nodes \subseteq Pairs
  BY PublishedRows, ResponseRows DEF Closed
<1>1. ASSUME NEW p \in S, NEW q \in Ancestors(p) \ {p}
      PROVE  q \in S /\ \E s \in Sides : Linked(a, q, s) /\ Child(q, s) \in Ancestors(p) \cup {p}
  <2>1. q \in S
    BY DEF Closed
  <2>2. PICK s \in Sides : HasSide(q, s) /\ Child(q, s) \in Ancestors(p) \cup {p}
    BY <1>0, StepTowards
  <2>3. Child(q, s) \in S
    BY <2>2 DEF Closed
  <2>4. Linked(a, q, s)
    BY <1>0, <2>1, <2>2, <2>3, ResponseChildren
  <2> QED BY <2>1, <2>2, <2>4
<1> HIDE DEF a
<1>2. InTree(a) = S
  BY <1>0, <1>1 DEF InTree
<1> QED BY <1>2 DEF a

LEMMA SelectionClosed ==
    ASSUME Published, NEW q \in Queries
    PROVE  Closed(Selected(q))
<1>1. Selected(q) \subseteq DOMAIN nodes
  BY DEF Selected
<1> QED BY <1>1, SelectedClosed DEF Closed

\* A child in the volume that is stored is sent.
LEMMA ChildIsSelected ==
    ASSUME Published, NEW q \in Queries, NoEdge(q), NEW c \in DOMAIN nodes,
           Related(c.xy, q), IntersectsAltitudeRange(c.z, q)
    PROVE  c \in Selected(q)
<1>1. c \in Pairs
  BY PublishedRows
<1> QED BY <1>1, RelatedIsSelected

LEMMA HonestZComplete ==
    ASSUME Published, NEW q \in Queries, NoEdge(q), NEW r \in Selected(q), Related(r.xy, q)
    PROVE  IsZComplete(Response(Selected(q)), q)[r]
<1> DEFINE S == Selected(q)
           a == Response(S)
           Z == IsZComplete(a, q)
           M == XY_BITS + Z_BITS
           T == {n \in 0..M : \A p \in S : Depth(p) = n /\ Related(p.xy, q) => Z[p]}
<1>0. /\ DOMAIN a = S /\ S \in SUBSET DOMAIN nodes /\ DOMAIN nodes \subseteq Pairs /\ M \in Nat
  BY PublishedRows, ResponseRows, SelectionClosed, BitsAssumption DEF Closed
<1>1. ASSUME NEW p \in S, Related(p.xy, q),
             \A s \in ZSides : Child(p, s) \in S => Z[Child(p, s)]
      PROVE  Z[p]
  <2>1. ASSUME NEW s \in ZSides, IntersectsAltitudeRange(Child(p, s).z, q)
        PROVE  IF Linked(a, p, s) THEN Z[Child(p, s)] ELSE a[p].child[s] = Null
    <3>1. s \in Sides /\ Child(p, s).xy = p.xy
      BY DEF Sides, ZSides, XYSides, Child
    <3>2. Child(p, s) \in DOMAIN nodes => Child(p, s) \in S
      BY <1>1, <2>1, <3>1, ChildIsSelected
    <3>3. CASE Linked(a, p, s)
      <4>1. Child(p, s) \in S
        BY <1>0, <3>3 DEF Linked
      <4> QED BY <1>1, <3>3, <4>1
    <3>4. CASE ~Linked(a, p, s)
      BY <1>0, <3>1, <3>2, <3>4, NotStored
    <3> QED BY <3>3, <3>4
  <2> HIDE DEF a, S
  <2>2. ZCompleteAt(Z, a, q, p)
    BY <2>1 DEF ZCompleteAt
  <2>3. Z[p] = ZCompleteAt(Z, a, q, p)
    BY <1>0, ZCompleteNode
  <2> QED BY <2>2, <2>3
<1> HIDE DEF Z
<1>2. M \in T
  <2>1. SUFFICES ASSUME NEW p \in S, Depth(p) = M, Related(p.xy, q) PROVE Z[p]
    BY <1>0
  <2>2. ASSUME NEW s \in ZSides, Child(p, s) \in S PROVE FALSE
    <3>1. p \in Pairs /\ Child(p, s) \in Pairs /\ HasSide(p, s) /\ s \in Sides
      BY <1>0, <2>2 DEF HasSide, ZSides, XYSides, Sides
    <3>2. Depth(Child(p, s)) = Depth(p) + 1 /\ Depth(Child(p, s)) \in 0..M
      BY <2>2, <3>1, ChildFacts, DepthBound
    <3> QED BY <1>0, <2>1, <3>2
  <2> HIDE DEF S
  <2> QED BY <1>1, <2>1, <2>2
<1>3. ASSUME NEW n \in 0..M - 1, n + 1 \in T PROVE n \in T
  <2>0. n \in 0..M /\ n + 1 \in 0..M
    BY <1>0
  <2>1. SUFFICES ASSUME NEW p \in S, Depth(p) = n, Related(p.xy, q) PROVE Z[p]
    BY <2>0
  <2>2. ASSUME NEW s \in ZSides, Child(p, s) \in S PROVE Z[Child(p, s)]
    <3>1. p \in Pairs /\ Child(p, s) \in Pairs /\ HasSide(p, s) /\ s \in Sides /\ Child(p, s).xy = p.xy
      BY <1>0, <2>2 DEF HasSide, ZSides, XYSides, Sides, Child
    <3>2. Depth(Child(p, s)) = n + 1
      BY <2>1, <2>2, <3>1, ChildFacts
    <3> QED BY <1>3, <2>1, <2>2, <3>1, <3>2
  <2> HIDE DEF S
  <2> QED BY <1>1, <2>1, <2>2
<1> HIDE DEF T
<1>4. 0..M \subseteq T
  BY <1>0, <1>2, <1>3, Downwards
<1> QED BY <1>0, <1>4, DepthBound DEF T, Z

\* Whole subtrees of the area.
Below(xy, q) == \E s \in q.area : IsPrefix(s, xy)

LEMMA BelowFacts ==
    ASSUME NEW q \in Queries, NEW xy \in Seq(Bit), Below(xy, q), NEW b \in Bit
    PROVE  Below(Append(xy, b), q) /\ Related(xy, q)
<1>1. PICK s \in q.area : IsPrefix(s, xy) /\ s \in Seq(Bit)
  BY QueryFacts DEF Below
<1>2. /\ Len(s) \in Nat /\ Len(xy) \in Nat /\ Len(s) <= Len(xy)
      /\ SubSeq(s, 1, Len(s)) = SubSeq(xy, 1, Len(s))
  BY <1>1, LenProperties DEF IsPrefix
<1>3. Append(xy, b) \in Seq(Bit) /\ Len(Append(xy, b)) = Len(xy) + 1
      /\ \A i \in 1..Len(xy) : Append(xy, b)[i] = xy[i]
  OBVIOUS
<1>4. SubSeq(Append(xy, b), 1, Len(s)) = SubSeq(xy, 1, Len(s))
  <2>1. /\ SubSeq(Append(xy, b), 1, Len(s)) \in Seq(Bit) /\ Len(SubSeq(Append(xy, b), 1, Len(s))) = Len(s)
        /\ SubSeq(xy, 1, Len(s)) \in Seq(Bit) /\ Len(SubSeq(xy, 1, Len(s))) = Len(s)
    <3>1. Len(s) \in 0..Len(xy) /\ Len(s) \in 0..Len(Append(xy, b))
      BY <1>2, <1>3
    <3> QED BY <1>3, <3>1, PrefixFacts
  <2>2. \A i \in 1..Len(s) : /\ SubSeq(Append(xy, b), 1, Len(s))[i] = Append(xy, b)[i]
                             /\ SubSeq(xy, 1, Len(s))[i] = xy[i]
    BY <1>2, <1>3, <2>1
  <2>3. \A i \in 1..Len(s) : SubSeq(Append(xy, b), 1, Len(s))[i] = SubSeq(xy, 1, Len(s))[i]
    BY <1>2, <1>3, <2>2
  <2> QED BY <2>1, <2>3, SeqEqual
<1>5. IsPrefix(s, Append(xy, b))
  BY <1>2, <1>3, <1>4 DEF IsPrefix
<1> QED BY <1>1, <1>5 DEF Below, Related

LEMMA HonestComplete ==
    ASSUME Published, NEW q \in Queries, NoEdge(q),
           NEW r \in Selected(q), r.z = <<>>, Below(r.xy, q)
    PROVE  IsComplete(Response(Selected(q)), q)[r]
<1> DEFINE S == Selected(q)
           a == Response(S)
           C == IsComplete(a, q)
           M == XY_BITS + Z_BITS
           T == {n \in 0..M : \A p \in S : Depth(p) = n /\ p.z = <<>> /\ Below(p.xy, q) => C[p]}
<1>0. /\ DOMAIN a = S /\ S \in SUBSET DOMAIN nodes /\ DOMAIN nodes \subseteq Pairs /\ M \in Nat
  BY PublishedRows, ResponseRows, SelectionClosed, BitsAssumption DEF Closed
<1>x. ASSUME NEW p \in S, p.z = <<>>, Below(p.xy, q), NEW s \in XYSides
      PROVE  Child(p, s).z = <<>> /\ Below(Child(p, s).xy, q) /\ Related(Child(p, s).xy, q)
             /\ HasSide(p, s) /\ s \in Sides
  <2>1. p.xy \in Seq(Bit) /\ SideBit(s) \in Bit /\ 0 \in Bit
    BY <1>0, PairFacts DEF SideBit, Bit
  <2>2. Child(p, s).z = <<>> /\ Child(p, s).xy = Append(p.xy, SideBit(s))
    BY <1>x DEF Child
  <2>3. Below(Append(p.xy, SideBit(s)), q)
    BY <1>x, <2>1, BelowFacts
  <2>4. Related(Append(p.xy, SideBit(s)), q)
    <3>1. Append(p.xy, SideBit(s)) \in Seq(Bit)
      BY <2>1
    <3> QED BY <2>1, <2>3, <3>1, BelowFacts
  <2> QED BY <1>x, <2>2, <2>3, <2>4 DEF HasSide, Sides
<1>1. ASSUME NEW p \in S, p.z = <<>>, Below(p.xy, q),
             \A s \in XYSides : Child(p, s) \in S => C[Child(p, s)]
      PROVE  C[p]
  <2>1. ASSUME NEW s \in XYSides
        PROVE  IF Linked(a, p, s) THEN C[Child(p, s)] ELSE a[p].child[s] = Null
    <3>1. /\ Child(p, s).z = <<>> /\ Related(Child(p, s).xy, q) /\ s \in Sides
      BY <1>1, <1>x
    <3>2. Child(p, s) \in DOMAIN nodes => Child(p, s) \in S
      BY <3>1, ChildIsSelected, RootIsSelected
    <3>3. CASE Linked(a, p, s)
      <4>1. Child(p, s) \in S
        BY <1>0, <3>3 DEF Linked
      <4> QED BY <1>1, <3>3, <4>1
    <3>4. CASE ~Linked(a, p, s)
      BY <1>0, <3>1, <3>2, <3>4, NotStored
    <3> QED BY <3>3, <3>4
  <2>2. ASSUME NEW s \in ZSides
        PROVE  IF Linked(a, p, s) THEN IsZComplete(a, q)[Child(p, s)]
               ELSE a[p].child[s] = Null \/ ~IntersectsAltitudeRange(Child(p, s).z, q)
    <3>1. s \in Sides /\ Child(p, s).xy = p.xy
      BY DEF Sides, ZSides, XYSides, Child
    <3>2. Related(p.xy, q)
      BY <1>0, <1>1, PairFacts, BelowFacts DEF Bit
    <3>3. CASE Linked(a, p, s)
      <4>1. Child(p, s) \in S
        BY <1>0, <3>3 DEF Linked
      <4> QED BY <3>1, <3>2, <3>3, <4>1, HonestZComplete
    <3>4. CASE ~Linked(a, p, s) /\ IntersectsAltitudeRange(Child(p, s).z, q)
      <4>1. Child(p, s) \in DOMAIN nodes => Child(p, s) \in S
        BY <3>1, <3>2, <3>4, ChildIsSelected
      <4> QED BY <1>0, <3>1, <3>4, <4>1, NotStored
    <3> QED BY <3>3, <3>4
  <2> HIDE DEF a, S
  <2>3. CompleteAt(C, a, q, p)
    BY <2>1, <2>2 DEF CompleteAt
  <2>4. C[p] = CompleteAt(C, a, q, p)
    BY <1>0, CompleteNode
  <2> QED BY <2>3, <2>4
<1> HIDE DEF C
<1>2. M \in T
  <2>1. SUFFICES ASSUME NEW p \in S, Depth(p) = M, p.z = <<>>, Below(p.xy, q) PROVE C[p]
    BY <1>0
  <2>2. ASSUME NEW s \in XYSides, Child(p, s) \in S PROVE FALSE
    <3>1. p \in Pairs /\ Child(p, s) \in Pairs /\ HasSide(p, s) /\ s \in Sides
      BY <1>0, <1>x, <2>1, <2>2
    <3>2. Depth(Child(p, s)) = Depth(p) + 1 /\ Depth(Child(p, s)) \in 0..M
      BY <2>2, <3>1, ChildFacts, DepthBound
    <3> QED BY <1>0, <2>1, <3>2
  <2> HIDE DEF S
  <2> QED BY <1>1, <2>1, <2>2
<1>3. ASSUME NEW n \in 0..M - 1, n + 1 \in T PROVE n \in T
  <2>0. n \in 0..M /\ n + 1 \in 0..M
    BY <1>0
  <2>1. SUFFICES ASSUME NEW p \in S, Depth(p) = n, p.z = <<>>, Below(p.xy, q) PROVE C[p]
    BY <2>0
  <2>2. ASSUME NEW s \in XYSides, Child(p, s) \in S PROVE C[Child(p, s)]
    <3>1. /\ p \in Pairs /\ Child(p, s) \in Pairs /\ HasSide(p, s) /\ s \in Sides
          /\ Child(p, s).z = <<>> /\ Below(Child(p, s).xy, q)
      BY <1>0, <1>x, <2>1, <2>2
    <3>2. Depth(Child(p, s)) = n + 1
      BY <2>1, <2>2, <3>1, ChildFacts
    <3> QED BY <1>3, <2>2, <3>1, <3>2
  <2> HIDE DEF S
  <2> QED BY <1>1, <2>1, <2>2
<1> HIDE DEF T
<1>4. 0..M \subseteq T
  BY <1>0, <1>2, <1>3, Downwards
<1> QED BY <1>0, <1>4, DepthBound DEF T, C

LEMMA HonestPath ==
    ASSUME Published, NEW q \in Queries, NoEdge(q), NEW xy \in q.area
    PROVE  PathIsComplete(Response(Selected(q)), xy, q)
<1> DEFINE S == Selected(q)
           a == Response(S)
           m == Len(xy)
           r(k) == [xy |-> SubSeq(xy, 1, k), z |-> <<>>]
<1>0. /\ DOMAIN a = S /\ S \in SUBSET DOMAIN nodes /\ DOMAIN nodes \subseteq Pairs
      /\ xy \in Seq(Bit) /\ m \in Nat
  BY PublishedRows, ResponseRows, SelectionClosed, QueryFacts DEF Closed
<1>1. PICK P : Paths(P, a, xy, q) /\ PathIsComplete(a, xy, q) = P[0]
  BY <1>0, PathUnfolded
<1>2. \A k \in 0..m : P[k] = PathAt(P, a, xy, q, k)
  BY <1>1 DEF Paths
<1> DEFINE T == {k \in 0..m : r(k) \in S => P[k]}
<1>3. m \in T
  <2>0. m \in 0..m /\ SubSeq(xy, 1, m) = xy
    BY <1>0, WholePrefix
  <2>1. SUFFICES ASSUME r(m) \in S PROVE P[m]
    BY <2>0
  <2>2. Below(xy, q)
    <3>1. IsPrefix(xy, xy)
      BY <1>0 DEF IsPrefix
    <3> QED BY <3>1 DEF Below
  <2>3. IsComplete(a, q)[r(m)]
    <3>1. r(m).z = <<>> /\ r(m).xy = xy
      BY <2>0
    <3> HIDE DEF r, m
    <3> QED BY <2>1, <2>2, <3>1, HonestComplete
  <2>4. PathAt(P, a, xy, q, m)
    BY ONLY <2>3 DEF PathAt
  <2> QED BY <1>2, <2>0, <2>4
<1>4. ASSUME NEW k \in 0..m - 1, k + 1 \in T PROVE k \in T
  <2> DEFINE s == XYSide(xy[k + 1])
  <2>0. k \in 0..m /\ k + 1 \in 0..m /\ k # m /\ k \in 0..Len(xy) - 1
    BY <1>0
  <2>1. SUFFICES ASSUME r(k) \in S PROVE P[k]
    BY <2>0
  <2>2. ASSUME NEW j \in 0..m PROVE Related(SubSeq(xy, 1, j), q)
    <3>1. Len(SubSeq(xy, 1, j)) = j /\ SubSeq(xy, 1, j) \in Seq(Bit)
      BY <1>0, PrefixFacts
    <3>2. SubSeq(SubSeq(xy, 1, j), 1, j) = SubSeq(xy, 1, j)
      BY <3>1, WholePrefix
    <3>3. IsPrefix(SubSeq(xy, 1, j), xy)
      BY <1>0, <3>1, <3>2 DEF IsPrefix
    <3> QED BY <3>3 DEF Related
  <2>3. IsZComplete(a, q)[r(k)]
    <3>1. Related(r(k).xy, q)
      BY <2>0, <2>2
    <3> HIDE DEF r
    <3> QED BY <2>1, <3>1, HonestZComplete
  <2>4. s \in XYSides /\ s \in Sides /\ HasSide(r(k), s) /\ Child(r(k), s) = r(k + 1)
    <3>1. xy[k + 1] \in Bit /\ SubSeq(xy, 1, k + 1) = Append(SubSeq(xy, 1, k), xy[k + 1])
      BY <1>0, <2>0, PrefixStep
    <3>2. s \in XYSides /\ SideBit(s) = xy[k + 1]
      BY <3>1 DEF XYSide, XYSides, SideBit, Bit
    <3>3. Child(r(k), s) = [xy |-> Append(SubSeq(xy, 1, k), xy[k + 1]), z |-> <<>>]
      BY ONLY <3>2 DEF Child
    <3> QED BY <3>1, <3>2, <3>3 DEF HasSide, Sides
  <2>5. IF Linked(a, r(k), s) THEN P[k + 1] ELSE a[r(k)].child[s] = Null
    <3>1. CASE Linked(a, r(k), s)
      <4>1. r(k + 1) \in S
        BY <1>0, <2>4, <3>1 DEF Linked
      <4> QED BY <1>4, <3>1, <4>1
    <3>2. CASE ~Linked(a, r(k), s)
      <4>1. r(k + 1) \in DOMAIN nodes => r(k + 1) \in S
        <5>1. r(k + 1).z = <<>> /\ Related(r(k + 1).xy, q)
          BY <2>0, <2>2
        <5> HIDE DEF r
        <5> QED BY <5>1, ChildIsSelected, RootIsSelected
      <4> HIDE DEF r, s
      <4> QED BY <1>0, <2>1, <2>4, <3>2, <4>1, NotStored
    <3> QED BY <3>1, <3>2
  <2>6. PathAt(P, a, xy, q, k)
    <3> HIDE DEF a
    <3> QED BY ONLY <2>0, <2>3, <2>5, Zenon DEF PathAt
  <2> QED BY <1>2, <2>0, <2>6
<1>5. 0 \in T
  <2>1. 0 \in 0..m
    BY <1>0
  <2> HIDE DEF T
  <2> QED BY <1>0, <1>3, <1>4, <2>1, Downwards
<1>6. r(0) \in S
  <2>1. SubSeq(xy, 1, 0) = <<>>
    BY <1>0, SubSeqEmpty
  <2>2. r(0) = Root
    BY <2>1 DEF Root
  <2> QED BY <2>2, RootIsSelected
<1> QED BY <1>1, <1>5, <1>6

\* The client accepts what an honest server sends, away from the edge.
LEMMA HonestIsVerified ==
    ASSUME Published, NEW q \in Queries, NoEdge(q)
    PROVE  Root \in Selected(q) /\ Verified(Response(Selected(q)), q)
<1> DEFINE S == Selected(q)
           a == Response(S)
           t == WithoutHashes(nodes)
<1>0. Closed(S) /\ Root \in S /\ DOMAIN a = S
  BY SelectionClosed, RootIsSelected, ResponseRows DEF Closed
<1>1. InTree(a) = DOMAIN a
  BY <1>0, HonestInTree
<1>2. Hash(a)[Root] = QueryRootHash(nodes)
  <2>1. Hash(a)[Root] = Hash(t)[Root]
    BY <1>0, HonestHashes
  <2>2. PlainTree(t) /\ nodes = Stored(t)
    BY DEF Published
  <2>3. QueryRootHash(Stored(t)) = Hash(t)[Root]
    BY <2>2, SignedRoot
  <2> HIDE DEF t, a
  <2> QED BY <2>1, <2>2, <2>3
<1>3. \A xy \in q.area : PathIsComplete(a, xy, q)
  BY HonestPath
<1> HIDE DEF a
<1>4. Verified(a, q)
  BY <1>0, <1>1, <1>2, <1>3 DEF Verified
<1> QED BY <1>0, <1>4 DEF a

\* What has happened to an answer that nobody damaged.
HonestInv ==
    /\ QueryInv
    /\ query = NoQuery => verdict = "none"
    /\ ~damaged /\ query # NoQuery =>
            IF verdict = "refused" THEN Root \notin Selected(query)
            ELSE answer = Response(Selected(query))
    /\ verdict = "rejected" => ~Verified(answer, query)

LEMMA InitHonestInv == Init => HonestInv
BY InitQueryInv DEF Init, HonestInv

LEMMA NextHonestInv == HonestInv /\ [Next]_vars => HonestInv'
<1> SUFFICES ASSUME HonestInv, [Next]_vars PROVE HonestInv'
  OBVIOUS
<1>0. nodes' = nodes /\ QueryInv'
  BY NextQueryInv DEF HonestInv, Next, PostQuery, LoseNode, MixVersions, VerifyResponse, vars
<1>n. NoQuery \notin Queries
  BY QueryAssumption DEF Queries, NoQuery
<1>1. ASSUME NEW q \in Queries, NEW p \in DOMAIN nodes, NEW missing \in {{}, {p}},
             PostQuery(q, missing)
      PROVE  HonestInv'
  <2>1. /\ query = NoQuery /\ query' = q /\ damaged' = (missing # {})
        /\ verdict = "none" /\ query' # NoQuery
    BY <1>n, <1>1 DEF PostQuery, HonestInv
  <2>2. verdict' \in {"none", "refused"}
    BY <1>1, <2>1 DEF PostQuery
  <2>3. ASSUME ~damaged'
        PROVE IF verdict' = "refused" THEN Root \notin Selected(q)
              ELSE answer' = Response(Selected(q))
    <3>1. Selected(q) \ missing = Selected(q)
      BY <2>1, <2>3
    <3> QED BY <1>1, <2>1, <3>1 DEF PostQuery
  <2>4. Selected(q)' = Selected(q) /\ Response(Selected(q))' = Response(Selected(q))
    BY <1>0 DEF Selected, Response
  <2>5. Selected(query)' = Selected(q)
    BY <1>0, <2>1 DEF Selected
  <2>6. Response(Selected(query))' = Response(Selected(q))
    BY <1>0, <2>5 DEF Response
  <2> QED BY <1>0, <2>1, <2>2, <2>3, <2>5, <2>6 DEF HonestInv
<1>2. ASSUME LoseNode PROVE HonestInv'
  <2>1. damaged' = TRUE /\ query' = query /\ verdict' = "none"
    BY <1>2 DEF LoseNode
  <2> QED BY <1>0, <2>1 DEF HonestInv
<1>s. ASSUME query' = query
      PROVE  Selected(query)' = Selected(query)
             /\ Response(Selected(query))' = Response(Selected(query))
  <2>1. Selected(query)' = Selected(query)
    BY <1>0, <1>s DEF Selected
  <2> QED BY <1>0, <2>1 DEF Response
<1>3. ASSUME MixVersions PROVE HonestInv'
  <2>1. /\ damaged' = (answer' # answer) /\ query' = query /\ verdict' = verdict
        /\ verdict = "none" /\ ~damaged
    BY <1>3 DEF MixVersions
  <2>2. ~damaged' => answer' = answer
    BY <2>1
  <2> QED BY <1>0, <1>s, <2>1, <2>2 DEF HonestInv
<1>4. ASSUME VerifyResponse PROVE HonestInv'
  <2>1. /\ query' = query /\ answer' = answer /\ damaged' = damaged
        /\ verdict = "none" /\ query # NoQuery
        /\ verdict' = IF Verified(answer, query) THEN "accepted" ELSE "rejected"
    BY <1>4 DEF VerifyResponse
  <2>2. Verified(answer, query)' <=> Verified(answer, query)
    BY <1>0, <2>1 DEF Verified
  <2>3. verdict' # "refused"
    BY <2>1
  <2>4. verdict' = "rejected" => ~Verified(answer, query)'
    BY <2>1, <2>2
  <2>5. ~damaged => answer = Response(Selected(query))
    BY <2>1 DEF HonestInv
  <2> QED BY <1>0, <1>s, <2>1, <2>3, <2>4, <2>5 DEF HonestInv
<1>5. CASE UNCHANGED vars
  <2>1. /\ query' = query /\ answer' = answer /\ damaged' = damaged /\ verdict' = verdict
    BY <1>5 DEF vars
  <2>2. Verified(answer, query)' <=> Verified(answer, query)
    BY <1>0, <2>1 DEF Verified
  <2> QED BY <1>0, <1>s, <2>1, <2>2 DEF HonestInv
<1> QED BY <1>1, <1>2, <1>3, <1>4, <1>5 DEF Next

\* Whatever the tree and the query, the only honest answers that are turned
\* down are those to which a node at the upper edge of the query belongs.
THEOREM HonestAnswersAreAccepted == Spec => []HonestIsAcceptedBelowEdge
<1>1. ASSUME HonestInv PROVE HonestIsAcceptedBelowEdge
  <2>1. SUFFICES ASSUME verdict \in {"rejected", "refused"}, ~damaged, NoEdge(query) PROVE FALSE
    BY DEF HonestIsAcceptedBelowEdge, NoEdge
  <2>2. query # NoQuery /\ query \in Queries /\ Published
    BY <1>1, <2>1 DEF HonestInv, QueryInv, TypeOK
  <2>3. Root \in Selected(query) /\ Verified(Response(Selected(query)), query)
    BY <2>1, <2>2, HonestIsVerified
  <2> QED BY <1>1, <2>1, <2>2, <2>3 DEF HonestInv
<1> QED BY <1>1, InitHonestInv, NextHonestInv, PTL DEF Spec
=============================================================================
