----------------------------- MODULE MapQuery -----------------------------
(***************************************************************************)
(* One query for a volume of space: the rows the server selects            *)
(* (pkg/database/query.go), the answer it makes of them, and the client's  *)
(* verification (pkg/crypto/verification.go and node.go).  The answer may  *)
(* be damaged on the way: a node is missing from the server's rows or from *)
(* the answer, or it is that of another version of the map.                *)
(***************************************************************************)
EXTENDS SmtNodes, AltitudeRanges, FiniteSets

CONSTANTS
    MaxListed,   \* bound on the number of rows besides the ancestors' rows
    Places,      \* where these rows may be
    Areas,       \* the sets of xy strings that clients query
    Damage       \* what may happen to an answer

ASSUME QueryAssumption ==
    /\ MaxListed \in Nat
    /\ Places \subseteq Pairs
    /\ Areas \subseteq (SUBSET BitStringsUpTo(XY_BITS)) \ {{}}
    /\ Damage \subseteq {"row", "node", "version"}

VARIABLES
    nodes,     \* table nodes, of which the SMH signs the root
    query,     \* the query: xy strings, minAltitude, maxAltitude
    answer,    \* the nodes of the answer
    damaged,   \* has the answer been damaged
    verdict    \* "none", "refused" by the server, "rejected" or "accepted" by the client

vars == <<nodes, query, answer, damaged, verdict>>

-----------------------------------------------------------------------------
(* The server: BuildNodeQuery and RowsToNodesAndRootHash. *)

\* bit_string_51_int: the string padded with zeros, and with ones.
MinInt(xy) == Padded(xy, XY_BITS, 0)
MaxInt(xy) == Padded(xy, XY_BITS, 1)

\* Mutant: the longest proper prefix is forgotten.
PointQueries_OffByOne(xy) ==
    LET ones == {j \in DOMAIN xy : xy[j] = 1}
    IN  {SubSeq(xy, 1, i) : i \in 1..(IF ones = {} THEN 0 ELSE Max(ones) - 2)}

\* The proper prefixes, except the empty one, of xy without its last zeros.
PointQueries(xy) ==
    LET ones == {j \in DOMAIN xy : xy[j] = 1}
    IN  {SubSeq(xy, 1, i) : i \in 1..(IF ones = {} THEN 0 ELSE Max(ones) - 1)}

Selected(q) ==
    {p \in DOMAIN nodes :
        /\ InAltitude(p.z, q)
        /\ \/ \E s \in q.area : MinInt(s) <= MinInt(p.xy) /\ MinInt(p.xy) <= MaxInt(s)
           \/ p.xy = <<>>
           \/ \E s \in q.area : p.xy \in PointQueries(s)}

\* A child's hash is left out when the child is part of the answer.
Response(S) ==
    [p \in S |->
        [child |-> [s \in Sides |->
                        IF ~HasSide(p, s) \/ Child(p, s) \in S THEN Null ELSE nodes[p].child[s]],
         certs |-> nodes[p].certs]]
-----------------------------------------------------------------------------
(* The client: VerifyResponse. *)

\* CountNodes of the tree built from the root: nodes all of whose ancestors
\* are linked.
InTree(a) ==
    {p \in DOMAIN a : \A q \in Ancestors(p) \ {p} : q \in DOMAIN a /\
        \E s \in Sides : Linked(a, q, s) /\ Child(q, s) \in Ancestors(p) \cup {p}}

IsZComplete(a, q) ==
    LET Z[p \in DOMAIN a] ==
            \A s \in ZSides :
                Len(p.z) < Z_BITS /\ IntersectsAltitudeRange(Child(p, s).z, q)
                => IF Linked(a, p, s) THEN Z[Child(p, s)] ELSE a[p].child[s] = Null
    IN  Z

\* Mutant: altitude trees are not checked below their roots.
IsComplete_PlaneOnly(a, q) ==
    LET C[p \in DOMAIN a] ==
            \A s \in XYSides :
                IF Linked(a, p, s) THEN C[Child(p, s)] ELSE a[p].child[s] = Null
    IN  C

IsComplete(a, q) ==
    LET C[p \in DOMAIN a] ==
            /\ \A s \in XYSides :
                IF Linked(a, p, s) THEN C[Child(p, s)] ELSE a[p].child[s] = Null
            /\ \A s \in ZSides :
                IF Linked(a, p, s) THEN IsZComplete(a, q)[Child(p, s)]
                ELSE a[p].child[s] = Null \/ ~IntersectsAltitudeRange(Child(p, s).z, q)
    IN  C

\* From the root along the path xy.
PathIsComplete(a, xy, q) ==
    LET Path[k \in 0..Len(xy)] ==
            LET p == [xy |-> SubSeq(xy, 1, k), z |-> <<>>]
                side == IF xy[k + 1] = 0 THEN "xyLeft" ELSE "xyRight"
            IN  IF k = Len(xy) THEN IsComplete(a, q)[p]
                ELSE /\ IsZComplete(a, q)[p]
                     /\ IF Linked(a, p, side) THEN Path[k + 1] ELSE a[p].child[side] = Null
    IN  Path[0]

\* Mutant: the computed root is not compared with the SMH.
Verified_NoRoot(a, q) ==
    /\ Root \in DOMAIN a
    /\ InTree(a) = DOMAIN a
    /\ \A xy \in q.area : PathIsComplete(a, xy, q)

Verified(a, q) ==
    /\ Root \in DOMAIN a
    /\ InTree(a) = DOMAIN a
    /\ Hash(a)[Root] = QueryRootHash(nodes)
    /\ \A xy \in q.area : PathIsComplete(a, xy, q)
-----------------------------------------------------------------------------
(* A published tree: some rows, that list a certificate or from which the  *)
(* last one was removed, their ancestors, and the hashes of all of them.   *)
Stored(t) ==
    [p \in DOMAIN t |->
        [child |-> [s \in Sides |->
                       IF ~(HasSide(p, s) /\ Child(p, s) \in DOMAIN t) THEN Null
                       ELSE LET h == Hash(t)[Child(p, s)] IN IF h = DEFAULT_HASH THEN Null ELSE h],
         certs |-> t[p].certs]]

Tree(listing, kept) ==
    LET S == listing \cup kept
        listed == [p \in Pairs |-> SetToArray(IF p \in listing THEN Certs ELSE {})]
    IN  Stored([p \in S \cup {Root} \cup UNION {Ancestors(q) : q \in S} |-> NewRow(listed[p])])

NoQuery == [area |-> {}, min |-> 0, max |-> 0]
NoAnswer == [p \in {} |-> NewRow(NoCerts)]

Init ==
    /\ \E n \in 0..MaxListed : \E place \in [1..n -> Places] : \E listing \in SUBSET (1..n) :
            nodes = Tree({place[i] : i \in listing}, {place[i] : i \in 1..n})
    /\ query = NoQuery
    /\ answer = NoAnswer
    /\ damaged = FALSE
    /\ verdict = "none"

\* Mutant: the check for the root is missing.
PostQuery_NoRootCheck(q, missing) ==
    /\ query = NoQuery
    /\ query' = q
    /\ missing # {} => "row" \in Damage
    /\ damaged' = (missing # {})
    /\ answer' = Response(Selected(q) \ missing)
    /\ UNCHANGED <<nodes, verdict>>

\* The server selects the rows; it fails if the root is not among them.
PostQuery(q, missing) ==
    /\ query = NoQuery
    /\ query' = q
    /\ missing # {} => "row" \in Damage
    /\ damaged' = (missing # {})
    /\ LET S == Selected(q) \ missing
       IN  IF Root \in S THEN answer' = Response(S) /\ UNCHANGED verdict
           ELSE answer' = NoAnswer /\ verdict' = "refused"
    /\ UNCHANGED nodes

\* A node is lost after the answer was made.
LoseNode ==
    /\ "node" \in Damage /\ verdict = "none" /\ ~damaged
    /\ \E p \in DOMAIN answer : answer' = [r \in DOMAIN answer \ {p} |-> answer[r]]
    /\ damaged' = TRUE
    /\ UNCHANGED <<nodes, query, verdict>>

\* A node lists the certificates of another version.
MixVersions ==
    /\ "version" \in Damage /\ verdict = "none" /\ ~damaged
    /\ \E p \in DOMAIN answer : \E S \in SUBSET Certs :
            answer' = [answer EXCEPT ![p].certs = SetToArray(S)]
    /\ damaged' = (answer' # answer)
    /\ UNCHANGED <<nodes, query, verdict>>

VerifyResponse ==
    /\ verdict = "none" /\ query # NoQuery
    /\ verdict' = IF Verified(answer, query) THEN "accepted" ELSE "rejected"
    /\ UNCHANGED <<nodes, query, answer, damaged>>

Queries == {q \in [area : Areas, min : Altitudes, max : Altitudes] : q.min <= q.max}

Next ==
    \/ \E q \in Queries : \E p \in DOMAIN nodes : \E missing \in {{}, {p}} : PostQuery(q, missing)
    \/ LoseNode
    \/ MixVersions
    \/ VerifyResponse

Spec == Init /\ [][Next]_vars
-----------------------------------------------------------------------------
(* What a query asks for: nodes whose xy string begins one of the area's   *)
(* strings or is begun by one, with altitudes in the range.                *)
Asked(p, q) ==
    /\ \E s \in q.area : IsPrefix(s, p.xy) \/ IsPrefix(p.xy, s)
    /\ ZMin(p.z) <= q.max /\ q.min < ZMax(p.z)

(* The server sends nodes of its table, among them the root, or refuses.   *)
TypeOK ==
    /\ query = NoQuery \/ query \in Queries
    /\ DOMAIN answer \subseteq DOMAIN nodes
    /\ \A p \in DOMAIN answer : answer[p].certs \in Array
    /\ verdict \in {"none", "refused", "rejected", "accepted"}
    /\ query # NoQuery /\ verdict # "refused" /\ ~damaged => Root \in DOMAIN answer

(* An answer that is accepted holds every node of the volume that lists a  *)
(* certificate: a node that is missing never goes unnoticed.               *)
AcceptedIsComplete ==
    verdict = "accepted" =>
        \A p \in DOMAIN nodes : Asked(p, query) /\ nodes[p].certs # NoCerts =>
            p \in DOMAIN answer

(* An answer that is accepted lists nothing the signed tree does not.      *)
AcceptedIsAuthentic ==
    verdict = "accepted" => \A p \in DOMAIN answer : answer[p].certs = nodes[p].certs

(* An honest answer is turned down only at the edge: the server leaves out *)
(* the nodes that begin exactly at maxAltitude, which the client demands.  *)
HonestIsAcceptedBelowEdge ==
    verdict \in {"rejected", "refused"} /\ ~damaged =>
        \E p \in DOMAIN nodes : Asked(p, query) /\ ZMin(p.z) = query.max
=============================================================================
