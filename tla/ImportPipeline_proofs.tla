----------------------- MODULE ImportPipeline_proofs -----------------------
(***************************************************************************)
(* What the importer writes, for any dataset, any tree, any size of the    *)
(* files and of the buffers:                                               *)
(*   - a node does not change between the moment main hands its pointer to *)
(*     the writer and the moment it is written, unless its certificates    *)
(*     are sorted twice at once;                                           *)
(*   - a parent's row holds the hash of its child's row;                   *)
(*   - the files of measurements and of certificates hold what main read,  *)
(*     in its order, and those of nodes the tree of it, each node once;    *)
(*     but for a first file that is removed.                               *)
(***************************************************************************)
EXTENDS ImportPipeline, SmtNodes_proofs

Early == {"read", "size", "sample", "altitude", "assign", "certificate"}
Held == {"hash", "send"}

\* A node is a record, and the tree a function of the positions.
IsTree(t) == t = [p \in DOMAIN t |-> [child |-> t[p].child, certs |-> t[p].certs]]
TreeInv == IsTree(tree)

\* main works on a node that is neither handed over nor still to be visited.
HandInv ==
    /\ main \in Early => channel["nodes"] = <<>> /\ wpc["nodes"] = "unborn"
    /\ main \in Early \ {"read"} => cert \in Certs
    /\ main \in Held => at \in DOMAIN tree /\ at \notin unsent /\ at \notin HandedOver
    /\ main = "hash" => side # NoSide /\ Child(at, SideOrder[side]) \in DOMAIN tree
    /\ \A p \in HandedOver : p \in DOMAIN tree /\ p \notin unsent

Inv == TypeOK /\ TreeInv /\ HandInv
-----------------------------------------------------------------------------
LEMMA AppendFacts ==
    ASSUME NEW S, NEW s \in Seq(S), NEW v \in S
    PROVE  /\ Append(s, v) \in Seq(S) /\ Len(Append(s, v)) = Len(s) + 1
           /\ ToSet(Append(s, v)) = ToSet(s) \cup {v}
<1>1. /\ Append(s, v) \in Seq(S) /\ Len(Append(s, v)) = Len(s) + 1
      /\ \A i \in 1..Len(s) : Append(s, v)[i] = s[i]
      /\ Append(s, v)[Len(s) + 1] = v
  BY AppendProperties
<1>2. Len(s) \in Nat /\ DOMAIN s = 1..Len(s)
  BY LenProperties
<1>3. DOMAIN Append(s, v) = 1..Len(s) + 1
  BY <1>1, LenProperties
<1>4. ASSUME NEW x \in ToSet(Append(s, v)) PROVE x \in ToSet(s) \cup {v}
  BY <1>1, <1>2, <1>3, <1>4 DEF ToSet
<1>5. ASSUME NEW x \in ToSet(s) PROVE x \in ToSet(Append(s, v))
  BY <1>1, <1>2, <1>3, <1>5 DEF ToSet
<1>6. v \in ToSet(Append(s, v))
  BY <1>1, <1>2, <1>3 DEF ToSet
<1> QED BY <1>1, <1>4, <1>5, <1>6

LEMMA TailFacts ==
    ASSUME NEW S, NEW s \in Seq(S), s # <<>>
    PROVE  /\ Head(s) \in S /\ Head(s) \in ToSet(s)
           /\ Tail(s) \in Seq(S) /\ Len(Tail(s)) = Len(s) - 1 /\ Len(s) \in Nat
           /\ ToSet(Tail(s)) \subseteq ToSet(s)
<1>1. Len(s) \in Nat \ {0} /\ DOMAIN s = 1..Len(s)
  BY LenProperties, EmptySeq
<1>2. /\ Head(s) = s[1] /\ Head(s) \in S
      /\ Tail(s) \in Seq(S) /\ Len(Tail(s)) = Len(s) - 1
      /\ \A i \in 1..Len(Tail(s)) : Tail(s)[i] = s[i + 1]
  BY HeadTailProperties, ElementOfSeq, <1>1
<1>3. DOMAIN Tail(s) = 1..Len(s) - 1
  BY <1>2, LenProperties
<1>4. ASSUME NEW x \in ToSet(Tail(s)) PROVE x \in ToSet(s)
  BY <1>1, <1>2, <1>3, <1>4 DEF ToSet
<1>5. Head(s) \in ToSet(s)
  BY <1>1, <1>2 DEF ToSet
<1> QED BY <1>1, <1>2, <1>4, <1>5

LEMMA EmptyFacts == ToSet(<<>>) = {} /\ \A S : <<>> \in Seq(S) /\ Len(<<>>) = 0
BY EmptySeq DEF ToSet

\* What the writer has or will receive, when neither its channel nor its
\* position changes.
LEMMA HandedOverSame ==
    ASSUME channel["nodes"]' = channel["nodes"], UNCHANGED row,
           wpc'["nodes"] = "write" <=> wpc["nodes"] = "write"
    PROVE  HandedOver' = HandedOver
BY DEF HandedOver

\* NextSide finds a child that is a node, or none.
LEMMA NextSideFacts ==
    ASSUME NEW p, NEW k \in 1..NoSide
    PROVE  /\ NextSide(p, k) \in 1..NoSide
           /\ NextSide(p, k) # NoSide => /\ HasSide(p, SideOrder[NextSide(p, k)])
                                         /\ Child(p, SideOrder[NextSide(p, k)]) \in DOMAIN tree
           /\ \A j \in k..NextSide(p, k) - 1 :
                ~(HasSide(p, SideOrder[j]) /\ Child(p, SideOrder[j]) \in DOMAIN tree)
<1>1. Len(SideOrder) = 4 /\ NoSide = 5
  BY DEF SideOrder, NoSide
<1> DEFINE present == {j \in k..Len(SideOrder) : /\ HasSide(p, SideOrder[j])
                                                 /\ Child(p, SideOrder[j]) \in DOMAIN tree}
<1>2. CASE present = {}
  BY <1>1, <1>2 DEF NextSide
<1>3. CASE present # {}
  <2>1. \E j \in present : \A l \in present : j <= l
    <3>1. present \subseteq 1..4 /\ present # {}
      BY <1>1, <1>3
    <3> HIDE DEF present
    <3>2. CASE 1 \in present
      BY <3>1, <3>2
    <3>3. CASE 1 \notin present /\ 2 \in present
      BY <3>1, <3>3
    <3>4. CASE 1 \notin present /\ 2 \notin present /\ 3 \in present
      BY <3>1, <3>4
    <3>5. CASE 1 \notin present /\ 2 \notin present /\ 3 \notin present
      <4>1. \A j \in present : j = 4
        BY <3>1, <3>5
      <4>2. 4 \in present
        BY <3>1, <4>1
      <4> QED BY <4>1, <4>2
    <3> QED BY <3>2, <3>3, <3>4, <3>5
  <2>2. NextSide(p, k) = CHOOSE j \in present : \A l \in present : j <= l
    BY <1>3 DEF NextSide
  <2> HIDE DEF present
  <2>3. NextSide(p, k) \in present /\ \A l \in present : NextSide(p, k) <= l
    BY <2>1, <2>2
  <2>4. \A j \in k..NextSide(p, k) - 1 : j \notin present
    <3>1. NextSide(p, k) \in k..4
      BY <1>1, <2>3 DEF present
    <3> QED BY <2>3, <3>1
  <2>5. NextSide(p, k) \in k..4
    BY <1>1, <2>3 DEF present
  <2>6. \A j \in k..NextSide(p, k) - 1 : j \in k..Len(SideOrder)
    BY <1>1, <2>5
  <2> USE DEF present
  <2> QED BY <1>1, <2>3, <2>4, <2>5, <2>6
<1> QED BY <1>2, <1>3
-----------------------------------------------------------------------------
\* One more value in a buffer.
LEMMA SendFacts ==
    ASSUME Inv, NEW w \in Writers, NEW v, Send(w, v),
           IF w = "nodes" THEN v \in DOMAIN tree ELSE v \in Certs
    PROVE  /\ channel' \in [Writers -> Seq(Certs \cup Pairs)]
           /\ \A u \in Writers \ {"nodes"} : channel'[u] \in Seq(Certs)
           /\ channel'["nodes"] \in Seq(DOMAIN tree)
           /\ \A u \in Writers : Len(channel'[u]) <= Capacity
           /\ w # "nodes" => channel'["nodes"] = channel["nodes"]
           /\ w = "nodes" => ToSet(channel'["nodes"]) = ToSet(channel["nodes"]) \cup {v}
<1> USE DEF Inv, TypeOK
<1>1. "nodes" \in Writers /\ Capacity \in Nat
  BY ImportAssumption DEF ImportAssumption, Writers, Split
<1>2. /\ channel' = [channel EXCEPT ![w] = Append(channel[w], v)]
      /\ Len(channel[w]) < Capacity
  BY DEF Send
<1>3. /\ channel'[w] = Append(channel[w], v)
      /\ \A u \in Writers : u # w => channel'[u] = channel[u]
      /\ DOMAIN channel' = Writers /\ channel' = [u \in Writers |-> channel'[u]]
  BY <1>2
<1>4. v \in Certs \cup Pairs
  OBVIOUS
<1>5. channel[w] \in Seq(Certs \cup Pairs) /\ Len(channel[w]) \in Nat
  BY LenProperties
<1>6. channel'[w] \in Seq(Certs \cup Pairs) /\ Len(channel'[w]) <= Capacity
  <2>1. /\ Append(channel[w], v) \in Seq(Certs \cup Pairs)
        /\ Len(Append(channel[w], v)) = Len(channel[w]) + 1
    BY <1>4, <1>5, AppendFacts
  <2> QED BY <1>1, <1>2, <1>3, <1>5, <2>1
<1>7. channel' \in [Writers -> Seq(Certs \cup Pairs)]
  <2>1. \A u \in Writers : channel'[u] \in Seq(Certs \cup Pairs)
    BY <1>3, <1>6
  <2> QED BY <1>3, <2>1
<1>8. CASE w = "nodes"
  <2>1. channel["nodes"] \in Seq(DOMAIN tree) /\ v \in DOMAIN tree
    BY <1>8
  <2>2. /\ Append(channel["nodes"], v) \in Seq(DOMAIN tree)
        /\ ToSet(Append(channel["nodes"], v)) = ToSet(channel["nodes"]) \cup {v}
    BY <2>1, AppendFacts
  <2> QED BY <1>1, <1>3, <1>6, <1>7, <1>8, <2>2
<1>9. CASE w # "nodes"
  <2>1. channel[w] \in Seq(Certs) /\ v \in Certs
    BY <1>9
  <2>2. Append(channel[w], v) \in Seq(Certs)
    BY <2>1, AppendFacts
  <2> QED BY <1>1, <1>3, <1>6, <1>7, <1>9, <2>2
<1> QED BY <1>8, <1>9

\* One value less.
LEMMA ReceiveFacts ==
    ASSUME Inv, NEW w \in Writers, channel[w] # <<>>,
           channel' = [channel EXCEPT ![w] = Tail(@)]
    PROVE  /\ channel' \in [Writers -> Seq(Certs \cup Pairs)]
           /\ \A u \in Writers \ {"nodes"} : channel'[u] \in Seq(Certs)
           /\ channel'["nodes"] \in Seq(DOMAIN tree)
           /\ \A u \in Writers : Len(channel'[u]) <= Capacity
           /\ w # "nodes" => channel'["nodes"] = channel["nodes"]
           /\ w = "nodes" => /\ ToSet(channel'["nodes"]) \subseteq ToSet(channel["nodes"])
                             /\ Head(channel["nodes"]) \in ToSet(channel["nodes"])
                             /\ Head(channel["nodes"]) \in DOMAIN tree
<1> USE DEF Inv, TypeOK
<1>1. "nodes" \in Writers /\ Capacity \in Nat
  BY ImportAssumption DEF ImportAssumption, Writers, Split
<1>3. /\ channel'[w] = Tail(channel[w])
      /\ \A u \in Writers : u # w => channel'[u] = channel[u]
      /\ DOMAIN channel' = Writers /\ channel' = [u \in Writers |-> channel'[u]]
  OBVIOUS
<1>5. channel[w] \in Seq(Certs \cup Pairs) /\ Len(channel[w]) \in Nat /\ Len(channel[w]) <= Capacity
  BY LenProperties
<1>6. channel'[w] \in Seq(Certs \cup Pairs) /\ Len(channel'[w]) <= Capacity
  <2>1. /\ Tail(channel[w]) \in Seq(Certs \cup Pairs)
        /\ Len(Tail(channel[w])) = Len(channel[w]) - 1
    BY <1>5, TailFacts
  <2> QED BY <1>1, <1>3, <1>5, <2>1
<1>7. channel' \in [Writers -> Seq(Certs \cup Pairs)]
  <2>1. \A u \in Writers : channel'[u] \in Seq(Certs \cup Pairs)
    BY <1>3, <1>6
  <2> QED BY <1>3, <2>1
<1>8. CASE w = "nodes"
  <2>1. channel["nodes"] \in Seq(DOMAIN tree) /\ channel["nodes"] # <<>>
    BY <1>8
  <2>2. /\ Tail(channel["nodes"]) \in Seq(DOMAIN tree)
        /\ ToSet(Tail(channel["nodes"])) \subseteq ToSet(channel["nodes"])
        /\ Head(channel["nodes"]) \in ToSet(channel["nodes"])
        /\ Head(channel["nodes"]) \in DOMAIN tree
    BY <2>1, TailFacts
  <2> QED BY <1>1, <1>3, <1>6, <1>7, <1>8, <2>2
<1>9. CASE w # "nodes"
  <2>1. channel[w] \in Seq(Certs)
    BY <1>9
  <2>2. Tail(channel[w]) \in Seq(Certs)
    BY <2>1, TailFacts
  <2> QED BY <1>1, <1>3, <1>6, <1>7, <1>9, <2>2
<1> QED BY <1>8, <1>9
-----------------------------------------------------------------------------
LEMMA InitInv == Init => Inv
<1> SUFFICES ASSUME Init PROVE Inv
  OBVIOUS
<1> USE DEF Init
<1>1. /\ Capacity \in Nat /\ "nodes" \in Writers
      /\ \A w \in Writers : channel[w] = <<>> /\ wpc[w] \in {"unborn", "create"}
      /\ wpc["nodes"] = "unborn"
  BY ImportAssumption DEF ImportAssumption, Writers, Split
<1>2. dataset \in Seq(Certs \cup {Unusable})
  BY ImportAssumption DEF ImportAssumption
<1>3. NoSide = 5 /\ DOMAIN tree = {}
  BY DEF NoSide, SideOrder
<1>a. channel \in [Writers -> Seq(Certs \cup Pairs)]
  BY EmptyFacts
<1>b. wpc \in [Writers -> {"unborn", "create", "receive", "write", "done", "ended"}]
  OBVIOUS
<1>c. /\ \A w \in Writers \ {"nodes"} : channel[w] \in Seq(Certs)
      /\ channel["nodes"] \in Seq(DOMAIN tree)
      /\ \A w \in Writers : Len(channel[w]) <= Capacity
  BY <1>1, EmptyFacts, ImportAssumption DEF ImportAssumption
<1>d. side \in 1..NoSide /\ main \in ControlPoints
  BY <1>3 DEF ControlPoints
<1>4. TypeOK
  BY <1>2, <1>3, <1>a, <1>b, <1>c, <1>d, RootFacts DEF TypeOK
<1>5. TreeInv
  BY <1>3 DEF TreeInv, IsTree
<1>6. HandedOver = {}
  BY <1>1, EmptyFacts DEF HandedOver
<1>7. HandInv
  BY <1>1, <1>6 DEF HandInv, Early, Held
<1> QED BY <1>4, <1>5, <1>7 DEF Inv

\* What a row of the dataset sends does not touch the nodes.
LEMMA RowSendInv ==
    ASSUME Inv, NEW w \in Writers \ {"nodes"}, cert \in Certs, Send(w, cert),
           main \in Early, main' \in Early,
           UNCHANGED <<dataset, input, cert, tree, unsent, at, side, closed, writerVars, raced, exited>>
    PROVE  Inv'
<1>1. /\ channel' \in [Writers -> Seq(Certs \cup Pairs)]
      /\ \A u \in Writers \ {"nodes"} : channel'[u] \in Seq(Certs)
      /\ channel'["nodes"] \in Seq(DOMAIN tree)
      /\ \A u \in Writers : Len(channel'[u]) <= Capacity
      /\ channel'["nodes"] = channel["nodes"]
  BY SendFacts
<1>2. TypeOK'
  BY <1>1 DEF Inv, TypeOK, writerVars, ControlPoints, Early
<1>3. TreeInv'
  BY DEF Inv, TreeInv
<1>4. HandedOver' = HandedOver
  BY <1>1, HandedOverSame DEF writerVars
<1>5. HandInv'
  BY <1>1, <1>4 DEF Inv, HandInv, writerVars, Early, Held
<1> QED BY <1>2, <1>3, <1>5 DEF Inv

LEMMA AssignInv == Inv /\ AssignToNodes => Inv'
<1> SUFFICES ASSUME Inv, AssignToNodes PROVE Inv'
  OBVIOUS
<1> USE DEF AssignToNodes, writerVars
<1>1. /\ main = "assign" /\ main' = "certificate" /\ cert \in Certs
      /\ channel["nodes"] = <<>> /\ wpc["nodes"] = "unborn"
  BY DEF Inv, HandInv, Early
<1>2. ToSet(Covers[cert]) \subseteq Pairs
  <2>1. Covers[cert] \in Seq(Pairs)
    BY <1>1, ImportAssumption DEF ImportAssumption
  <2>2. DOMAIN Covers[cert] = 1..Len(Covers[cert])
    BY <2>1, LenProperties
  <2> QED BY <2>1, <2>2, ElementOfSeq DEF ToSet
<1>3. \A q \in Pairs : Ancestors(q) \subseteq Pairs
  BY AncestorsAbove
<1>4. DOMAIN tree' = DOMAIN tree \cup ToSet(Covers[cert])
                     \cup UNION {Ancestors(q) : q \in ToSet(Covers[cert])}
  BY DEF Assigned
<1>5. DOMAIN tree' \subseteq Pairs /\ DOMAIN tree \subseteq DOMAIN tree'
  BY <1>2, <1>3, <1>4 DEF Inv, TypeOK
<1>6. TreeInv'
  <2>1. \A p \in DOMAIN tree' : tree'[p] = [child |-> tree'[p].child, certs |-> tree'[p].certs]
    BY <1>4 DEF Assigned, NewRow
  <2>2. tree' = [p \in DOMAIN tree' |-> tree'[p]]
    BY DEF Assigned
  <2> QED BY <2>1, <2>2 DEF TreeInv, IsTree
<1>7. TypeOK'
  BY <1>1, <1>5, EmptyFacts DEF Inv, TypeOK, ControlPoints
<1>8. HandedOver' = {}
  BY <1>1, EmptyFacts DEF HandedOver
<1>9. HandInv'
  BY <1>1, <1>8 DEF Inv, HandInv, Early, Held
<1> QED BY <1>6, <1>7, <1>9 DEF Inv

LEMMA ReadInv == Inv /\ ReadRow => Inv'
<1> SUFFICES ASSUME Inv, ReadRow PROVE Inv'
  OBVIOUS
<1> USE DEF ReadRow, writerVars
<1>1. input' \in Seq(Certs \cup {Unusable}) /\ cert' \in Certs \cup {Unusable}
  BY TailFacts DEF Inv, TypeOK
<1>2. main' \in {"read", "size"} /\ (main' = "size" => cert' \in Certs)
  BY <1>1
<1>3. TypeOK'
  BY <1>1, <1>2 DEF Inv, TypeOK, ControlPoints
<1>4. TreeInv'
  BY DEF Inv, TreeInv
<1>5. HandedOver' = HandedOver
  BY HandedOverSame
<1>6. HandInv'
  BY <1>2, <1>5 DEF Inv, HandInv, Early, Held
<1> QED BY <1>3, <1>4, <1>6 DEF Inv

LEMMA RowsInv == Inv /\ Rows => Inv'
<1> SUFFICES ASSUME Inv, Rows PROVE Inv'
  OBVIOUS
<1>0. {"certificateSizes", "samples", "altitudes", "certificates"} \subseteq Writers \ {"nodes"}
  BY DEF Writers, Split, Measurements
<1> USE <1>0 DEF Early
<1>1. CASE SendSize
  <2>1. cert \in Certs /\ main' \in Early
    BY <1>1 DEF SendSize, Inv, HandInv
  <2> QED BY <1>1, <2>1, RowSendInv DEF SendSize
<1>2. CASE SendSample
  <2>1. cert \in Certs /\ main' \in Early
    BY <1>2 DEF SendSample, Inv, HandInv
  <2> QED BY <1>2, <2>1, RowSendInv DEF SendSample
<1>3. CASE SendAltitude
  <2>1. cert \in Certs /\ main' \in Early
    BY <1>3 DEF SendAltitude, Inv, HandInv
  <2> QED BY <1>3, <2>1, RowSendInv DEF SendAltitude
<1>4. CASE SendCertificate
  <2>1. cert \in Certs /\ main' \in Early
    BY <1>4 DEF SendCertificate, Inv, HandInv
  <2> QED BY <1>4, <2>1, RowSendInv DEF SendCertificate
<1> QED BY <1>1, <1>2, <1>3, <1>4, ReadInv, AssignInv DEF Rows
-----------------------------------------------------------------------------
LEMMA CloseChannelsInv == Inv /\ CloseChannels => Inv'
<1> SUFFICES ASSUME Inv, CloseChannels PROVE Inv'
  OBVIOUS
<1> USE DEF CloseChannels
<1>1. /\ main = "read" /\ channel["nodes"] = <<>>
      /\ wpc'["nodes"] = "create" /\ "nodes" \in Writers
  BY DEF Inv, TypeOK, HandInv, Early, Writers, Split
<1>2. TypeOK'
  BY <1>1 DEF Inv, TypeOK, ControlPoints
<1>3. TreeInv'
  BY DEF Inv, TreeInv
<1>4. HandedOver' = {}
  BY <1>1, EmptyFacts DEF HandedOver
<1>5. HandInv'
  BY <1>4 DEF HandInv, Early, Held
<1> QED BY <1>2, <1>3, <1>5 DEF Inv

LEMMA VisitInv == ASSUME NEW p \in unsent PROVE Inv /\ Visit(p) => Inv'
<1> SUFFICES ASSUME Inv, Visit(p) PROVE Inv'
  OBVIOUS
<1> USE DEF Visit, writerVars
<1>1. p \in DOMAIN tree /\ p \in Pairs /\ p \notin HandedOver
  BY DEF Inv, TypeOK, HandInv
<1>2. /\ side' \in 1..NoSide
      /\ side' # NoSide => Child(p, SideOrder[side']) \in DOMAIN tree
  <2>1. 1 \in 1..NoSide
    BY DEF NoSide, SideOrder
  <2> QED BY <2>1, NextSideFacts
<1>3. main' \in Held /\ (main' = "hash" => side' # NoSide)
  BY DEF Held
<1>4. TypeOK'
  BY <1>1, <1>2, <1>3 DEF Inv, TypeOK, ControlPoints, Held
<1>5. TreeInv'
  BY DEF Inv, TreeInv
<1>6. HandedOver' = HandedOver
  BY HandedOverSame
<1>7. HandInv'
  BY <1>1, <1>2, <1>3, <1>6 DEF Inv, HandInv, Early, Held
<1> QED BY <1>4, <1>5, <1>7 DEF Inv

LEMMA SendNodeInv == Inv /\ SendNode => Inv'
<1> SUFFICES ASSUME Inv, SendNode PROVE Inv'
  OBVIOUS
<1> USE DEF SendNode, writerVars
<1>1. at \in DOMAIN tree /\ at \notin unsent /\ "nodes" \in Writers
  BY DEF Inv, HandInv, Held, Writers, Split
<1>2. /\ channel' \in [Writers -> Seq(Certs \cup Pairs)]
      /\ \A u \in Writers \ {"nodes"} : channel'[u] \in Seq(Certs)
      /\ channel'["nodes"] \in Seq(DOMAIN tree)
      /\ \A u \in Writers : Len(channel'[u]) <= Capacity
      /\ ToSet(channel'["nodes"]) = ToSet(channel["nodes"]) \cup {at}
  BY <1>1, SendFacts
<1>3. TypeOK'
  BY <1>2 DEF Inv, TypeOK, ControlPoints
<1>4. TreeInv'
  BY DEF Inv, TreeInv
<1>5. HandedOver' = HandedOver \cup {at}
  BY <1>2 DEF HandedOver
<1>6. HandInv'
  BY <1>1, <1>5 DEF Inv, HandInv, Early, Held
<1> QED BY <1>3, <1>4, <1>6 DEF Inv

LEMMA CloseNodesInv == Inv /\ CloseNodes => Inv'
<1> SUFFICES ASSUME Inv, CloseNodes PROVE Inv'
  OBVIOUS
<1> USE DEF CloseNodes, writerVars
<1>1. TypeOK'
  BY DEF Inv, TypeOK, ControlPoints, Writers, Split
<1>2. HandedOver' = HandedOver
  BY HandedOverSame
<1>3. HandInv'
  BY <1>2 DEF Inv, HandInv, Early, Held
<1> QED BY <1>1, <1>3 DEF Inv, TreeInv

LEMMA WaitInv == ASSUME NEW i \in 1..Len(WaitOrder) - 1 PROVE Inv /\ Wait(i) => Inv'
<1> SUFFICES ASSUME Inv, Wait(i) PROVE Inv'
  OBVIOUS
<1> USE DEF Wait
<1>1. i \in 1..5
  BY DEF WaitOrder
<1>2. /\ WaitOrder[i] \in Writers /\ WaitOrder[i] = main
      /\ WaitOrder[i + 1] \in ControlPoints \ (Early \cup Held)
  BY <1>1 DEF WaitOrder, Writers, Split, Measurements, ControlPoints, Early, Held
<1>3. wpc'["nodes"] = "write" <=> wpc["nodes"] = "write"
  BY <1>2 DEF Inv, TypeOK
<1>4. TypeOK'
  BY <1>2 DEF Inv, TypeOK
<1>5. HandedOver' = HandedOver
  BY <1>3, HandedOverSame
<1>6. HandInv'
  BY <1>2, <1>5 DEF Inv, HandInv, Early, Held
<1> QED BY <1>4, <1>6 DEF Inv, TreeInv
-----------------------------------------------------------------------------
\* Sorting a slice leaves it as it was, unless another goroutine sorts it too.
LEMMA SortedFacts ==
    \A p : /\ p \notin RacedAfter(p) => Sorted(p) = {tree[p].certs}
           /\ RacedAfter(p) \subseteq raced \cup {p} /\ raced \subseteq RacedAfter(p)
BY DEF RacedAfter, Sorted

SetCerts(t, q, certs) == [t EXCEPT ![q].certs = certs]
SetHash(t, q, s, h) == [t EXCEPT ![q].child[s] = h]
WithHash(hashes, s, h) == [hashes EXCEPT ![s] = h]

\* Sorting changes the certificates of one node, and nothing else.
LEMMA SetCertsFacts ==
    \A t : IsTree(t) => \A q \in DOMAIN t : \A certs :
        /\ DOMAIN SetCerts(t, q, certs) = DOMAIN t /\ IsTree(SetCerts(t, q, certs))
        /\ \A p \in DOMAIN t :
             p # q \/ certs = t[q].certs => SetCerts(t, q, certs)[p] = t[p]
        /\ \A p \in DOMAIN t : SetCerts(t, q, certs)[p].child = t[p].child
        /\ SetCerts(t, q, certs)[q].certs = certs
<1> SUFFICES ASSUME NEW t, IsTree(t), NEW q \in DOMAIN t, NEW certs,
                    NEW u, u = SetCerts(t, q, certs)
             PROVE  /\ DOMAIN u = DOMAIN t /\ IsTree(u)
                    /\ \A p \in DOMAIN t : p # q \/ certs = t[q].certs => u[p] = t[p]
                    /\ \A p \in DOMAIN t : u[p].child = t[p].child
                    /\ u[q].certs = certs
  OBVIOUS
<1> USE DEF SetCerts
<1>1. t[q] = [child |-> t[q].child, certs |-> t[q].certs]
  BY DEF IsTree
<1>2. u[q] = [t[q] EXCEPT !.certs = certs]
  OBVIOUS
<1>3. u[q] = [child |-> t[q].child, certs |-> certs]
  BY ONLY <1>1, <1>2
<1>4. DOMAIN u = DOMAIN t /\ u = [p \in DOMAIN t |-> u[p]]
  OBVIOUS
<1>5. \A p \in DOMAIN t : p # q => u[p] = t[p]
  OBVIOUS
<1>6. \A p \in DOMAIN t : u[p] = [child |-> u[p].child, certs |-> u[p].certs]
  BY <1>3, <1>5 DEF IsTree
<1>7. certs = t[q].certs => u[q] = t[q]
  BY <1>1, <1>3
<1>8. u[q].child = t[q].child /\ u[q].certs = certs
  BY ONLY <1>3
<1>9. \A p \in DOMAIN t : u[p].child = t[p].child
  BY <1>5, <1>8
<1> QED BY <1>4, <1>5, <1>6, <1>7, <1>8, <1>9 DEF IsTree

\* Setting a child's hash changes one node, and nothing else.
LEMMA SetHashFacts ==
    \A t : IsTree(t) => \A q \in DOMAIN t : \A s, h :
        /\ DOMAIN SetHash(t, q, s, h) = DOMAIN t /\ IsTree(SetHash(t, q, s, h))
        /\ \A p \in DOMAIN t : p # q => SetHash(t, q, s, h)[p] = t[p]
<1> SUFFICES ASSUME NEW t, IsTree(t), NEW q \in DOMAIN t, NEW s, NEW h,
                    NEW u, u = SetHash(t, q, s, h)
             PROVE  /\ DOMAIN u = DOMAIN t /\ IsTree(u)
                    /\ \A p \in DOMAIN t : p # q => u[p] = t[p]
  OBVIOUS
<1> USE DEF SetHash
<1>1. t[q] = [child |-> t[q].child, certs |-> t[q].certs]
  BY DEF IsTree
<1>2. u[q] = [t[q] EXCEPT !.child = [t[q].child EXCEPT ![s] = h]]
  OBVIOUS
<1>3. u[q] = [child |-> [t[q].child EXCEPT ![s] = h], certs |-> t[q].certs]
  BY ONLY <1>1, <1>2
<1>4. DOMAIN u = DOMAIN t /\ u = [p \in DOMAIN t |-> u[p]]
  OBVIOUS
<1>5. \A p \in DOMAIN t : p # q => u[p] = t[p]
  OBVIOUS
<1>6. \A p \in DOMAIN t : u[p] = [child |-> u[p].child, certs |-> u[p].certs]
  BY <1>3, <1>5 DEF IsTree
<1> QED BY <1>4, <1>5, <1>6 DEF IsTree

\* What it changes in that node.
LEMMA SetHashNode ==
    \A t : IsTree(t) => \A q \in DOMAIN t : \A s, h :
        /\ SetHash(t, q, s, h)[q].child = WithHash(t[q].child, s, h)
        /\ SetHash(t, q, s, h)[q].certs = t[q].certs
<1> SUFFICES ASSUME NEW t, IsTree(t), NEW q \in DOMAIN t, NEW s, NEW h
             PROVE  /\ SetHash(t, q, s, h)[q].child = WithHash(t[q].child, s, h)
                    /\ SetHash(t, q, s, h)[q].certs = t[q].certs
  OBVIOUS
<1>1. t[q] = [child |-> t[q].child, certs |-> t[q].certs]
  BY DEF IsTree
<1>2. SetHash(t, q, s, h)[q] = [t[q] EXCEPT !.child = [t[q].child EXCEPT ![s] = h]]
  BY DEF SetHash
<1>3. SetHash(t, q, s, h)[q] = [child |-> [t[q].child EXCEPT ![s] = h], certs |-> t[q].certs]
  BY ONLY <1>1, <1>2
<1> QED BY ONLY <1>3 DEF WithHash

LEMMA HashChildTree ==
    ASSUME Inv, HashChild
    PROVE  /\ DOMAIN tree' = DOMAIN tree /\ TreeInv' /\ raced' \subseteq DOMAIN tree
           /\ \A p \in DOMAIN tree : p # at /\ p \notin raced' => tree'[p] = tree[p]
<1> DEFINE q == Child(at, SideOrder[side])
<1>1. q \in DOMAIN tree /\ at \in DOMAIN tree /\ TreeInv /\ raced \subseteq DOMAIN tree
  BY DEF HashChild, Inv, TypeOK, HandInv, Held
<1>2. PICK certs \in Sorted(q) :
        LET sorted == [tree EXCEPT ![q].certs = certs]
        IN  tree' = [sorted EXCEPT ![at].child[SideOrder[side]] = HashOf(q, sorted[q])]
  BY DEF HashChild
<1>3. raced' = RacedAfter(q)
  BY DEF HashChild
<1> HIDE DEF q
<1> DEFINE sorted == SetCerts(tree, q, certs)
<1>4. PICK h : tree' = SetHash(sorted, at, SideOrder[side], h)
  BY <1>2 DEF SetCerts, SetHash
<1>5. /\ DOMAIN sorted = DOMAIN tree /\ IsTree(sorted)
      /\ \A p \in DOMAIN tree : p # q \/ certs = tree[q].certs => sorted[p] = tree[p]
  BY <1>1, SetCertsFacts DEF TreeInv
<1> HIDE DEF sorted
<1>6. /\ DOMAIN tree' = DOMAIN sorted /\ IsTree(tree')
      /\ \A p \in DOMAIN sorted : p # at => tree'[p] = sorted[p]
  BY <1>1, <1>4, <1>5, SetHashFacts
<1>7. raced' \subseteq DOMAIN tree
  BY <1>1, <1>3, SortedFacts
<1>8. q \notin raced' => certs = tree[q].certs
  BY <1>2, <1>3, SortedFacts
<1>9. ASSUME NEW p \in DOMAIN tree, p # at, p \notin raced' PROVE tree'[p] = tree[p]
  BY <1>5, <1>6, <1>8, <1>9
<1> QED BY <1>5, <1>6, <1>7, <1>9 DEF TreeInv

LEMMA HashChildInv == Inv /\ HashChild => Inv'
<1> SUFFICES ASSUME Inv, HashChild PROVE Inv'
  OBVIOUS
<1>1. DOMAIN tree' = DOMAIN tree /\ TreeInv' /\ raced' \subseteq DOMAIN tree
  BY HashChildTree
<1> USE DEF HashChild, writerVars
<1>2. /\ side' \in 1..NoSide
      /\ side' # NoSide => Child(at, SideOrder[side']) \in DOMAIN tree
  <2>1. side + 1 \in 1..NoSide
    BY DEF Inv, TypeOK, HandInv, NoSide, SideOrder
  <2> QED BY <2>1, NextSideFacts
<1>3. main' \in Held /\ (main' = "hash" => side' # NoSide)
  BY DEF Held
<1>4. TypeOK'
  BY <1>1, <1>2, <1>3 DEF Inv, TypeOK, ControlPoints, Held
<1>5. HandedOver' = HandedOver
  BY HandedOverSame
<1>6. HandInv'
  BY <1>1, <1>2, <1>3, <1>5 DEF Inv, HandInv, Early, Held
<1> QED BY <1>1, <1>4, <1>6 DEF Inv

LEMMA NodesInv == Inv /\ Nodes => Inv'
BY CloseChannelsInv, VisitInv, HashChildInv, SendNodeInv, CloseNodesInv DEF Nodes

LEMMA MainInv == Inv /\ Main => Inv'
BY RowsInv, NodesInv, WaitInv DEF Main
-----------------------------------------------------------------------------
LEMMA WriteNodeTree ==
    ASSUME Inv, WriteNode
    PROVE  /\ DOMAIN tree' = DOMAIN tree /\ TreeInv' /\ raced' \subseteq DOMAIN tree
           /\ \A p \in DOMAIN tree : p \notin raced' => tree'[p] = tree[p]
<1>1. row \in HandedOver /\ row \in DOMAIN tree /\ TreeInv /\ raced \subseteq DOMAIN tree
  BY DEF WriteNode, Inv, TypeOK, HandInv, HandedOver
<1>2. PICK certs \in Sorted(row) : tree' = SetCerts(tree, row, certs)
  BY DEF WriteNode, SetCerts
<1>3. raced' = RacedAfter(row)
  BY DEF WriteNode
<1>4. /\ DOMAIN tree' = DOMAIN tree /\ IsTree(tree')
      /\ \A p \in DOMAIN tree : p # row \/ certs = tree[row].certs => tree'[p] = tree[p]
  BY <1>1, <1>2, SetCertsFacts DEF TreeInv
<1>5. raced' \subseteq DOMAIN tree
  BY <1>1, <1>3, SortedFacts
<1>6. row \notin raced' => certs = tree[row].certs
  BY <1>2, <1>3, SortedFacts
<1>7. ASSUME NEW p \in DOMAIN tree, p \notin raced' PROVE tree'[p] = tree[p]
  BY <1>4, <1>6, <1>7
<1> QED BY <1>4, <1>5, <1>7 DEF TreeInv

LEMMA WriteNodeInv == Inv /\ WriteNode => Inv'
<1> SUFFICES ASSUME Inv, WriteNode PROVE Inv'
  OBVIOUS
<1>1. DOMAIN tree' = DOMAIN tree /\ TreeInv' /\ raced' \subseteq DOMAIN tree
  BY WriteNodeTree
<1> USE DEF WriteNode, mainVars
<1>2. "nodes" \in Writers /\ wpc'["nodes"] = "receive"
  BY DEF Inv, TypeOK, Writers, Split
<1>3. TypeOK'
  BY <1>1 DEF Inv, TypeOK
<1>4. HandedOver' \subseteq HandedOver
  BY <1>2 DEF HandedOver
<1>5. HandInv'
  BY <1>1, <1>2, <1>4 DEF Inv, HandInv, Early, Held
<1> QED BY <1>1, <1>3, <1>5 DEF Inv

LEMMA ReceiveNodeInv == Inv /\ ReceiveNode => Inv'
<1> SUFFICES ASSUME Inv, ReceiveNode PROVE Inv'
  OBVIOUS
<1> USE DEF ReceiveNode, mainVars
<1>1. "nodes" \in Writers /\ channel["nodes"] # <<>> /\ wpc'["nodes"] = "write"
  BY DEF Inv, TypeOK, Writers, Split
<1>2. /\ channel' \in [Writers -> Seq(Certs \cup Pairs)]
      /\ \A u \in Writers \ {"nodes"} : channel'[u] \in Seq(Certs)
      /\ channel'["nodes"] \in Seq(DOMAIN tree)
      /\ \A u \in Writers : Len(channel'[u]) <= Capacity
      /\ ToSet(channel'["nodes"]) \subseteq ToSet(channel["nodes"])
      /\ row' \in ToSet(channel["nodes"]) /\ row' \in DOMAIN tree
  BY <1>1, ReceiveFacts
<1>3. TypeOK'
  BY <1>2 DEF Inv, TypeOK
<1>4. HandedOver' \subseteq HandedOver
  BY <1>2 DEF HandedOver
<1>5. HandInv'
  BY <1>1, <1>4 DEF Inv, HandInv, Early, Held
<1> QED BY <1>3, <1>5 DEF Inv, TreeInv

LEMMA WriterInv == ASSUME NEW w \in Writers PROVE Inv /\ Writer(w) => Inv'
<1> SUFFICES ASSUME Inv, Writer(w) PROVE Inv'
  OBVIOUS
<1>0. "nodes" \in Writers
  BY DEF Writers, Split
<1>1. CASE Create(w) \/ Finish(w)
  <2>1. /\ UNCHANGED <<dataset, mainVars, tree, channel, closed, row, raced, exited>>
        /\ wpc[w] \in {"create", "receive"}
        /\ \E c \in {"receive", "done"} : wpc' = [wpc EXCEPT ![w] = c]
    BY <1>1 DEF Create, Finish
  <2>2. /\ wpc'["nodes"] = "write" <=> wpc["nodes"] = "write"
        /\ wpc["nodes"] = "unborn" => wpc'["nodes"] = "unborn"
    BY <1>0, <2>1 DEF Inv, TypeOK
  <2>3. TypeOK'
    BY <2>1 DEF Inv, TypeOK, mainVars
  <2>4. HandedOver' = HandedOver
    BY <2>1, <2>2, HandedOverSame
  <2>5. HandInv'
    BY <2>1, <2>2, <2>4 DEF Inv, HandInv, Early, Held, mainVars
  <2> QED BY <2>1, <2>3, <2>5 DEF Inv, TreeInv
<1>2. CASE WriteRow(w)
  <2> USE <1>2 DEF WriteRow, mainVars
  <2>1. /\ channel' \in [Writers -> Seq(Certs \cup Pairs)]
        /\ \A u \in Writers \ {"nodes"} : channel'[u] \in Seq(Certs)
        /\ channel'["nodes"] \in Seq(DOMAIN tree)
        /\ \A u \in Writers : Len(channel'[u]) <= Capacity
        /\ channel'["nodes"] = channel["nodes"]
    BY ReceiveFacts
  <2>2. TypeOK'
    BY <2>1 DEF Inv, TypeOK
  <2>3. HandedOver' = HandedOver
    BY <2>1, HandedOverSame
  <2>4. HandInv'
    BY <2>1, <2>3 DEF Inv, HandInv, Early, Held
  <2> QED BY <2>2, <2>4 DEF Inv, TreeInv
<1> QED BY <1>1, <1>2, ReceiveNodeInv, WriteNodeInv DEF Writer

LEMMA StepInv == Inv /\ [Next]_vars => Inv'
<1> SUFFICES ASSUME Inv, [Next]_vars PROVE Inv'
  OBVIOUS
<1>1. CASE Fatal \/ UNCHANGED vars
  <2>1. /\ UNCHANGED <<dataset, mainVars, tree, channel, closed, writerVars, raced>>
        /\ exited' \in BOOLEAN
    BY <1>1 DEF Fatal, vars, Inv, TypeOK
  <2>2. HandedOver' = HandedOver
    BY <2>1, HandedOverSame DEF writerVars
  <2>3. TypeOK'
    BY <2>1 DEF Inv, TypeOK, mainVars, writerVars
  <2>4. HandInv'
    BY <2>1, <2>2 DEF Inv, HandInv, mainVars, writerVars
  <2> QED BY <2>1, <2>3, <2>4 DEF Inv, TreeInv
<1> QED BY <1>1, MainInv, WriterInv DEF Next

LEMMA AlwaysInv == Spec => []Inv
BY InitInv, StepInv, PTL DEF Spec

(* Every variable of the importer keeps its type, no buffer holds more     *)
(* than its capacity.                                                      *)
THEOREM ImporterTypeCorrect == Spec => []TypeOK
<1>1. Inv => TypeOK
  BY DEF Inv
<1> QED BY <1>1, AlwaysInv, PTL

\* The nodes handed over stay the same, whichever action takes place.
LEMMA StepFinal ==
    Inv /\ [Next]_vars => \A p \in HandedOver \ raced' : tree'[p] = tree[p]
<1> SUFFICES ASSUME Inv, [Next]_vars, NEW p \in HandedOver, p \notin raced'
             PROVE  tree'[p] = tree[p]
  OBVIOUS
<1>0. p \in DOMAIN tree
  BY DEF Inv, HandInv
<1>1. CASE HashChild
  <2>1. p # at
    BY <1>1 DEF HashChild, Inv, HandInv, Held
  <2> QED BY <1>0, <1>1, <2>1, HashChildTree
<1>2. CASE WriteNode
  BY <1>0, <1>2, WriteNodeTree
<1>3. CASE AssignToNodes
  <2>1. HandedOver = {}
    BY <1>3, EmptyFacts DEF AssignToNodes, Inv, HandInv, Early, HandedOver
  <2> QED BY <2>1
<1>4. CASE UNCHANGED tree
  BY <1>4
<1>5. HashChild \/ WriteNode \/ AssignToNodes \/ UNCHANGED tree
  BY DEF Next, Main, Rows, Nodes, Writer, vars, ReadRow, SendSize, SendSample, SendAltitude,
         SendCertificate, CloseChannels, Visit, SendNode, CloseNodes, Wait, Create, WriteRow,
         ReceiveNode, Finish, Fatal
<1> QED BY <1>1, <1>2, <1>3, <1>4, <1>5

(* Hashing a parent changes no node whose pointer the writer holds.        *)
THEOREM NodesHandedOverAreFinal == Spec => HandedOverIsFinal
BY AlwaysInv, StepFinal, PTL DEF Spec, HandedOverIsFinal
-----------------------------------------------------------------------------
(* Rows and their children *)

\* Positions whose node main has finished.
Done == (DOMAIN tree \ unsent) \ (IF main \in Held THEN {at} ELSE {})

\* A node has a hash for each side and an array of certificates; only a
\* position that a certificate names can be a leaf.
ContentInv ==
    /\ \A p \in DOMAIN tree : tree[p].child = [s \in Sides |-> tree[p].child[s]]
    /\ \A p \in DOMAIN tree \ raced :
         tree[p].certs \in Array /\ (Leaf(p) => tree[p].certs # NoCerts)

\* The hash that p has for a child is that of the child as it is now.
HashIsCurrent(p, s) ==
    HasSide(p, s) /\ Child(p, s) \in DOMAIN tree \ raced =>
        tree[p].child[s] = HashOf(Child(p, s), tree[Child(p, s)])

\* Deeper positions are finished first, and sides are hashed in their order.
VisitedInv ==
    /\ main = "hash" => HasSide(at, SideOrder[side])
    /\ main = "send" => side = NoSide
    /\ main \notin Early =>
         \A p \in DOMAIN tree \ unsent : \A s \in Sides :
            HasSide(p, s) /\ Child(p, s) \in DOMAIN tree => Child(p, s) \in Done
    /\ main \notin Early => \A p \in Done : \A s \in Sides : HashIsCurrent(p, s)
    /\ main \in Held => \A j \in 1..side - 1 : HashIsCurrent(at, SideOrder[j])

\* A row that is written is still what the node is.
WrittenInv ==
    \A r \in WrittenNodes :
        /\ main \notin Early
        /\ r.at \in Done
        /\ r.node.child = tree[r.at].child
        /\ r.at \notin raced => r.node = tree[r.at]

\* Files are numbered from 0 without a gap while their writer writes.
FilesInv ==
    /\ files = [w \in Writers |-> files[w]]
    /\ \A w \in Writers : wpc[w] \in {"unborn", "create"} => DOMAIN files[w] = {}
    /\ \A w \in Writers : wpc[w] \in {"receive", "write"} => \E n \in Nat : DOMAIN files[w] = 0..n
    /\ \A i \in DOMAIN files["nodes"] : \E S : files["nodes"][i] \in Seq(S)

ExportInv == Inv /\ ContentInv /\ VisitedInv /\ WrittenInv /\ FilesInv

LEMMA SideFacts ==
    /\ NoSide = 5
    /\ \A j \in 1..4 : SideOrder[j] \in Sides
    /\ \A i, j \in 1..4 : SideOrder[i] = SideOrder[j] => i = j
    /\ \A s \in Sides : \E j \in 1..4 : s = SideOrder[j]
<1>1. /\ SideOrder[1] = "xyLeft" /\ SideOrder[2] = "xyRight"
      /\ SideOrder[3] = "zLeft" /\ SideOrder[4] = "zRight" /\ NoSide = 5
  BY DEF SideOrder, NoSide
<1>2. Sides = {"xyLeft", "xyRight", "zLeft", "zRight"}
  BY DEF Sides, XYSides, ZSides
<1>3. \A j \in 1..4 : j = 1 \/ j = 2 \/ j = 3 \/ j = 4
  OBVIOUS
<1> QED BY <1>1, <1>2, <1>3

\* A child is deeper than its parent.
LEMMA ChildIsDeeper ==
    ASSUME NEW p \in Pairs, NEW s \in Sides, HasSide(p, s)
    PROVE  Deeper(Child(p, s), p) /\ Child(p, s) # p
<1>1. p.xy \in Seq(Bit) /\ p.z \in Seq(Bit) /\ Len(p.xy) \in Nat /\ Len(p.z) \in Nat
  BY PairFacts
<1>2. SideBit(s) \in Bit
  BY DEF SideBit, Bit
<1>3. \A q \in Seq(Bit) : Len(Append(q, SideBit(s))) = Len(q) + 1
  BY <1>2
<1>4. CASE s \in XYSides
  <2>1. Child(p, s).xy = Append(p.xy, SideBit(s)) /\ Len(Append(p.xy, SideBit(s))) = Len(p.xy) + 1
    BY <1>1, <1>3, <1>4 DEF Child
  <2>2. Len(Child(p, s).xy) > Len(p.xy)
    BY <1>1, <2>1
  <2> QED BY <1>1, <2>2 DEF Deeper
<1>5. CASE s \notin XYSides
  <2>1. /\ Child(p, s).xy = p.xy
        /\ Child(p, s).z = Append(p.z, SideBit(s)) /\ Len(Append(p.z, SideBit(s))) = Len(p.z) + 1
    BY <1>1, <1>3, <1>5 DEF Child
  <2>2. Len(Child(p, s).z) > Len(p.z)
    BY <1>1, <2>1
  <2> QED BY <1>1, <2>1, <2>2 DEF Deeper
<1> QED BY <1>4, <1>5

\* What one child's hash changes: the parent's hash of it, and the child's
\* certificates in a race.
LEMMA HashChildNodes ==
    ASSUME Inv, VisitedInv, HashChild
    PROVE  LET q == Child(at, SideOrder[side])
           IN  /\ q \in DOMAIN tree \cap Done
               /\ \A p \in DOMAIN tree \ {at} : tree'[p].child = tree[p].child
               /\ \A p \in DOMAIN tree \ raced' : tree'[p].certs = tree[p].certs
               /\ \E h : /\ tree'[at].child = WithHash(tree[at].child, SideOrder[side], h)
                         /\ q \notin raced' => h = HashOf(q, tree[q])
<1> DEFINE q == Child(at, SideOrder[side])
<1>0. main = "hash" /\ main \in Held /\ main \notin Early /\ side \in 1..4
  BY SideFacts DEF HashChild, Held, Early, Inv, TypeOK, HandInv
<1>1. /\ q \in DOMAIN tree /\ at \in DOMAIN tree \ unsent /\ TreeInv
      /\ HasSide(at, SideOrder[side])
  BY <1>0 DEF Inv, HandInv, VisitedInv
<1>2. q \in Done
  BY <1>0, <1>1, SideFacts DEF VisitedInv
<1>3. q # at
  BY <1>0, <1>2 DEF Done
<1>4. PICK certs \in Sorted(q) :
        LET sorted == [tree EXCEPT ![q].certs = certs]
        IN  tree' = [sorted EXCEPT ![at].child[SideOrder[side]] = HashOf(q, sorted[q])]
  BY DEF HashChild
<1>5. raced' = RacedAfter(q)
  BY DEF HashChild
<1> HIDE DEF q
<1> DEFINE sorted == SetCerts(tree, q, certs)
           h == HashOf(q, sorted[q])
<1>6. tree' = SetHash(sorted, at, SideOrder[side], h)
  BY <1>4 DEF SetCerts, SetHash
<1>7. /\ DOMAIN sorted = DOMAIN tree /\ IsTree(sorted)
      /\ \A p \in DOMAIN tree : p # q \/ certs = tree[q].certs => sorted[p] = tree[p]
      /\ \A p \in DOMAIN tree : sorted[p].child = tree[p].child
  BY <1>1, SetCertsFacts DEF TreeInv
<1>8. q \notin raced' => certs = tree[q].certs
  BY <1>4, <1>5, SortedFacts
<1>9. q \notin raced' => h = HashOf(q, tree[q])
  BY <1>1, <1>7, <1>8
<1> HIDE DEF sorted, h
<1>10. /\ \A p \in DOMAIN sorted : p # at => tree'[p] = sorted[p]
  BY <1>1, <1>6, <1>7, SetHashFacts
<1>11. /\ tree'[at].child = WithHash(sorted[at].child, SideOrder[side], h)
       /\ tree'[at].certs = sorted[at].certs
  BY <1>1, <1>6, <1>7, SetHashNode
<1>12. sorted[at] = tree[at]
  BY <1>1, <1>3, <1>7
<1>13. \A p \in DOMAIN tree \ {at} : tree'[p].child = tree[p].child
  BY <1>7, <1>10
<1>14. ASSUME NEW p \in DOMAIN tree \ raced' PROVE tree'[p].certs = tree[p].certs
  <2>1. CASE p = at
    BY <1>11, <1>12, <2>1
  <2>2. CASE p # at
    BY <1>7, <1>8, <1>10, <2>2
  <2> QED BY <2>1, <2>2
<1>15. \E g : /\ tree'[at].child = WithHash(tree[at].child, SideOrder[side], g)
              /\ q \notin raced' => g = HashOf(q, tree[q])
  BY <1>9, <1>11, <1>12
<1> QED BY <1>1, <1>2, <1>13, <1>14, <1>15 DEF q

\* Writing a node changes no hash.
LEMMA WriteNodeChild ==
    ASSUME Inv, WriteNode
    PROVE  \A p \in DOMAIN tree : tree'[p].child = tree[p].child
<1>1. row \in HandedOver /\ row \in DOMAIN tree /\ TreeInv
  BY DEF WriteNode, Inv, HandInv, HandedOver
<1>2. PICK certs \in Sorted(row) : tree' = SetCerts(tree, row, certs)
  BY DEF WriteNode, SetCerts
<1> QED BY <1>1, <1>2, SetCertsFacts DEF TreeInv

\* The steps that leave the nodes alone.
LEMMA TreeSteps ==
    [Next]_vars => \/ HashChild \/ WriteNode
                   \/ AssignToNodes /\ UNCHANGED raced
                   \/ UNCHANGED <<tree, raced>>
BY DEF Next, Main, Rows, Nodes, Writer, vars, ReadRow, SendSize, SendSample, SendAltitude,
       AssignToNodes, SendCertificate, CloseChannels, Visit, SendNode, CloseNodes, Wait, Create,
       WriteRow, ReceiveNode, Finish, Fatal
-----------------------------------------------------------------------------
LEMMA OccurrencesFacts ==
    ASSUME NEW c \in Certs, NEW p
    PROVE  Occurrences(c, p) \in Nat /\ (p \in ToSet(Covers[c]) => Occurrences(c, p) > 0)
<1>1. Covers[c] \in Seq(Pairs)
  BY ImportAssumption DEF ImportAssumption
<1>2. Len(Covers[c]) \in Nat /\ DOMAIN Covers[c] = 1..Len(Covers[c])
  BY <1>1, LenProperties
<1> DEFINE I == {i \in DOMAIN Covers[c] : Covers[c][i] = p}
<1>3. IsFiniteSet(I)
  <2>1. IsFiniteSet(1..Len(Covers[c]))
    BY <1>2, FS_Interval
  <2>2. I \subseteq 1..Len(Covers[c])
    BY <1>2
  <2> HIDE DEF I
  <2> QED BY <2>1, <2>2, FS_Subset
<1>4. Cardinality(I) \in Nat
  BY <1>3, FS_CardinalityType
<1>5. p \in ToSet(Covers[c]) => I # {}
  BY DEF ToSet
<1>6. I # {} => Cardinality(I) # 0
  BY <1>3, FS_EmptySet
<1> QED BY <1>4, <1>5, <1>6 DEF Occurrences

\* An array to which something is added is not empty, and stays so.
LEMMA ArrayPlus ==
    ASSUME NEW a \in Array, NEW c \in Certs, NEW k \in Nat
    PROVE  /\ [a EXCEPT ![c] = @ + k] \in Array
           /\ a # NoCerts \/ k > 0 => [a EXCEPT ![c] = @ + k] # NoCerts
<1> DEFINE b == [a EXCEPT ![c] = @ + k]
<1>1. a[c] \in Nat /\ DOMAIN a = Certs /\ a = [d \in Certs |-> a[d]] /\ \A d \in Certs : a[d] \in Nat
  BY DEF Array
<1>2. b[c] = a[c] + k /\ \A d \in Certs : d # c => b[d] = a[d]
  BY <1>1
<1>3. b = [d \in Certs |-> b[d]] /\ \A d \in Certs : b[d] \in Nat
  BY <1>1, <1>2
<1> HIDE DEF b
<1>4. b \in Array
  BY <1>3 DEF Array
<1>5. ASSUME k > 0 PROVE b # NoCerts
  <2>1. b[c] # 0
    BY <1>1, <1>2, <1>5
  <2> QED BY <2>1 DEF NoCerts
<1>6. ASSUME a # NoCerts PROVE b # NoCerts
  <2>1. PICK d \in Certs : a[d] # 0
    BY <1>1, <1>6 DEF NoCerts
  <2>2. b[d] # 0
    BY <1>1, <1>2, <2>1
  <2> QED BY <2>2 DEF NoCerts
<1> QED BY <1>4, <1>5, <1>6 DEF b

\* A position above another one is no leaf.
LEMMA AncestorIsNoLeaf ==
    ASSUME NEW q \in Pairs, NEW p \in Ancestors(q), Leaf(p)
    PROVE  p = q
<1>1. p \in Pairs /\ (p # q => Deeper(q, p))
  BY AncestorsAbove
<1>2. /\ Len(q.xy) \in 0..XY_BITS /\ Len(q.z) \in 0..Z_BITS /\ XY_BITS \in Nat /\ Z_BITS \in Nat
      /\ Len(p.xy) = XY_BITS /\ Len(p.z) = Z_BITS
  BY PairFacts, BitsAssumption DEF Leaf
<1>3. ~Deeper(q, p)
  BY <1>2 DEF Deeper
<1> QED BY <1>1, <1>3

LEMMA AssignNodes == Inv /\ ContentInv /\ AssignToNodes /\ UNCHANGED raced => ContentInv'
<1> SUFFICES ASSUME Inv, ContentInv, AssignToNodes, UNCHANGED raced PROVE ContentInv'
  OBVIOUS
<1>1. cert \in Certs /\ tree' = Assigned(tree, cert)
  BY DEF AssignToNodes, Inv, HandInv, Early
<1>2. Covers[cert] \in Seq(Pairs)
  BY <1>1, ImportAssumption DEF ImportAssumption
<1>3. ToSet(Covers[cert]) \subseteq Pairs
  BY <1>2, LenProperties, ElementOfSeq DEF ToSet
<1> DEFINE certs(p) == IF p \in DOMAIN tree THEN tree[p].certs ELSE NoCerts
           new(p) == [certs(p) EXCEPT ![cert] = @ + Occurrences(cert, p)]
<1>4. /\ DOMAIN tree' = DOMAIN tree \cup ToSet(Covers[cert])
                        \cup UNION {Ancestors(q) : q \in ToSet(Covers[cert])}
      /\ \A p \in DOMAIN tree' : tree'[p] = NewRow(new(p))
  BY <1>1 DEF Assigned
<1>5. ASSUME NEW p \in DOMAIN tree'
      PROVE  tree'[p].certs = new(p) /\ tree'[p].child = [s \in Sides |-> Null]
  <2>1. tree'[p] = [child |-> [s \in Sides |-> Null], certs |-> new(p)]
    BY <1>4 DEF NewRow
  <2> HIDE DEF new
  <2> QED BY ONLY <2>1
<1>6. ASSUME NEW p \in DOMAIN tree', p \notin raced
      PROVE  new(p) \in Array /\ (Leaf(p) => new(p) # NoCerts)
  <2>1. Occurrences(cert, p) \in Nat /\ (p \in ToSet(Covers[cert]) => Occurrences(cert, p) > 0)
    BY <1>1, OccurrencesFacts
  <2>2. NoCerts \in Array
    BY DEF NoCerts, Array
  <2>3. certs(p) \in Array /\ (p \in DOMAIN tree /\ Leaf(p) => certs(p) # NoCerts)
    BY <1>6, <2>2 DEF ContentInv
  <2>4. Leaf(p) => p \in DOMAIN tree \/ p \in ToSet(Covers[cert])
    <3>1. ASSUME NEW q \in ToSet(Covers[cert]), p \in Ancestors(q), Leaf(p) PROVE p = q
      BY <1>3, <3>1, AncestorIsNoLeaf
    <3> QED BY <1>4, <3>1
  <2> HIDE DEF certs
  <2>5. new(p) \in Array /\ (certs(p) # NoCerts \/ Occurrences(cert, p) > 0 => new(p) # NoCerts)
    BY <1>1, <2>1, <2>3, ArrayPlus
  <2> HIDE DEF new
  <2> QED BY <2>1, <2>3, <2>4, <2>5
<1> HIDE DEF new
<1>7. \A p \in DOMAIN tree' : tree'[p].child = [s \in Sides |-> tree'[p].child[s]]
  BY <1>5
<1> QED BY <1>5, <1>6, <1>7 DEF ContentInv

LEMMA NodesStep == Inv /\ ContentInv /\ VisitedInv /\ [Next]_vars => ContentInv'
<1> SUFFICES ASSUME Inv, ContentInv, VisitedInv, [Next]_vars PROVE ContentInv'
  OBVIOUS
<1>1. CASE HashChild
  <2>1. DOMAIN tree' = DOMAIN tree /\ raced \subseteq raced'
    BY <1>1, HashChildTree, SortedFacts DEF HashChild
  <2>2. /\ \A p \in DOMAIN tree \ {at} : tree'[p].child = tree[p].child
        /\ \A p \in DOMAIN tree \ raced' : tree'[p].certs = tree[p].certs
    BY <1>1, HashChildNodes
  <2>3. PICK h : tree'[at].child = WithHash(tree[at].child, SideOrder[side], h)
    BY <1>1, HashChildNodes
  <2>4. ASSUME NEW p \in DOMAIN tree
        PROVE  tree'[p].child = [s \in Sides |-> tree'[p].child[s]]
    <3>1. tree[p].child = [s \in Sides |-> tree[p].child[s]]
      BY DEF ContentInv
    <3>2. CASE p = at
      BY <2>3, <3>1, <3>2 DEF WithHash
    <3>3. CASE p # at
      BY <2>2, <3>1, <3>3
    <3> QED BY <3>2, <3>3
  <2> QED BY <2>1, <2>2, <2>4 DEF ContentInv
<1>2. CASE WriteNode
  <2>1. /\ DOMAIN tree' = DOMAIN tree /\ raced \subseteq raced'
        /\ \A p \in DOMAIN tree : p \notin raced' => tree'[p] = tree[p]
    BY <1>2, WriteNodeTree, SortedFacts DEF WriteNode
  <2>2. \A p \in DOMAIN tree : tree'[p].child = tree[p].child
    BY <1>2, WriteNodeChild
  <2> QED BY <2>1, <2>2 DEF ContentInv
<1>3. CASE UNCHANGED <<tree, raced>>
  BY <1>3 DEF ContentInv
<1> QED BY <1>1, <1>2, <1>3, AssignNodes, TreeSteps

-----------------------------------------------------------------------------
\* A hash that was current stays so when neither it nor its child changes.
LEMMA HashStays ==
    ASSUME NEW p, NEW s, HashIsCurrent(p, s),
           DOMAIN tree' = DOMAIN tree, raced \subseteq raced',
           tree'[p].child[s] = tree[p].child[s],
           Child(p, s) \in DOMAIN tree \ raced' => tree'[Child(p, s)] = tree[Child(p, s)]
    PROVE  HashIsCurrent(p, s)'
BY DEF HashIsCurrent

LEMMA VisitStays ==
    ASSUME Inv, VisitedInv, UNCHANGED <<main, unsent, at, side>>,
           DOMAIN tree' = DOMAIN tree, raced \subseteq raced',
           \A p \in DOMAIN tree : tree'[p].child = tree[p].child,
           \A p \in DOMAIN tree \ raced' : tree'[p] = tree[p]
    PROVE  VisitedInv'
<1>1. Done' = Done /\ Done \subseteq DOMAIN tree
  BY DEF Done
<1>2. main \notin Early => \A p \in Done : \A s \in Sides : HashIsCurrent(p, s)'
  BY <1>1, HashStays DEF VisitedInv
<1>3. main \in Held => \A j \in 1..side - 1 : HashIsCurrent(at, SideOrder[j])'
  <2>1. main \in Held => at \in DOMAIN tree
    BY DEF Inv, HandInv
  <2>2. SUFFICES ASSUME main \in Held, NEW j \in 1..side - 1
                 PROVE  HashIsCurrent(at, SideOrder[j])'
    OBVIOUS
  <2>3. HashIsCurrent(at, SideOrder[j]) /\ tree'[at].child = tree[at].child
    BY <2>1, <2>2 DEF VisitedInv
  <2>4. HashIsCurrent(at, SideOrder[j])' <=>
            (HasSide(at, SideOrder[j]) /\ Child(at, SideOrder[j]) \in DOMAIN tree' \ raced' =>
                tree'[at].child[SideOrder[j]]
                    = HashOf(Child(at, SideOrder[j]), tree'[Child(at, SideOrder[j])]))
    BY DEF HashIsCurrent
  <2> QED BY <2>3, <2>4 DEF HashIsCurrent
<1>4. main \notin Early =>
         \A p \in DOMAIN tree \ unsent : \A s \in Sides :
            HasSide(p, s) /\ Child(p, s) \in DOMAIN tree => Child(p, s) \in Done
  BY DEF VisitedInv
<1>5. (main = "hash" => HasSide(at, SideOrder[side])) /\ (main = "send" => side = NoSide)
  BY DEF VisitedInv
<1> QED BY <1>1, <1>2, <1>3, <1>4, <1>5 DEF VisitedInv

LEMMA VisitVisit ==
    ASSUME NEW p \in unsent
    PROVE  Inv /\ VisitedInv /\ Visit(p) => VisitedInv'
<1> SUFFICES ASSUME Inv, VisitedInv, Visit(p) PROVE VisitedInv'
  OBVIOUS
<1> USE DEF Visit
<1>1. /\ main = "visit" /\ main' \in Held /\ main \notin Early /\ main' \notin Early
      /\ main \notin Held
      /\ p \in DOMAIN tree /\ p \in Pairs /\ at' = p /\ unsent' = unsent \ {p}
      /\ UNCHANGED <<tree, raced>>
  BY DEF Held, Early, Inv, TypeOK
<1>2. Done' = Done /\ Done = DOMAIN tree \ unsent
  BY <1>1 DEF Done
<1>3. ASSUME NEW s \in Sides, HasSide(p, s), Child(p, s) \in DOMAIN tree
      PROVE  Child(p, s) \in Done
  <2>1. Deeper(Child(p, s), p)
    BY <1>1, <1>3, ChildIsDeeper
  <2> QED BY <1>2, <1>3, <2>1
<1>4. ASSUME NEW q \in DOMAIN tree \ unsent', NEW s \in Sides,
             HasSide(q, s), Child(q, s) \in DOMAIN tree
      PROVE  Child(q, s) \in Done
  BY <1>1, <1>3, <1>4 DEF VisitedInv
<1>5. \A q \in Done : \A s \in Sides : HashIsCurrent(q, s)'
  BY <1>1 DEF VisitedInv, HashIsCurrent
<1>6. /\ side' = NextSide(p, 1) /\ 1 \in 1..NoSide
      /\ main' = IF side' = NoSide THEN "send" ELSE "hash"
  BY SideFacts
<1>7. /\ side' # NoSide => HasSide(p, SideOrder[side'])
      /\ \A j \in 1..side' - 1 : ~(HasSide(p, SideOrder[j]) /\ Child(p, SideOrder[j]) \in DOMAIN tree)
  BY <1>6, NextSideFacts
<1>8. \A j \in 1..side' - 1 : HashIsCurrent(at, SideOrder[j])'
  BY <1>1, <1>7 DEF HashIsCurrent
<1>9. (main' = "hash" => HasSide(at', SideOrder[side'])) /\ (main' = "send" => side' = NoSide)
  BY <1>1, <1>6, <1>7
<1> QED BY <1>1, <1>2, <1>4, <1>5, <1>8, <1>9 DEF VisitedInv

LEMMA VisitHash == Inv /\ ContentInv /\ VisitedInv /\ HashChild => VisitedInv'
<1> SUFFICES ASSUME Inv, ContentInv, VisitedInv, HashChild PROVE VisitedInv'
  OBVIOUS
<1> DEFINE q == Child(at, SideOrder[side])
<1>1. /\ main = "hash" /\ main' \in Held /\ main \in Held /\ main \notin Early /\ main' \notin Early
      /\ UNCHANGED <<at, unsent>> /\ at \in DOMAIN tree \ unsent /\ side \in 1..4
      /\ main' = IF side' = NoSide THEN "send" ELSE "hash"
      /\ side' = NextSide(at, side + 1) /\ side + 1 \in 1..NoSide
  BY SideFacts DEF HashChild, Held, Early, Inv, HandInv, TypeOK
<1>2. /\ DOMAIN tree' = DOMAIN tree
      /\ \A p \in DOMAIN tree : p # at /\ p \notin raced' => tree'[p] = tree[p]
      /\ raced \subseteq raced'
  BY HashChildTree, SortedFacts DEF HashChild
<1>3. /\ q \in DOMAIN tree \cap Done
      /\ \A p \in DOMAIN tree \ {at} : tree'[p].child = tree[p].child
  BY HashChildNodes
<1>4. PICK h : /\ tree'[at].child = WithHash(tree[at].child, SideOrder[side], h)
               /\ q \notin raced' => h = HashOf(q, tree[q])
  BY HashChildNodes
<1>5. Done' = Done /\ Done \subseteq DOMAIN tree \ {at}
  BY <1>1, <1>2 DEF Done
<1>6. ASSUME NEW p \in DOMAIN tree \ unsent, NEW s \in Sides,
             HasSide(p, s), Child(p, s) \in DOMAIN tree
      PROVE  Child(p, s) \in Done
  BY <1>1, <1>6 DEF VisitedInv
<1>7. ASSUME NEW p \in Done, NEW s \in Sides PROVE HashIsCurrent(p, s)'
  <2>1. HashIsCurrent(p, s) /\ p \in DOMAIN tree \ unsent
    BY <1>1 DEF VisitedInv, Done
  <2>2. tree'[p].child[s] = tree[p].child[s]
    BY <1>3, <1>5
  <2>3. HasSide(p, s) /\ Child(p, s) \in DOMAIN tree \ raced' => tree'[Child(p, s)] = tree[Child(p, s)]
    BY <1>2, <1>5, <1>6, <2>1
  <2> QED BY <1>2, <2>1, <2>2, <2>3 DEF HashIsCurrent
<1>8. tree[at].child = [s \in Sides |-> tree[at].child[s]]
  BY <1>1 DEF ContentInv
<1>9. ASSUME NEW j \in 1..side' - 1
      PROVE  HasSide(at, SideOrder[j]) /\ Child(at, SideOrder[j]) \in DOMAIN tree \ raced' =>
                tree'[at].child[SideOrder[j]]
                    = HashOf(Child(at, SideOrder[j]), tree'[Child(at, SideOrder[j])])
  <2>0. side' \in 1..5 /\ j \in 1..4 /\ SideOrder[j] \in Sides /\ SideOrder[side] \in Sides
    <3>1. side' \in 1..5
      BY <1>1, NextSideFacts, SideFacts
    <3> QED BY <1>1, <3>1, SideFacts
  <2>1. SUFFICES ASSUME HasSide(at, SideOrder[j]), Child(at, SideOrder[j]) \in DOMAIN tree \ raced'
                 PROVE  tree'[at].child[SideOrder[j]]
                            = HashOf(Child(at, SideOrder[j]), tree'[Child(at, SideOrder[j])])
    OBVIOUS
  <2>2. tree'[Child(at, SideOrder[j])] = tree[Child(at, SideOrder[j])]
    BY <1>1, <1>2, <1>5, <1>6, <2>0, <2>1
  <2>3. CASE j < side
    <3>1. HashIsCurrent(at, SideOrder[j]) /\ SideOrder[j] # SideOrder[side]
      BY <1>1, <2>0, <2>3, SideFacts DEF VisitedInv
    <3>2. tree'[at].child[SideOrder[j]] = tree[at].child[SideOrder[j]]
      BY <1>4, <1>8, <2>0, <3>1 DEF WithHash
    <3> QED BY <1>2, <2>1, <2>2, <3>1, <3>2 DEF HashIsCurrent
  <2>4. CASE j = side
    <3>1. tree'[at].child[SideOrder[j]] = h
      BY <1>4, <1>8, <2>0, <2>4 DEF WithHash
    <3> QED BY <1>4, <2>1, <2>2, <2>4, <3>1
  <2>5. CASE j > side
    <3>1. j \in side + 1..side' - 1
      BY <1>1, <2>0, <2>5
    <3> QED BY <1>1, <2>1, <3>1, NextSideFacts
  <2> QED BY <1>1, <2>0, <2>3, <2>4, <2>5
<1>10. \A j \in 1..side' - 1 : HashIsCurrent(at, SideOrder[j])'
  BY <1>1, <1>2, <1>9 DEF HashIsCurrent
<1>11. (main' = "hash" => HasSide(at', SideOrder[side'])) /\ (main' = "send" => side' = NoSide)
  <2>1. side' # NoSide => HasSide(at, SideOrder[side'])
    BY <1>1, NextSideFacts
  <2> QED BY <1>1, <2>1
<1> QED BY <1>1, <1>2, <1>5, <1>6, <1>7, <1>10, <1>11 DEF VisitedInv

LEMMA VisitSend == Inv /\ VisitedInv /\ SendNode => VisitedInv'
<1> SUFFICES ASSUME Inv, VisitedInv, SendNode PROVE VisitedInv'
  OBVIOUS
<1>1. /\ main = "send" /\ main' = "visit" /\ UNCHANGED <<tree, unsent, at, side, raced>>
      /\ side = 5 /\ at \in DOMAIN tree \ unsent
  BY SideFacts DEF SendNode, Inv, HandInv, Held, VisitedInv
<1>2. Done' = Done \cup {at}
  BY <1>1 DEF Done, Held
<1>3. \A s \in Sides : HashIsCurrent(at, s)
  BY <1>1, SideFacts DEF VisitedInv, Held
<1>4. \A p \in Done' : \A s \in Sides : HashIsCurrent(p, s)'
  BY <1>1, <1>2, <1>3 DEF VisitedInv, HashIsCurrent, Early
<1> QED BY <1>1, <1>2, <1>4 DEF VisitedInv, Early, Held

LEMMA VisitStep == Inv /\ ContentInv /\ VisitedInv /\ [Next]_vars => VisitedInv'
<1> SUFFICES ASSUME Inv, ContentInv, VisitedInv, [Next]_vars PROVE VisitedInv'
  OBVIOUS
<1>1. CASE UNCHANGED <<main, unsent, at, side, tree, raced>>
  <2>1. /\ \A p \in DOMAIN tree : tree'[p].child = tree[p].child
        /\ \A p \in DOMAIN tree \ raced' : tree'[p] = tree[p]
    BY <1>1
  <2> QED BY <1>1, <2>1, VisitStays
<1>2. CASE WriteNode
  <2>1. /\ DOMAIN tree' = DOMAIN tree /\ raced \subseteq raced'
        /\ \A p \in DOMAIN tree \ raced' : tree'[p] = tree[p]
        /\ UNCHANGED <<main, unsent, at, side>>
    BY <1>2, WriteNodeTree, SortedFacts DEF WriteNode, mainVars
  <2> QED BY <1>2, <2>1, WriteNodeChild, VisitStays
<1>3. CASE Rows
  <2>1. main' \in Early
    BY <1>3 DEF Rows, ReadRow, SendSize, SendSample, SendAltitude, AssignToNodes, SendCertificate, Early
  <2> QED BY <2>1 DEF VisitedInv, Early, Held
<1>4. CASE CloseChannels
  <2>1. main' = "visit" /\ unsent' = DOMAIN tree' /\ Done' = {}
    BY <1>4 DEF CloseChannels, Done
  <2> QED BY <2>1 DEF VisitedInv, Held
<1>5. CASE CloseNodes \/ \E i \in 1..Len(WaitOrder) - 1 : Wait(i)
  <2>1. /\ main \notin Early \cup Held /\ main' \notin Early \cup Held
        /\ UNCHANGED <<tree, raced, unsent>>
    BY <1>5 DEF CloseNodes, Wait, WaitOrder, Early, Held
  <2>2. Done' = Done
    BY <2>1 DEF Done
  <2>3. \A p \in Done : \A s \in Sides : HashIsCurrent(p, s)'
    BY <2>1 DEF VisitedInv, HashIsCurrent
  <2>4. main' # "hash" /\ main' # "send"
    BY <2>1 DEF Held
  <2> QED BY <2>1, <2>2, <2>3, <2>4 DEF VisitedInv
<1>6. \/ Rows \/ CloseChannels \/ (\E p \in unsent : Visit(p)) \/ HashChild \/ SendNode
      \/ CloseNodes \/ (\E i \in 1..Len(WaitOrder) - 1 : Wait(i)) \/ WriteNode
      \/ UNCHANGED <<main, unsent, at, side, tree, raced>>
  BY DEF Next, Main, Nodes, Writer, vars, mainVars, Create, WriteRow, ReceiveNode, Finish, Fatal
<1> QED BY <1>1, <1>2, <1>3, <1>4, <1>5, <1>6, VisitVisit, VisitHash, VisitSend

-----------------------------------------------------------------------------
\* The index of the last of n + 1 files.
LEMMA LastFile ==
    ASSUME NEW w, NEW n \in Nat, DOMAIN files[w] = 0..n
    PROVE  FileIndex(w) = n
<1>1. Cardinality(0..n) = n + 1
  BY FS_Interval
<1> QED BY <1>1 DEF FileIndex

\* One more row is in the last file, behind which a new one may follow.
LEMMA WrittenFacts ==
    ASSUME NEW w, NEW n \in Nat, DOMAIN files[w] = 0..n, NEW v
    PROVE  LET g == Written(w, v)
               rows == Append(files[w][n], v)
               full == w \in Split /\ Len(rows) > MAX_FILE_SIZE
           IN  /\ DOMAIN g = IF full THEN 0..n + 1 ELSE 0..n
               /\ \A i \in 0..n - 1 : g[i] = files[w][i]
               /\ g[n] = rows
               /\ full => g[n + 1] = <<>>
<1>1. FileIndex(w) = n /\ n \in 0..n /\ 0..n \cup {n} = 0..n
  BY LastFile
<1> DEFINE rows == Append(files[w][n], v)
           part == [j \in 0..n |-> IF j = n THEN rows ELSE files[w][j]]
<1>2. Part(w, n, rows) = part
  BY <1>1 DEF Part
<1>3. Written(w, v) = IF w \in Split /\ Len(rows) > MAX_FILE_SIZE
                      THEN [j \in 0..n + 1 |-> IF j <= n THEN part[j] ELSE <<>>]
                      ELSE part
  BY <1>1, <1>2 DEF Written
<1> HIDE DEF rows
<1>4. CASE w \in Split /\ Len(rows) > MAX_FILE_SIZE
  <2>1. Written(w, v) = [j \in 0..n + 1 |-> IF j <= n THEN part[j] ELSE <<>>]
    BY <1>3, <1>4
  <2>2. /\ \A i \in 0..n - 1 : i \in 0..n + 1 /\ i <= n /\ i # n /\ i \in 0..n
        /\ n \in 0..n + 1 /\ n <= n /\ n + 1 \in 0..n + 1 /\ ~(n + 1 <= n)
    OBVIOUS
  <2> QED BY <1>1, <1>4, <2>1, <2>2 DEF rows
<1>5. CASE ~(w \in Split /\ Len(rows) > MAX_FILE_SIZE)
  <2>1. Written(w, v) = part
    BY <1>3, <1>5
  <2>2. \A i \in 0..n - 1 : i # n /\ i \in 0..n
    OBVIOUS
  <2> QED BY <1>1, <1>5, <2>1, <2>2 DEF rows
<1> QED BY <1>4, <1>5

\* The steps of the writers are those that touch the files.
LEMMA FileSteps ==
    [Next]_vars => \/ UNCHANGED <<wpc, files>>
                   \/ CloseChannels \/ (\E i \in 1..Len(WaitOrder) - 1 : Wait(i))
                   \/ (\E w \in Writers : Create(w) \/ WriteRow(w) \/ Finish(w))
                   \/ ReceiveNode \/ WriteNode
BY DEF Next, Main, Rows, Nodes, Writer, vars, writerVars, ReadRow, SendSize, SendSample,
       SendAltitude, AssignToNodes, SendCertificate, Visit, HashChild, SendNode, CloseNodes, Fatal

\* A writer that has received a row keeps its files numbered.
LEMMA WrittenKeepsFiles ==
    ASSUME FilesInv, NEW w \in Writers, wpc[w] \in {"receive", "write"}, NEW v,
           files' = [files EXCEPT ![w] = Written(w, v)]
    PROVE  /\ files' = [u \in Writers |-> files'[u]]
           /\ \A u \in Writers : u # w => files'[u] = files[u]
           /\ files'[w] = Written(w, v)
           /\ \E n \in Nat : DOMAIN files'[w] = 0..n
           /\ \A i \in DOMAIN files'["nodes"] : \E S : files'["nodes"][i] \in Seq(S)
<1>1. /\ files' = [u \in Writers |-> files'[u]]
      /\ \A u \in Writers : u # w => files'[u] = files[u]
      /\ files'[w] = Written(w, v)
  BY DEF FilesInv
<1>2. PICK n \in Nat : DOMAIN files[w] = 0..n
  BY DEF FilesInv
<1>3. n + 1 \in Nat
  BY <1>2
<1>4. \E m \in Nat : DOMAIN files'[w] = 0..m
  BY <1>1, <1>2, <1>3, WrittenFacts
<1>5. ASSUME w = "nodes", NEW i \in DOMAIN files'["nodes"]
      PROVE  \E S : files'["nodes"][i] \in Seq(S)
  <2>1. DOMAIN files'["nodes"] \subseteq 0..n + 1
    BY <1>1, <1>2, <1>5, WrittenFacts
  <2>2. CASE i \in 0..n - 1
    <3>1. i \in DOMAIN files["nodes"]
      BY <1>2, <1>5, <2>2
    <3>2. files'["nodes"][i] = files["nodes"][i]
      BY <1>1, <1>2, <1>5, <2>2, WrittenFacts
    <3> QED BY <3>1, <3>2 DEF FilesInv
  <2>3. CASE i = n
    <3>1. n \in DOMAIN files["nodes"]
      BY <1>2, <1>5
    <3>2. PICK S : files["nodes"][n] \in Seq(S)
      BY <3>1 DEF FilesInv
    <3> DEFINE T == S \cup {v}
    <3>3. files["nodes"][n] \in Seq(T) /\ v \in T
      BY <3>2, LenProperties, ElementOfSeq
    <3> HIDE DEF T
    <3>4. Append(files["nodes"][n], v) \in Seq(T)
      BY <3>3, AppendProperties
    <3>5. files'["nodes"][i] = Append(files["nodes"][n], v)
      BY <1>1, <1>2, <1>5, <2>3, WrittenFacts
    <3> QED BY <3>4, <3>5
  <2>4. CASE i \notin 0..n - 1 /\ i # n
    <3>1. i = n + 1
      BY <1>2, <2>1, <2>4
    <3>2. files'["nodes"][i] = <<>>
      BY <1>1, <1>2, <1>5, <3>1, WrittenFacts
    <3> QED BY <3>2, EmptyFacts
  <2> QED BY <2>2, <2>3, <2>4
<1>6. ASSUME w # "nodes", NEW i \in DOMAIN files'["nodes"]
      PROVE  \E S : files'["nodes"][i] \in Seq(S)
  <2>1. files'["nodes"] = files["nodes"]
    BY <1>1, <1>6 DEF Writers, Split
  <2> QED BY <1>6, <2>1 DEF FilesInv
<1> QED BY <1>1, <1>4, <1>5, <1>6

LEMMA FilesStep == Inv /\ FilesInv /\ [Next]_vars => FilesInv'
<1> SUFFICES ASSUME Inv, FilesInv, [Next]_vars PROVE FilesInv'
  OBVIOUS
<1>0. /\ wpc \in [Writers -> {"unborn", "create", "receive", "write", "done", "ended"}]
      /\ "nodes" \in Writers
  BY DEF Inv, TypeOK, Writers, Split
<1>1. CASE UNCHANGED <<wpc, files>>
  BY <1>1 DEF FilesInv
<1>2. CASE CloseChannels
  <2>1. /\ wpc["nodes"] = "unborn" /\ wpc' = [wpc EXCEPT !["nodes"] = "create"] /\ files' = files
    BY <1>2 DEF CloseChannels, Inv, HandInv, Early
  <2> QED BY <1>0, <2>1 DEF FilesInv
<1>3. CASE \E i \in 1..Len(WaitOrder) - 1 : Wait(i)
  <2>1. PICK i \in 1..Len(WaitOrder) - 1 : Wait(i)
    BY <1>3
  <2>2. i \in 1..5 /\ main = WaitOrder[i]
    BY <2>1 DEF WaitOrder, Wait
  <2>3. main \in Writers
    BY <2>2 DEF WaitOrder, Writers, Split, Measurements
  <2>4. wpc' = [wpc EXCEPT ![main] = "ended"] /\ files' = files
    BY <2>1 DEF Wait
  <2> QED BY <1>0, <2>3, <2>4 DEF FilesInv
<1>4. ASSUME NEW w \in Writers, Create(w) PROVE FilesInv'
  <2>1. /\ DOMAIN files[w] = {} /\ files' = [files EXCEPT ![w] = Part(w, 0, <<>>)]
        /\ wpc' = [wpc EXCEPT ![w] = "receive"]
    BY <1>4 DEF Create, FilesInv
  <2>2. Part(w, 0, <<>>) = [j \in 0..0 |-> <<>>]
    <3>1. 0..0 = {0}
      OBVIOUS
    <3> QED BY <2>1, <3>1 DEF Part
  <2>3. /\ files' = [u \in Writers |-> files'[u]] /\ \A u \in Writers : u # w => files'[u] = files[u]
        /\ DOMAIN files'[w] = 0..0 /\ \A j \in DOMAIN files'[w] : files'[w][j] = <<>>
    BY <2>1, <2>2 DEF FilesInv
  <2>4. \A u \in Writers : u # w => wpc'[u] = wpc[u]
    BY <1>0, <2>1
  <2>5. wpc'[w] = "receive" /\ 0 \in Nat
    BY <1>0, <2>1
  <2>6. \A i \in DOMAIN files'["nodes"] : \E S : files'["nodes"][i] \in Seq(S)
    <3>1. CASE w = "nodes"
      <4>1. \A i \in DOMAIN files'["nodes"] : files'["nodes"][i] = <<>>
        BY <2>3, <3>1
      <4>2. <<>> \in Seq({})
        BY EmptyFacts
      <4> QED BY <4>1, <4>2
    <3>2. CASE w # "nodes"
      BY <1>0, <2>3, <3>2 DEF FilesInv
    <3> QED BY <3>1, <3>2
  <2> QED BY <2>3, <2>4, <2>5, <2>6 DEF FilesInv
<1>5. ASSUME NEW w \in Writers, WriteRow(w) PROVE FilesInv'
  <2>1. wpc[w] = "receive" /\ wpc' = wpc
    BY <1>5 DEF WriteRow
  <2>2. /\ files' = [u \in Writers |-> files'[u]]
        /\ \A u \in Writers : u # w => files'[u] = files[u]
        /\ \E n \in Nat : DOMAIN files'[w] = 0..n
        /\ \A i \in DOMAIN files'["nodes"] : \E S : files'["nodes"][i] \in Seq(S)
    BY <1>5, <2>1, WrittenKeepsFiles DEF WriteRow
  <2> QED BY <2>1, <2>2 DEF FilesInv
<1>6. ASSUME NEW w \in Writers, Finish(w) PROVE FilesInv'
  <2>1. /\ wpc' = [wpc EXCEPT ![w] = "done"]
        /\ \/ files' = files
           \/ files' = [files EXCEPT ![w] = [i \in DOMAIN files[w] \ {RemovedFile(w)} |-> files[w][i]]]
    BY <1>6 DEF Finish
  <2>2. /\ files' = [u \in Writers |-> files'[u]]
        /\ \A u \in Writers : u # w => files'[u] = files[u] /\ wpc'[u] = wpc[u]
        /\ wpc'[w] = "done"
        /\ DOMAIN files'[w] \subseteq DOMAIN files[w]
        /\ \A i \in DOMAIN files'[w] : files'[w][i] = files[w][i]
    BY <1>0, <2>1 DEF FilesInv
  <2>3. \A i \in DOMAIN files'["nodes"] : \E S : files'["nodes"][i] \in Seq(S)
    BY <1>0, <2>2 DEF FilesInv
  <2> QED BY <2>2, <2>3 DEF FilesInv
<1>7. CASE ReceiveNode
  <2>1. wpc["nodes"] = "receive" /\ wpc' = [wpc EXCEPT !["nodes"] = "write"] /\ files' = files
    BY <1>7 DEF ReceiveNode
  <2> QED BY <1>0, <2>1 DEF FilesInv
<1>8. CASE WriteNode
  <2>1. /\ wpc["nodes"] = "write" /\ wpc' = [wpc EXCEPT !["nodes"] = "receive"]
        /\ files' = [files EXCEPT !["nodes"] = Written("nodes", [at |-> row, node |-> tree'[row]])]
    BY <1>8 DEF WriteNode
  <2>2. /\ files' = [u \in Writers |-> files'[u]]
        /\ \A u \in Writers : u # "nodes" => files'[u] = files[u]
        /\ \E n \in Nat : DOMAIN files'["nodes"] = 0..n
        /\ \A i \in DOMAIN files'["nodes"] : \E S : files'["nodes"][i] \in Seq(S)
    BY <1>0, <2>1, WrittenKeepsFiles
  <2> QED BY <1>0, <2>1, <2>2 DEF FilesInv
<1> QED BY <1>1, <1>2, <1>3, <1>4, <1>5, <1>6, <1>7, <1>8, FileSteps

-----------------------------------------------------------------------------
\* What has been written is kept, and one row at most is added.
LEMMA WrittenRows ==
    ASSUME FilesInv, wpc["nodes"] \in {"receive", "write"},
           NEW v, files'["nodes"] = Written("nodes", v)
    PROVE  WrittenNodes' \subseteq WrittenNodes \cup {v}
<1>0. "nodes" \in Writers
  BY DEF Writers, Split
<1>1. files'["nodes"] = Written("nodes", v)
  OBVIOUS
<1>2. PICK n \in Nat : DOMAIN files["nodes"] = 0..n
  BY <1>0 DEF FilesInv
<1>3. PICK S : files["nodes"][n] \in Seq(S)
  <2>1. n \in DOMAIN files["nodes"]
    BY <1>2
  <2> QED BY <2>1 DEF FilesInv
<1>4. ToSet(Append(files["nodes"][n], v)) = ToSet(files["nodes"][n]) \cup {v}
  <2> DEFINE T == S \cup {v}
  <2>1. files["nodes"][n] \in Seq(T) /\ v \in T
    BY <1>3, LenProperties, ElementOfSeq
  <2> HIDE DEF T
  <2> QED BY <2>1, AppendFacts
<1>5. ASSUME NEW i \in DOMAIN files'["nodes"]
      PROVE  ToSet(files'["nodes"][i]) \subseteq WrittenNodes \cup {v}
  <2>1. i \in 0..n + 1
    BY <1>1, <1>2, <1>5, WrittenFacts
  <2>2. CASE i \in 0..n - 1
    <3>1. i \in DOMAIN files["nodes"] /\ files'["nodes"][i] = files["nodes"][i]
      BY <1>1, <1>2, <2>2, WrittenFacts
    <3> QED BY <3>1 DEF WrittenNodes
  <2>3. CASE i = n
    <3>1. n \in DOMAIN files["nodes"] /\ files'["nodes"][i] = Append(files["nodes"][n], v)
      BY <1>1, <1>2, <2>3, WrittenFacts
    <3>2. ToSet(files["nodes"][n]) \subseteq WrittenNodes
      BY <3>1 DEF WrittenNodes
    <3> QED BY <1>4, <3>1, <3>2
  <2>4. CASE i \notin 0..n - 1 /\ i # n
    <3>1. i = n + 1
      BY <1>2, <2>1, <2>4
    <3>2. files'["nodes"][i] = <<>>
      BY <1>1, <1>2, <1>5, <3>1, WrittenFacts
    <3> QED BY <3>2, EmptyFacts
  <2> QED BY <2>2, <2>3, <2>4
<1> QED BY <1>5 DEF WrittenNodes

\* No node that main has finished is worked on again.
LEMMA DoneStays == Inv /\ VisitedInv /\ [Next]_vars /\ main \notin Early => main' \notin Early /\ Done \subseteq Done'
<1> SUFFICES ASSUME Inv, VisitedInv, [Next]_vars, main \notin Early
             PROVE  main' \notin Early /\ Done \subseteq Done'
  OBVIOUS
<1>1. CASE UNCHANGED <<main, unsent, at>> /\ DOMAIN tree' = DOMAIN tree
  BY <1>1 DEF Done
<1>2. CASE WriteNode
  <2>1. DOMAIN tree' = DOMAIN tree /\ UNCHANGED <<main, unsent, at>>
    BY <1>2, WriteNodeTree DEF WriteNode, mainVars
  <2> QED BY <1>1, <2>1
<1>3. CASE HashChild
  <2>1. DOMAIN tree' = DOMAIN tree /\ UNCHANGED <<unsent, at>> /\ main \in Held /\ main' \in Held
    BY <1>3, HashChildTree DEF HashChild, Held
  <2> QED BY <2>1 DEF Done, Held, Early
<1>4. CASE SendNode
  <2>1. main \in Held /\ main' = "visit" /\ UNCHANGED <<tree, unsent>>
    BY <1>4 DEF SendNode, Held
  <2> QED BY <2>1 DEF Done, Held, Early
<1>5. ASSUME NEW p \in unsent, Visit(p) PROVE main' \notin Early /\ Done \subseteq Done'
  <2>1. /\ main = "visit" /\ main' \in Held /\ UNCHANGED tree
        /\ unsent' = unsent \ {p} /\ at' = p
    BY <1>5 DEF Visit, Held
  <2> QED BY <2>1 DEF Done, Held, Early
<1>6. CASE CloseNodes \/ \E i \in 1..Len(WaitOrder) - 1 : Wait(i)
  <2>1. main \notin Held /\ main' \notin Early \cup Held /\ UNCHANGED <<tree, unsent>>
    BY <1>6 DEF CloseNodes, Wait, WaitOrder, Early, Held
  <2> QED BY <2>1 DEF Done
<1>7. CASE Rows \/ CloseChannels
  BY <1>7 DEF Rows, CloseChannels, ReadRow, SendSize, SendSample, SendAltitude, AssignToNodes,
              SendCertificate, Early
<1>8. \/ Rows \/ CloseChannels \/ (\E p \in unsent : Visit(p)) \/ HashChild \/ SendNode
      \/ CloseNodes \/ (\E i \in 1..Len(WaitOrder) - 1 : Wait(i)) \/ WriteNode
      \/ UNCHANGED <<main, unsent, at, tree>>
  BY DEF Next, Main, Nodes, Writer, vars, mainVars, Create, WriteRow, ReceiveNode, Finish, Fatal
<1> QED BY <1>1, <1>2, <1>3, <1>4, <1>5, <1>6, <1>7, <1>8

\* A node that main has finished keeps its hashes, and its certificates
\* unless they are in a race.
LEMMA DoneIsFinal ==
    ASSUME Inv, VisitedInv, [Next]_vars, main \notin Early, NEW p \in Done
    PROVE  tree'[p].child = tree[p].child /\ (p \notin raced' => tree'[p] = tree[p])
<1>0. p \in DOMAIN tree /\ (main \in Held => p # at)
  BY DEF Done
<1>1. CASE HashChild
  <2>1. main \in Held
    BY <1>1 DEF HashChild, Held
  <2> QED BY <1>0, <1>1, <2>1, HashChildTree, HashChildNodes
<1>2. CASE WriteNode
  BY <1>0, <1>2, WriteNodeTree, WriteNodeChild
<1>3. CASE AssignToNodes
  BY <1>3 DEF AssignToNodes, Early
<1>4. CASE UNCHANGED tree
  BY <1>4
<1> QED BY <1>1, <1>2, <1>3, <1>4, TreeSteps

LEMMA RowsStep == Inv /\ VisitedInv /\ FilesInv /\ WrittenInv /\ [Next]_vars => WrittenInv'
<1> SUFFICES ASSUME Inv, VisitedInv, FilesInv, WrittenInv, [Next]_vars, NEW r \in WrittenNodes'
             PROVE  /\ main' \notin Early
                    /\ r.at \in Done'
                    /\ r.node.child = tree'[r.at].child
                    /\ r.at \notin raced' => r.node = tree'[r.at]
  BY DEF WrittenInv
<1>0. raced \subseteq raced' /\ "nodes" \in Writers
  BY TreeSteps, SortedFacts DEF HashChild, WriteNode, Writers, Split
<1>1. CASE r \in WrittenNodes
  <2>1. /\ main \notin Early /\ r.at \in Done /\ r.node.child = tree[r.at].child
        /\ r.at \notin raced => r.node = tree[r.at]
    BY <1>1 DEF WrittenInv
  <2>2. main' \notin Early /\ r.at \in Done'
    BY <2>1, DoneStays
  <2>3. /\ tree'[r.at].child = tree[r.at].child
        /\ r.at \notin raced' => tree'[r.at] = tree[r.at]
    BY <2>1, DoneIsFinal
  <2> QED BY <1>0, <2>1, <2>2, <2>3
<1>2. CASE WriteNode /\ r \notin WrittenNodes
  <2>1. PICK v : /\ v = [at |-> row, node |-> tree'[row]]
                 /\ files' = [files EXCEPT !["nodes"] = Written("nodes", v)]
    BY <1>2 DEF WriteNode
  <2>2. wpc["nodes"] = "write" /\ wpc["nodes"] \in {"receive", "write"}
    BY <1>2 DEF WriteNode
  <2>8. WrittenNodes' \subseteq WrittenNodes \cup {v}
    <3>1. files'["nodes"] = Written("nodes", v)
      BY <1>0, <2>1 DEF FilesInv
    <3> QED BY <2>2, <3>1, WrittenRows
  <2>3. row \in Done /\ main \notin Early
    BY <2>2 DEF Inv, HandInv, HandedOver, Done
  <2>4. r.at = row /\ r.node = tree'[row]
    BY <1>2, <2>1, <2>8
  <2>5. main' \notin Early /\ row \in Done'
    BY <2>3, DoneStays
  <2> QED BY <2>4, <2>5
<1>3. CASE ~WriteNode
  <2>1. CASE files'["nodes"] = files["nodes"]
    <3>1. WrittenNodes' = WrittenNodes
      BY <2>1 DEF WrittenNodes
    <3> QED BY <1>1, <3>1
  <2>2. CASE Create("nodes")
    <3>1. DOMAIN files["nodes"] = {} /\ files' = [files EXCEPT !["nodes"] = Part("nodes", 0, <<>>)]
      BY <1>0, <2>2 DEF Create, FilesInv
    <3>2. files'["nodes"] = Part("nodes", 0, <<>>)
      BY <1>0, <3>1 DEF FilesInv
    <3>3. DOMAIN files'["nodes"] = {0} /\ files'["nodes"][0] = <<>>
      BY <3>1, <3>2 DEF Part
    <3>4. WrittenNodes' = {}
      BY <3>3, EmptyFacts DEF WrittenNodes
    <3> QED BY <3>4
  <2>3. CASE Finish("nodes")
    <3>1. \/ files' = files
          \/ files' = [files EXCEPT !["nodes"] =
                [i \in DOMAIN files["nodes"] \ {RemovedFile("nodes")} |-> files["nodes"][i]]]
      BY <2>3 DEF Finish
    <3>2. /\ DOMAIN files'["nodes"] \subseteq DOMAIN files["nodes"]
          /\ \A i \in DOMAIN files'["nodes"] : files'["nodes"][i] = files["nodes"][i]
      BY <1>0, <3>1 DEF FilesInv
    <3>3. WrittenNodes' \subseteq WrittenNodes
      BY <3>2 DEF WrittenNodes
    <3> QED BY <1>1, <3>3
  <2>4. files'["nodes"] = files["nodes"] \/ Create("nodes") \/ Finish("nodes")
    <3>1. CASE UNCHANGED <<wpc, files>> \/ CloseChannels \/ (\E i \in 1..Len(WaitOrder) - 1 : Wait(i))
               \/ ReceiveNode
      BY <3>1 DEF CloseChannels, Wait, ReceiveNode
    <3>2. ASSUME NEW w \in Writers \ {"nodes"}, Create(w) \/ WriteRow(w) \/ Finish(w)
          PROVE  files'["nodes"] = files["nodes"]
      <4>1. files' = files \/ \E g : files' = [files EXCEPT ![w] = g]
        BY <3>2 DEF Create, WriteRow, Finish
      <4> QED BY <1>0, <4>1 DEF FilesInv
    <3>3. ~WriteRow("nodes")
      BY DEF WriteRow
    <3> QED BY <1>3, <3>1, <3>2, <3>3, FileSteps
  <2> QED BY <2>1, <2>2, <2>3, <2>4
<1> QED BY <1>1, <1>2, <1>3

LEMMA InitExport == Init => ExportInv
<1> SUFFICES ASSUME Init PROVE ExportInv
  OBVIOUS
<1>1. Inv
  BY InitInv
<1>2. /\ DOMAIN tree = {} /\ main = "read" /\ "nodes" \in Writers
      /\ files = [w \in Writers |-> [i \in {} |-> <<>>]]
      /\ wpc = [w \in Writers |-> IF w = "nodes" THEN "unborn" ELSE "create"]
  BY DEF Init, Writers, Split
<1>3. ContentInv /\ VisitedInv
  BY <1>2 DEF ContentInv, VisitedInv, Early, Held
<1>4. \A w \in Writers : DOMAIN files[w] = {} /\ wpc[w] \in {"unborn", "create"}
  BY <1>2
<1>5. FilesInv
  BY <1>2, <1>4 DEF FilesInv
<1>6. WrittenNodes = {}
  BY <1>2, <1>4 DEF WrittenNodes
<1> QED BY <1>1, <1>3, <1>5, <1>6 DEF ExportInv, WrittenInv

LEMMA AlwaysExport == Spec => []ExportInv
<1>1. ExportInv /\ [Next]_vars => ExportInv'
  BY StepInv, NodesStep, VisitStep, FilesStep, RowsStep DEF ExportInv
<1> QED BY <1>1, InitExport, PTL DEF Spec

(* A parent's row holds the hash that the database computes for its        *)
(* child's row, for any tree, although the rows are written while main is  *)
(* still hashing and a file may be full at any row.                        *)
THEOREM RowsAgreeWithTheirChildren == Spec => []RowsHashTheirChildren
<1>1. ASSUME ExportInv PROVE RowsHashTheirChildren
  <2>1. SUFFICES ASSUME NEW r \in WrittenNodes, NEW q \in WrittenNodes, NEW s \in Sides,
                        HasSide(r.at, s), Child(r.at, s) = q.at, q.at \notin raced
                 PROVE  r.node.child[s] = smt_hash(q.at, q.node)
    BY DEF RowsHashTheirChildren
  <2>2. /\ main \notin Early /\ r.at \in Done /\ q.at \in Done
        /\ r.node.child = tree[r.at].child /\ q.node = tree[q.at]
    BY <1>1, <2>1 DEF ExportInv, WrittenInv
  <2>3. q.at \in DOMAIN tree \ raced
    BY <2>1, <2>2 DEF Done
  <2>4. tree[r.at].child[s] = HashOf(q.at, tree[q.at])
    BY <1>1, <2>1, <2>2, <2>3 DEF ExportInv, VisitedInv, HashIsCurrent
  <2>5. Leaf(q.at) => tree[q.at].certs # NoCerts
    BY <1>1, <2>3 DEF ExportInv, ContentInv
  <2>6. HashOf(q.at, tree[q.at]) = smt_hash(q.at, tree[q.at])
    <3>1. CASE Leaf(q.at)
      BY <2>5, <3>1 DEF HashOf, smt_hash
    <3>2. CASE ~Leaf(q.at)
      BY <3>2 DEF HashOf, smt_hash
    <3> QED BY <3>1, <3>2
  <2> QED BY <2>2, <2>4, <2>6
<1> QED BY <1>1, AlwaysExport, PTL

-----------------------------------------------------------------------------
(* Files of certificates *)

AmongAt(V, S, k) ==
    IF k = 0 THEN <<>>
    ELSE IF dataset[k] \in S THEN Append(V[k - 1], dataset[k])
    ELSE V[k - 1]

\* The rows chosen among the first k are those among the first k - 1, and the
\* k-th if it is one.
LEMMA ChosenUnfolded ==
    ASSUME NEW S, Len(dataset) \in Nat
    PROVE  Chosen(S) = [k \in 0..Len(dataset) |-> AmongAt(Chosen(S), S, k)]
<1> DEFINE n == Len(dataset)
           T == {m \in 0..n : \E V : V = [k \in 0..m |-> AmongAt(V, S, k)]}
<1>1. 0 \in T
  <2> DEFINE V == [k \in 0..0 |-> <<>>]
  <2>1. \A k \in 0..0 : AmongAt(V, S, k) = <<>>
    BY DEF AmongAt
  <2>2. V = [k \in 0..0 |-> AmongAt(V, S, k)]
    <3> HIDE DEF V
    <3>1. V = [k \in 0..0 |-> <<>>]
      BY DEF V
    <3> QED BY <2>1, <3>1
  <2> HIDE DEF V
  <2> QED BY <2>2
<1>2. ASSUME NEW m \in 0..n - 1, m \in T PROVE m + 1 \in T
  <2>1. PICK V : V = [k \in 0..m |-> AmongAt(V, S, k)]
    BY <1>2
  <2> DEFINE W == [k \in 0..m + 1 |-> IF k \in 0..m THEN V[k] ELSE AmongAt(V, S, k)]
  <2>2. ASSUME NEW k \in 0..m + 1 PROVE W[k] = AmongAt(W, S, k)
    <3>1. W[k] = AmongAt(V, S, k)
      <4>1. k \in 0..m => V[k] = AmongAt(V, S, k)
        BY <2>1
      <4> QED BY <4>1
    <3>2. k # 0 => W[k - 1] = V[k - 1]
      <4>1. k # 0 => k - 1 \in 0..m /\ k - 1 \in 0..m + 1
        OBVIOUS
      <4> QED BY <4>1
    <3> HIDE DEF W
    <3> QED BY <3>1, <3>2 DEF AmongAt
  <2>3. W = [k \in 0..m + 1 |-> AmongAt(W, S, k)]
    <3> DEFINE G == [k \in 0..m + 1 |-> AmongAt(W, S, k)]
    <3>1. \A k \in 0..m + 1 : W[k] = G[k]
      <4> HIDE DEF W
      <4> QED BY <2>2
    <3>2. W = [k \in 0..m + 1 |-> W[k]] /\ G = [k \in 0..m + 1 |-> G[k]]
      OBVIOUS
    <3> HIDE DEF W, G
    <3>3. W = G
      BY <3>1, <3>2
    <3> QED BY <3>3 DEF G
  <2>4. m + 1 \in 0..n
    OBVIOUS
  <2> HIDE DEF W
  <2> QED BY <2>3, <2>4
<1> HIDE DEF T
<1>3. n \in T
  <2>1. n \in 0..n
    OBVIOUS
  <2> QED BY <1>1, <1>2, <2>1, Upwards
<1>4. \E V : V = [k \in 0..Len(dataset) |-> AmongAt(V, S, k)]
  BY <1>3 DEF T
<1> QED BY <1>4 DEF Chosen, AmongAt

LEMMA ChosenFacts ==
    ASSUME NEW S, Len(dataset) \in Nat
    PROVE  /\ Chosen(S)[0] = <<>>
           /\ \A k \in 1..Len(dataset) :
                Chosen(S)[k] = IF dataset[k] \in S THEN Append(Chosen(S)[k - 1], dataset[k])
                               ELSE Chosen(S)[k - 1]
           /\ \A k \in 0..Len(dataset) : Chosen(S)[k] \in Seq(S)
<1>1. \A k \in 0..Len(dataset) : Chosen(S)[k] = AmongAt(Chosen(S), S, k)
  <2> DEFINE C == Chosen(S)
  <2>1. C = [k \in 0..Len(dataset) |-> AmongAt(C, S, k)]
    BY ChosenUnfolded
  <2> HIDE DEF C
  <2>2. \A k \in 0..Len(dataset) : C[k] = AmongAt(C, S, k)
    BY <2>1
  <2> QED BY <2>2 DEF C
<1>2. Chosen(S)[0] = <<>>
  BY <1>1 DEF AmongAt
<1>3. \A k \in 1..Len(dataset) :
        Chosen(S)[k] = IF dataset[k] \in S THEN Append(Chosen(S)[k - 1], dataset[k])
                       ELSE Chosen(S)[k - 1]
  BY <1>1 DEF AmongAt
<1> DEFINE T == {k \in 0..Len(dataset) : Chosen(S)[k] \in Seq(S)}
<1>4. 0 \in T
  <2>1. 0 \in 0..Len(dataset) /\ <<>> \in Seq(S)
    BY EmptyFacts
  <2> QED BY <1>2, <2>1
<1>5. ASSUME NEW k \in 0..Len(dataset) - 1, k \in T PROVE k + 1 \in T
  <2>1. k + 1 \in 1..Len(dataset) /\ k + 1 - 1 = k /\ Chosen(S)[k] \in Seq(S)
    BY <1>5
  <2>2. dataset[k + 1] \in S => Append(Chosen(S)[k], dataset[k + 1]) \in Seq(S)
    BY <2>1, AppendProperties
  <2>3. Chosen(S)[k + 1] = IF dataset[k + 1] \in S THEN Append(Chosen(S)[k], dataset[k + 1])
                           ELSE Chosen(S)[k]
    <3>1. \A i \in 1..Len(dataset) : i - 1 = k =>
            Chosen(S)[i] = IF dataset[i] \in S THEN Append(Chosen(S)[k], dataset[i]) ELSE Chosen(S)[k]
      BY <1>3
    <3> QED BY <2>1, <3>1
  <2>4. Chosen(S)[k + 1] \in Seq(S)
    BY <2>1, <2>2, <2>3
  <2> QED BY <2>1, <2>4
<1>6. 0..Len(dataset) \subseteq T
  <2> HIDE DEF T
  <2> QED BY <1>4, <1>5, Upwards
<1> QED BY <1>2, <1>3, <1>6
-----------------------------------------------------------------------------
\* How many rows of the dataset main has read.
ReadRows == Len(dataset) - Len(input)

\* Where main is before it has served a writer for the row it works on.
Before ==
    [w \in Writers \ {"nodes"} |->
        CASE w = "certificateSizes" -> {"size"}
          [] w = "samples" -> {"size", "sample"}
          [] w = "altitudes" -> {"size", "sample", "altitude"}
          [] OTHER -> Early \ {"read"}]

\* What main has handed to a writer by now.
Handled(w) == IF main \in Before[w] THEN ReadRows - 1 ELSE ReadRows
Sent(w) == Chosen(Due[w])[Handled(w)]

\* The row main works on is the last one it has read.
InputInv ==
    /\ ReadRows \in 0..Len(dataset)
    /\ \A j \in 1..Len(input) : input[j] = dataset[ReadRows + j]
    /\ main \in Early \ {"read"} => ReadRows > 0 /\ cert = dataset[ReadRows] /\ cert \in Certs
    /\ main \in Early \ {"read", "size"} => cert \notin TooLarge
    /\ main = "altitude" => cert \in HasAltitude
    /\ main \notin Early => input = <<>>
    /\ closed # {} => main \notin Early

LEMMA WriterFacts ==
    /\ Writers \ {"nodes"} = {"certificateSizes", "samples", "altitudes", "certificates"}
    /\ Before["certificateSizes"] = {"size"}
    /\ Before["samples"] = {"size", "sample"}
    /\ Before["altitudes"] = {"size", "sample", "altitude"}
    /\ Before["certificates"] = {"size", "sample", "altitude", "assign", "certificate"}
    /\ Due["certificateSizes"] = Certs
    /\ Due["samples"] = Certs \ TooLarge
    /\ Due["altitudes"] = HasAltitude \ TooLarge
    /\ Due["certificates"] = Certs \ TooLarge
<1>1. Writers \ {"nodes"} = {"certificateSizes", "samples", "altitudes", "certificates"}
  BY DEF Writers, Split, Measurements
<1>2. Early \ {"read"} = {"size", "sample", "altitude", "assign", "certificate"}
  BY DEF Early
<1>3. /\ Before["certificateSizes"] = {"size"}
      /\ Before["samples"] = {"size", "sample"}
      /\ Before["altitudes"] = {"size", "sample", "altitude"}
      /\ Before["certificates"] = Early \ {"read"}
  BY <1>1 DEF Before
<1>4. /\ Due["certificateSizes"] = Certs
      /\ Due["samples"] = Certs \ TooLarge
      /\ Due["altitudes"] = HasAltitude \ TooLarge
      /\ Due["certificates"] = Certs \ TooLarge
  BY <1>1 DEF Due
<1> QED BY <1>1, <1>2, <1>3, <1>4

LEMMA DatasetFacts ==
    ASSUME Inv
    PROVE  /\ Len(dataset) \in Nat /\ dataset \in Seq(Certs \cup {Unusable})
           /\ Len(input) \in Nat /\ input \in Seq(Certs \cup {Unusable})
           /\ Unusable \notin Certs /\ HasAltitude \subseteq Certs
           /\ \A w \in Writers \ {"nodes"} : Unusable \notin Due[w] /\ Due[w] \subseteq Certs
<1>1. /\ dataset \in Seq(Certs \cup {Unusable}) /\ input \in Seq(Certs \cup {Unusable})
      /\ Unusable \notin Certs /\ HasAltitude \subseteq Certs
  BY ImportAssumption DEF Inv, TypeOK, ImportAssumption
<1>2. \A w \in Writers \ {"nodes"} : Unusable \notin Due[w] /\ Due[w] \subseteq Certs
  BY <1>1, WriterFacts
<1> QED BY <1>1, <1>2, LenProperties

LEMMA InputStep == Inv /\ InputInv /\ [Next]_vars => InputInv'
<1> SUFFICES ASSUME Inv, InputInv, [Next]_vars PROVE InputInv'
  OBVIOUS
<1>0. /\ Len(dataset) \in Nat /\ Len(input) \in Nat /\ input \in Seq(Certs \cup {Unusable})
      /\ Unusable \notin Certs
  BY DatasetFacts
<1>1. CASE ReadRow
  <2>1. /\ input # <<>> /\ input' = Tail(input) /\ cert' = Head(input) /\ dataset' = dataset
        /\ main = "read" /\ main' \in {"read", "size"} /\ closed' = closed
        /\ main' = "size" => cert' # Unusable
    BY <1>1 DEF ReadRow
  <2>2. /\ Len(input) > 0 /\ Len(input') = Len(input) - 1 /\ cert' = input[1]
        /\ \A j \in 1..Len(input') : input'[j] = input[j + 1]
        /\ cert' \in Certs \cup {Unusable}
    BY <1>0, <2>1
  <2>3. ReadRows' = ReadRows + 1
    BY <1>0, <2>1, <2>2 DEF ReadRows
  <2>4. ReadRows \in 0..Len(dataset) /\ ReadRows + Len(input) = Len(dataset)
    BY <1>0 DEF InputInv, ReadRows
  <2>5. cert' = dataset[ReadRows + 1] /\ ReadRows + 1 \in 1..Len(dataset)
    BY <1>0, <2>2, <2>4 DEF InputInv
  <2>6. ASSUME NEW j \in 1..Len(input') PROVE input'[j] = dataset[ReadRows' + j]
    <3>1. j + 1 \in 1..Len(input) /\ ReadRows + (j + 1) = ReadRows' + j
      BY <1>0, <2>2, <2>3, <2>4
    <3> QED BY <2>2, <3>1 DEF InputInv
  <2>7. closed' = {}
    BY <2>1 DEF InputInv, Early
  <2> QED BY <2>1, <2>2, <2>3, <2>4, <2>5, <2>6, <2>7 DEF InputInv, Early
<1>2. CASE Rows /\ ~ReadRow
  <2>1. UNCHANGED <<dataset, input, cert, closed>> /\ main \in Early /\ main' \in Early
    BY <1>2 DEF Rows, SendSize, SendSample, SendAltitude, AssignToNodes, SendCertificate, Early
  <2>2. ReadRows' = ReadRows
    BY <2>1 DEF ReadRows
  <2>3. /\ main' \in Early \ {"read"} => main \in Early \ {"read"}
        /\ main' \in Early \ {"read", "size"} => cert \notin TooLarge
        /\ main' = "altitude" => cert \in HasAltitude
    BY <1>2 DEF Rows, SendSize, SendSample, SendAltitude, AssignToNodes, SendCertificate, Early,
                InputInv
  <2> QED BY <2>1, <2>2, <2>3 DEF InputInv
<1>3. CASE CloseChannels
  <2>1. UNCHANGED <<dataset, input, cert>> /\ input = <<>> /\ main' = "visit"
    BY <1>3 DEF CloseChannels
  <2> QED BY <2>1 DEF InputInv, ReadRows, Early
<1>4. CASE main \notin Early /\ (Nodes \/ \E i \in 1..Len(WaitOrder) - 1 : Wait(i))
  <2>1. main' \notin Early
    <3>1. CASE Nodes
      BY <1>4, <3>1 DEF Nodes, CloseChannels, Visit, HashChild, SendNode, CloseNodes, Early
    <3>2. CASE \E i \in 1..Len(WaitOrder) - 1 : Wait(i)
      BY <3>2 DEF Wait, WaitOrder, Early
    <3> QED BY <1>4, <3>1, <3>2
  <2>2. UNCHANGED <<dataset, input>>
    BY <1>4 DEF Nodes, CloseChannels, Visit, HashChild, SendNode, CloseNodes, Wait
  <2>3. \A m : m \notin Early => m \notin Early \ {"read"} /\ m \notin Early \ {"read", "size"}
                                /\ m # "altitude"
    BY DEF Early
  <2> QED BY <1>4, <2>1, <2>2, <2>3 DEF InputInv, ReadRows
<1>5. CASE UNCHANGED <<dataset, input, cert, main, closed>>
  BY <1>5 DEF InputInv, ReadRows
<1>6. \/ ReadRow \/ (Rows /\ ~ReadRow) \/ CloseChannels
      \/ main \notin Early /\ (Nodes \/ \E i \in 1..Len(WaitOrder) - 1 : Wait(i))
      \/ UNCHANGED <<dataset, input, cert, main, closed>>
  <2>1. Nodes => CloseChannels \/ main \notin Early
    BY DEF Nodes, Visit, HashChild, SendNode, CloseNodes, Early
  <2>2. (\E i \in 1..Len(WaitOrder) - 1 : Wait(i)) => main \notin Early
    BY DEF Wait, WaitOrder, Early
  <2>3. ASSUME (\E w \in Writers : Writer(w)) \/ Fatal \/ UNCHANGED vars
        PROVE  UNCHANGED <<dataset, input, cert, main, closed>>
    BY <2>3 DEF Writer, vars, mainVars, Create, WriteRow, ReceiveNode, WriteNode, Finish, Fatal
  <2> QED BY <2>1, <2>2, <2>3 DEF Next, Main
<1> QED BY <1>1, <1>2, <1>3, <1>4, <1>5, <1>6


LEMMA SentFacts ==
    ASSUME Inv, InputInv, NEW w \in Writers \ {"nodes"}
    PROVE  /\ Handled(w) \in 0..Len(dataset)
           /\ Sent(w) \in Seq(Due[w])
<1>1. Before[w] \subseteq Early \ {"read"}
  BY WriterFacts DEF Early
<1>2. Handled(w) \in 0..Len(dataset)
  BY <1>1, DatasetFacts DEF InputInv, Handled
<1> QED BY <1>2, DatasetFacts, ChosenFacts DEF Sent

\* main hands its certificate to a writer.
Given(w) ==
    /\ main \in Early /\ cert \in Due[w]
    /\ Sent(w)' = Append(Sent(w), cert)
    /\ channel'[w] = Append(channel[w], cert)

\* Between two rows nothing is due; main serves a writer when it leaves the
\* points before it.
LEMMA Serve ==
    ASSUME Inv, InputInv, NEW w \in Writers \ {"nodes"}, UNCHANGED <<dataset, input>>
    PROVE  /\ (main \in Before[w] <=> main' \in Before[w]) => Sent(w)' = Sent(w)
           /\ main \in Before[w] /\ main' \notin Before[w] =>
                Sent(w)' = IF cert \in Due[w] THEN Append(Sent(w), cert) ELSE Sent(w)
<1>1. ReadRows' = ReadRows /\ Chosen(Due[w])' = Chosen(Due[w])
  BY DEF ReadRows, Chosen, Due
<1>2. Handled(w)' = IF main' \in Before[w] THEN ReadRows - 1 ELSE ReadRows
  BY <1>1 DEF Handled, Before
<1>3. Sent(w)' = Chosen(Due[w])[Handled(w)']
  BY <1>1 DEF Sent
<1>4. CASE main \in Before[w] <=> main' \in Before[w]
  BY <1>2, <1>3, <1>4 DEF Sent, Handled
<1>5. CASE main \in Before[w] /\ main' \notin Before[w]
  <2>1. main \in Early \ {"read"}
    BY <1>5, WriterFacts DEF Early
  <2>2. ReadRows \in 1..Len(dataset) /\ dataset[ReadRows] = cert
    BY <2>1, DatasetFacts DEF InputInv
  <2>3. Handled(w) = ReadRows - 1 /\ Handled(w)' = ReadRows
    BY <1>2, <1>5 DEF Handled
  <2>4. Chosen(Due[w])[ReadRows] = IF dataset[ReadRows] \in Due[w]
                                   THEN Append(Chosen(Due[w])[ReadRows - 1], dataset[ReadRows])
                                   ELSE Chosen(Due[w])[ReadRows - 1]
    BY <2>2, DatasetFacts, ChosenFacts
  <2> QED BY <1>3, <1>5, <2>2, <2>3, <2>4 DEF Sent
<1> QED BY <1>4, <1>5

\* A row that is skipped is due to nobody.
LEMMA NotServed ==
    ASSUME Inv, InputInv, ReadRow, NEW w \in Writers \ {"nodes"}
    PROVE  Sent(w)' = Sent(w)
<1>0. Len(dataset) \in Nat /\ Len(input) \in Nat /\ input \in Seq(Certs \cup {Unusable})
  BY DatasetFacts
<1>1. /\ input # <<>> /\ input' = Tail(input) /\ dataset' = dataset /\ main = "read"
      /\ main' = IF Head(input) = Unusable THEN "read" ELSE "size"
  BY DEF ReadRow
<1>2. /\ Len(input) > 0 /\ Len(input') = Len(input) - 1 /\ Head(input) = input[1]
  BY <1>0, <1>1
<1>3. ReadRows' = ReadRows + 1 /\ ReadRows + Len(input) = Len(dataset)
  BY <1>0, <1>1, <1>2 DEF ReadRows
<1>4. ReadRows \in 0..Len(dataset) /\ ReadRows + 1 \in 1..Len(dataset)
  BY <1>0, <1>2, <1>3 DEF InputInv
<1>5. Head(input) = dataset[ReadRows + 1]
  <2>1. 1 \in 1..Len(input)
    BY <1>0, <1>2
  <2> QED BY <1>2, <2>1 DEF InputInv
<1>6. "size" \in Before[w] /\ "read" \notin Before[w]
  BY WriterFacts
<1>7. Chosen(Due[w])' = Chosen(Due[w])
  BY <1>1 DEF Chosen, Due
<1>8. Handled(w) = ReadRows /\ Handled(w)' = IF Head(input) = Unusable THEN ReadRows + 1 ELSE ReadRows
  BY <1>1, <1>3, <1>4, <1>6 DEF Handled, Before
<1>9. Sent(w)' = Chosen(Due[w])[Handled(w)']
  BY <1>7 DEF Sent
<1>10. CASE Head(input) = Unusable
  <2>1. dataset[ReadRows + 1] \notin Due[w]
    BY <1>5, <1>10, DatasetFacts
  <2>2. ReadRows + 1 - 1 = ReadRows
    BY <1>4
  <2>3. \A k \in 1..Len(dataset) :
          Chosen(Due[w])[k] = IF dataset[k] \in Due[w]
                              THEN Append(Chosen(Due[w])[k - 1], dataset[k])
                              ELSE Chosen(Due[w])[k - 1]
    BY <1>0, ChosenFacts
  <2>4. Chosen(Due[w])[ReadRows + 1] = Chosen(Due[w])[ReadRows]
    BY <1>4, <2>1, <2>2, <2>3
  <2> QED BY <1>8, <1>9, <1>10, <2>4 DEF Sent
<1> QED BY <1>8, <1>9, <1>10 DEF Sent

LEMMA RowsServe ==
    ASSUME Inv, InputInv, Rows, NEW w \in Writers \ {"nodes"}
    PROVE  Given(w) \/ (Sent(w)' = Sent(w) /\ channel'[w] = channel[w])
<1>0. channel = [u \in Writers |-> channel[u]]
  BY DEF Inv, TypeOK
<1>1. ASSUME NEW u \in Writers, Send(u, cert)
      PROVE  channel'[w] = IF u = w THEN Append(channel[w], cert) ELSE channel[w]
  BY <1>0, <1>1 DEF Send
<1>2. CASE ReadRow
  BY <1>2, NotServed DEF ReadRow
<1>3. /\ {"certificateSizes", "samples", "altitudes", "certificates"} \subseteq Writers
      /\ Before[w] \subseteq Early
  BY WriterFacts DEF Writers, Split, Measurements, Early
<1> DEFINE Served == /\ main \in Early \ {"read"}
                     /\ UNCHANGED <<dataset, input>>
                     /\ \/ /\ main \in Before[w] /\ main' \notin Before[w] /\ cert \in Due[w]
                           /\ channel'[w] = Append(channel[w], cert)
                        \/ /\ main \in Before[w] /\ main' \notin Before[w] /\ cert \notin Due[w]
                           /\ channel'[w] = channel[w]
                        \/ /\ main \in Before[w] <=> main' \in Before[w]
                           /\ channel'[w] = channel[w]
<1>4. Served => Given(w) \/ (Sent(w)' = Sent(w) /\ channel'[w] = channel[w])
  <2>1. SUFFICES ASSUME Served PROVE Given(w) \/ (Sent(w)' = Sent(w) /\ channel'[w] = channel[w])
    OBVIOUS
  <2>2. /\ (main \in Before[w] <=> main' \in Before[w]) => Sent(w)' = Sent(w)
        /\ main \in Before[w] /\ main' \notin Before[w] =>
             Sent(w)' = IF cert \in Due[w] THEN Append(Sent(w), cert) ELSE Sent(w)
    BY <2>1, Serve
  <2>3. CASE main \in Before[w] /\ main' \notin Before[w] /\ cert \in Due[w]
    BY <2>1, <2>2, <2>3 DEF Given
  <2> QED BY <2>1, <2>2, <2>3
<1>5. main \in Early \ {"read"} =>
        cert \in Certs /\ (main # "size" => cert \notin TooLarge)
                       /\ (main = "altitude" => cert \in HasAltitude)
  BY DEF InputInv
<1>6. ASSUME SendSize PROVE Served
  <2>1. /\ main = "size" /\ main' = IF cert \in TooLarge THEN "read" ELSE "sample"
        /\ UNCHANGED <<dataset, input>>
    BY <1>6 DEF SendSize
  <2>2. channel'[w] = IF "certificateSizes" = w THEN Append(channel[w], cert) ELSE channel[w]
    BY <1>1, <1>3, <1>6 DEF SendSize
  <2> QED BY <1>5, <2>1, <2>2, WriterFacts DEF Early
<1>7. ASSUME SendSample PROVE Served
  <2>1. /\ main = "sample" /\ main' = IF cert \in HasAltitude THEN "altitude" ELSE "assign"
        /\ UNCHANGED <<dataset, input>>
    BY <1>7 DEF SendSample
  <2>2. channel'[w] = IF "samples" = w THEN Append(channel[w], cert) ELSE channel[w]
    BY <1>1, <1>3, <1>7 DEF SendSample
  <2> QED BY <1>5, <2>1, <2>2, WriterFacts DEF Early
<1>8. ASSUME SendAltitude PROVE Served
  <2>1. main = "altitude" /\ main' = "assign" /\ UNCHANGED <<dataset, input>>
    BY <1>8 DEF SendAltitude
  <2>2. channel'[w] = IF "altitudes" = w THEN Append(channel[w], cert) ELSE channel[w]
    BY <1>1, <1>3, <1>8 DEF SendAltitude
  <2> QED BY <1>5, <2>1, <2>2, WriterFacts DEF Early
<1>9. ASSUME AssignToNodes PROVE Served
  BY <1>5, <1>9, WriterFacts DEF AssignToNodes, Early
<1>10. ASSUME SendCertificate PROVE Served
  <2>1. main = "certificate" /\ main' = "read" /\ UNCHANGED <<dataset, input>>
    BY <1>10 DEF SendCertificate
  <2>2. channel'[w] = IF "certificates" = w THEN Append(channel[w], cert) ELSE channel[w]
    BY <1>1, <1>3, <1>10 DEF SendCertificate
  <2> QED BY <1>5, <2>1, <2>2, WriterFacts DEF Early
<1> HIDE DEF Served
<1> QED BY <1>2, <1>4, <1>6, <1>7, <1>8, <1>9, <1>10 DEF Rows

-----------------------------------------------------------------------------
(* The rows of a stream, cut into files *)

Segments(rows, n, total) ==
    [i \in 0..n |-> SubSeq(rows, i * FullFile + 1, IF i = n THEN total ELSE (i + 1) * FullFile)]

\* total rows are in n + 1 files.
Fits(w, n, total) ==
    IF w \in Split THEN n * FullFile <= total /\ total < (n + 1) * FullFile ELSE n = 0

\* While a writer receives, what it has been sent is in its files and then in
\* its channel.
Receiving(w) ==
    \E n \in Nat : \E total \in 0..Len(Sent(w)) :
        /\ Fits(w, n, total)
        /\ files[w] = Segments(Sent(w), n, total)
        /\ channel[w] = SubSeq(Sent(w), total + 1, Len(Sent(w)))

\* What is left of the files of a writer: an empty last file removes the first.
Remaining(w, rows, n) ==
    [i \in (0..n) \ (IF w \in Split /\ n * FullFile = Len(rows) THEN {0} ELSE {})
       |-> Segments(rows, n, Len(rows))[i]]

\* The files of a writer that has no more to receive.
Complete(w) ==
    \E n \in Nat : Fits(w, n, Len(Sent(w))) /\ files[w] = Remaining(w, Sent(w), n)

StreamInv ==
    \A w \in Writers \ {"nodes"} :
        /\ wpc[w] \in {"create", "receive", "done", "ended"}
        /\ wpc[w] = "create" => channel[w] = Sent(w)
        /\ wpc[w] = "receive" => Receiving(w)
        /\ wpc[w] \in {"done", "ended"} => main \notin Early /\ Complete(w)

LEMMA FullFileFacts == FullFile \in Nat \ {0} /\ \A i \in Nat : i * FullFile \in Nat /\ (i + 1) * FullFile \in Nat
BY ImportAssumption DEF ImportAssumption, FullFile

\* Files 0 to n - 1 are full, and end before the rows of file n.
LEMMA FileBounds ==
    ASSUME NEW w, NEW n \in Nat, NEW total \in Nat, Fits(w, n, total)
    PROVE  /\ n * FullFile <= total
           /\ \A i \in 0..n - 1 : (i + 1) * FullFile <= n * FullFile
<1>1. FullFile \in Nat \ {0}
  BY FullFileFacts
<1>2. n * FullFile <= total
  BY <1>1 DEF Fits
<1>3. ASSUME NEW i \in 0..n - 1 PROVE (i + 1) * FullFile <= n * FullFile
  <2>1. i + 1 \in Nat /\ i + 1 <= n
    OBVIOUS
  <2> QED BY <1>1, <2>1
<1> QED BY <1>2, <1>3

\* A row sent later does not change the rows that are in the files.
LEMMA SegmentsSame ==
    ASSUME NEW S, NEW rows \in Seq(S), NEW v \in S, NEW w, NEW n \in Nat,
           NEW total \in 0..Len(rows), Fits(w, n, total)
    PROVE  Segments(Append(rows, v), n, total) = Segments(rows, n, total)
<1>1. ASSUME NEW lo \in Nat \ {0}, NEW hi \in Nat, hi <= Len(rows)
      PROVE  SubSeq(Append(rows, v), lo, hi) = SubSeq(rows, lo, hi)
  <2>1. /\ Append(rows, v) \in Seq(S) /\ Len(Append(rows, v)) = Len(rows) + 1
        /\ \A i \in 1..Len(rows) : Append(rows, v)[i] = rows[i]
    BY AppendProperties
  <2> QED BY <1>1, <2>1, SMTT(30)
<1>2. ASSUME NEW i \in 0..n
      PROVE  LET hi == IF i = n THEN total ELSE (i + 1) * FullFile
             IN  SubSeq(Append(rows, v), i * FullFile + 1, hi) = SubSeq(rows, i * FullFile + 1, hi)
  <2> DEFINE hi == IF i = n THEN total ELSE (i + 1) * FullFile
  <2>1. i * FullFile \in Nat /\ (i + 1) * FullFile \in Nat
    BY FullFileFacts
  <2>2. hi \in Nat /\ hi <= Len(rows)
    <3>1. i # n => (i + 1) * FullFile <= n * FullFile /\ n * FullFile <= total
      BY FileBounds
    <3>2. n * FullFile \in Nat
      BY FullFileFacts
    <3> QED BY <2>1, <3>1, <3>2
  <2>3. i * FullFile + 1 \in Nat \ {0}
    BY <2>1
  <2> HIDE DEF hi
  <2> QED BY <1>1, <2>2, <2>3 DEF hi
<1> QED BY <1>2 DEF Segments


\* One row moves from the channel to the files: a file that is full then is
\* followed by an empty one.
LEMMA SegmentWritten ==
    ASSUME NEW w, NEW S, NEW rows \in Seq(S), NEW n \in Nat,
           NEW total \in 0..Len(rows) - 1, Fits(w, n, total),
           files[w] = Segments(rows, n, total)
    PROVE  \E m \in Nat : /\ Fits(w, m, total + 1)
                          /\ Written(w, rows[total + 1]) = Segments(rows, m, total + 1)
<1> DEFINE v == rows[total + 1]
           g == Written(w, v)
           last == SubSeq(rows, n * FullFile + 1, total + 1)
           full == w \in Split /\ Len(last) > MAX_FILE_SIZE
<1>1. /\ FullFile \in Nat \ {0} /\ FullFile = MAX_FILE_SIZE + 1 /\ MAX_FILE_SIZE \in Nat
      /\ n * FullFile \in Nat /\ n * FullFile <= total
      /\ (n + 1) * FullFile = n * FullFile + FullFile
  <2>1. FullFile \in Nat \ {0} /\ FullFile = MAX_FILE_SIZE + 1 /\ MAX_FILE_SIZE \in Nat
    BY ImportAssumption DEF ImportAssumption, FullFile
  <2>2. n * FullFile \in Nat /\ n * FullFile <= total
    <3>1. total \in Nat
      BY LenProperties
    <3>2. n * FullFile <= total
      BY <3>1, FileBounds
    <3> QED BY <3>2, FullFileFacts
  <2>3. (n + 1) * FullFile = n * FullFile + FullFile
    BY <2>1
  <2> QED BY <2>1, <2>2, <2>3
<1>2. DOMAIN files[w] = 0..n /\ files[w][n] = SubSeq(rows, n * FullFile + 1, total)
  <2>1. n \in 0..n
    OBVIOUS
  <2> QED BY <2>1 DEF Segments
<1>3. /\ Append(files[w][n], v) = last
      /\ Len(last) = total + 1 - n * FullFile
  <2>1. \A lo \in Nat \ {0} : lo <= total + 1 =>
          Append(SubSeq(rows, lo, total), rows[total + 1]) = SubSeq(rows, lo, total + 1)
          /\ Len(SubSeq(rows, lo, total + 1)) = total + 2 - lo
    OBVIOUS
  <2>2. n * FullFile + 1 \in Nat \ {0} /\ n * FullFile + 1 <= total + 1
    BY <1>1
  <2>3. /\ Append(SubSeq(rows, n * FullFile + 1, total), rows[total + 1]) = last
        /\ Len(last) = total + 2 - (n * FullFile + 1)
    BY <2>1, <2>2
  <2>4. Append(files[w][n], v) = last
    BY <1>2, <2>3
  <2>5. total + 2 - (n * FullFile + 1) = total + 1 - n * FullFile
    BY <1>1
  <2> HIDE DEF last
  <2> QED BY <2>3, <2>4, <2>5
<1>4. /\ DOMAIN g = IF full THEN 0..n + 1 ELSE 0..n
      /\ \A i \in 0..n - 1 : g[i] = files[w][i]
      /\ g[n] = last
      /\ full => g[n + 1] = <<>>
  <2> DEFINE wrote == Append(files[w][n], v)
  <2>1. /\ DOMAIN g = IF w \in Split /\ Len(wrote) > MAX_FILE_SIZE THEN 0..n + 1 ELSE 0..n
        /\ \A i \in 0..n - 1 : g[i] = files[w][i]
        /\ g[n] = wrote
        /\ w \in Split /\ Len(wrote) > MAX_FILE_SIZE => g[n + 1] = <<>>
    BY <1>2, WrittenFacts
  <2>2. wrote = last
    BY <1>3
  <2> HIDE DEF wrote, last, g
  <2> QED BY <2>1, <2>2
<1>5. g = [i \in DOMAIN g |-> g[i]]
  <2>1. CASE w \in Split /\ Len(Append(files[w][FileIndex(w)], v)) > MAX_FILE_SIZE
    BY <2>1 DEF Written
  <2>2. CASE ~(w \in Split /\ Len(Append(files[w][FileIndex(w)], v)) > MAX_FILE_SIZE)
    BY <2>2 DEF Written, Part
  <2> QED BY <2>1, <2>2
<1>6. ASSUME NEW i \in 0..n - 1 PROVE g[i] = SubSeq(rows, i * FullFile + 1, (i + 1) * FullFile)
  <2>1. i \in 0..n /\ i # n
    OBVIOUS
  <2> QED BY <1>4, <2>1 DEF Segments
<1>7. CASE full
  <2>1. total + 1 = (n + 1) * FullFile /\ n + 1 \in Nat
    BY <1>1, <1>3, <1>7 DEF Fits
  <2>2. Fits(w, n + 1, total + 1)
    BY <1>1, <1>7, <2>1 DEF Fits
  <2>3. SubSeq(rows, (n + 1) * FullFile + 1, total + 1) = <<>>
    BY <2>1, SubSeqEmpty
  <2>4. \A i \in 0..n + 1 :
          g[i] = SubSeq(rows, i * FullFile + 1, IF i = n + 1 THEN total + 1 ELSE (i + 1) * FullFile)
    <3>1. g[n] = SubSeq(rows, n * FullFile + 1, (n + 1) * FullFile)
      <4>1. g[n] = SubSeq(rows, n * FullFile + 1, total + 1)
        BY <1>4
      <4> HIDE DEF g
      <4> QED BY <2>1, <4>1
    <3>2. g[n + 1] = SubSeq(rows, (n + 1) * FullFile + 1, total + 1)
      BY <1>4, <1>7, <2>3
    <3>3. \A i \in 0..n + 1 : i \in 0..n - 1 \/ i = n \/ i = n + 1
      OBVIOUS
    <3> HIDE DEF g
    <3> QED BY <1>6, <3>1, <3>2, <3>3
  <2>5. g = Segments(rows, n + 1, total + 1)
    <3>1. DOMAIN g = 0..n + 1
      BY <1>4, <1>7
    <3> HIDE DEF g
    <3> QED BY <1>5, <2>4, <3>1 DEF Segments
  <2> QED BY <2>1, <2>2, <2>5
<1>8. CASE ~full
  <2>1. Fits(w, n, total + 1)
    BY <1>1, <1>3, <1>8 DEF Fits
  <2>2. \A i \in 0..n :
          g[i] = SubSeq(rows, i * FullFile + 1, IF i = n THEN total + 1 ELSE (i + 1) * FullFile)
    <3>1. \A i \in 0..n : i \in 0..n - 1 \/ i = n
      OBVIOUS
    <3>2. g[n] = SubSeq(rows, n * FullFile + 1, total + 1)
      BY <1>4
    <3> HIDE DEF g
    <3> QED BY <1>6, <3>1, <3>2
  <2>3. g = Segments(rows, n, total + 1)
    <3>1. DOMAIN g = 0..n
      BY <1>4, <1>8
    <3> HIDE DEF g
    <3> QED BY <1>5, <2>2, <3>1 DEF Segments
  <2> QED BY <2>1, <2>3
<1> QED BY <1>7, <1>8

-----------------------------------------------------------------------------
\* What a writer sees of a step.
LEMMA StreamSteps ==
    ASSUME Inv, InputInv, FilesInv, [Next]_vars, NEW w \in Writers \ {"nodes"}
    PROVE  \/ Create(w) \/ WriteRow(w) \/ Finish(w)
           \/ \E i \in 1..Len(WaitOrder) - 1 : Wait(i) /\ main = w
           \/ /\ wpc'[w] = wpc[w] /\ files'[w] = files[w]
              /\ Given(w) \/ (Sent(w)' = Sent(w) /\ channel'[w] = channel[w])
<1>0. /\ channel = [u \in Writers |-> channel[u]]
      /\ wpc = [u \in Writers |-> wpc[u]] /\ files = [u \in Writers |-> files[u]]
      /\ "nodes" \in Writers /\ w \in Writers /\ w # "nodes"
  BY DEF Inv, TypeOK, FilesInv, Writers, Split
<1>1. Before[w] \subseteq Early
  BY WriterFacts DEF Early
<1>2. CASE Rows
  <2>1. UNCHANGED <<wpc, files>>
    BY <1>2 DEF Rows, ReadRow, SendSize, SendSample, SendAltitude, AssignToNodes, SendCertificate,
                writerVars
  <2> QED BY <1>2, <2>1, RowsServe
<1> DEFINE Same == wpc'[w] = wpc[w] /\ files'[w] = files[w] /\ channel'[w] = channel[w]
<1>3. ASSUME UNCHANGED <<dataset, input>>, main \in Before[w] <=> main' \in Before[w]
      PROVE  Sent(w)' = Sent(w)
  BY <1>3, Serve
<1>4. CASE Nodes
  <2>1. UNCHANGED <<dataset, input>>
    BY <1>4 DEF Nodes, CloseChannels, Visit, HashChild, SendNode, CloseNodes
  <2>2. Same
    <3>1. CASE CloseChannels
      BY <1>0, <3>1 DEF CloseChannels
    <3>2. CASE SendNode
      BY <1>0, <3>2 DEF SendNode, Send, writerVars
    <3>3. CASE (\E p \in unsent : Visit(p)) \/ HashChild \/ CloseNodes
      BY <3>3 DEF Visit, HashChild, CloseNodes, writerVars
    <3> QED BY <1>4, <3>1, <3>2, <3>3 DEF Nodes
  <2>3. main \notin Before[w] /\ main' \notin Before[w]
    BY <1>4, WriterFacts DEF Nodes, CloseChannels, Visit, HashChild, SendNode, CloseNodes
  <2> QED BY <1>3, <2>1, <2>2, <2>3
<1>5. CASE \E i \in 1..Len(WaitOrder) - 1 : Wait(i)
  <2>1. PICK i \in 1..Len(WaitOrder) - 1 : Wait(i)
    BY <1>5
  <2>2. CASE main # w
    <3>1. wpc' = [wpc EXCEPT ![main] = "ended"] /\ UNCHANGED <<files, channel, dataset, input>>
      BY <2>1 DEF Wait
    <3>2. Same
      BY <1>0, <2>2, <3>1
    <3>3. main \notin Before[w] /\ main' \notin Before[w]
      BY <2>1, WriterFacts DEF Wait, WaitOrder
    <3> QED BY <1>3, <3>1, <3>2, <3>3
  <2> QED BY <2>1, <2>2
<1>6. CASE \E u \in Writers : Writer(u)
  <2>1. PICK u \in Writers : Writer(u)
    BY <1>6
  <2>2. UNCHANGED <<dataset, input, main>>
    BY <2>1 DEF Writer, Create, WriteRow, Finish, ReceiveNode, WriteNode, mainVars
  <2>3. u # w => Same
    <3>1. SUFFICES ASSUME u # w PROVE Same
      OBVIOUS
    <3>2. CASE Create(u)
      BY <1>0, <3>1, <3>2 DEF Create
    <3>3. CASE WriteRow(u)
      BY <1>0, <3>1, <3>3 DEF WriteRow
    <3>4. CASE Finish(u)
      <4>1. files' = files \/ \E g : files' = [files EXCEPT ![u] = g]
        BY <3>4 DEF Finish
      <4>2. wpc' = [wpc EXCEPT ![u] = "done"] /\ channel' = channel
        BY <3>4 DEF Finish
      <4> QED BY <1>0, <3>1, <4>1, <4>2
    <3>5. CASE ReceiveNode
      BY <1>0, <3>5 DEF ReceiveNode
    <3>6. CASE WriteNode
      BY <1>0, <3>6 DEF WriteNode
    <3> QED BY <2>1, <3>2, <3>3, <3>4, <3>5, <3>6 DEF Writer
  <2>4. u = w => Create(w) \/ WriteRow(w) \/ Finish(w)
    BY <1>0, <2>1 DEF Writer
  <2> HIDE DEF Same
  <2>5. CASE u # w
    <3>1. Same
      BY <2>3, <2>5
    <3>2. Sent(w)' = Sent(w)
      BY <1>3, <2>2
    <3> QED BY <3>1, <3>2 DEF Same
  <2> QED BY <2>4, <2>5
<1>7. CASE Fatal \/ UNCHANGED vars
  <2>1. UNCHANGED <<dataset, input, main, wpc, files, channel>>
    BY <1>7 DEF Fatal, vars, mainVars, writerVars
  <2> QED BY <1>3, <2>1
<1> QED BY <1>2, <1>4, <1>5, <1>6, <1>7 DEF Next, Main

\* The files of a writer that has been sent one more row.
LEMMA ReceivingGiven ==
    ASSUME Inv, InputInv, NEW w \in Writers \ {"nodes"}, Receiving(w), Given(w),
           files'[w] = files[w]
    PROVE  Receiving(w)'
<1>1. PICK n \in Nat, total \in 0..Len(Sent(w)) :
        /\ Fits(w, n, total)
        /\ files[w] = Segments(Sent(w), n, total)
        /\ channel[w] = SubSeq(Sent(w), total + 1, Len(Sent(w)))
  BY DEF Receiving
<1> DEFINE s == Sent(w)
<1>2. s \in Seq(Due[w]) /\ Len(s) \in Nat /\ cert \in Due[w]
  BY SentFacts, LenProperties DEF Given
<1>3. /\ Sent(w)' = Append(s, cert) /\ channel'[w] = Append(channel[w], cert)
      /\ Len(Append(s, cert)) = Len(s) + 1
  BY <1>2, AppendProperties DEF Given
<1> HIDE DEF s
<1>4. Append(SubSeq(s, total + 1, Len(s)), cert) = SubSeq(Append(s, cert), total + 1, Len(s) + 1)
  <2>1. \A lo \in 1..Len(s) + 1 :
          Append(SubSeq(s, lo, Len(s)), cert) = SubSeq(Append(s, cert), lo, Len(s) + 1)
    BY <1>2
  <2>2. total + 1 \in 1..Len(s) + 1
    BY <1>2 DEF s
  <2> QED BY <2>1, <2>2
<1>5. Segments(Append(s, cert), n, total) = Segments(s, n, total)
  BY <1>1, <1>2, SegmentsSame DEF s
<1>6. /\ files'[w] = Segments(Sent(w)', n, total)
      /\ channel'[w] = SubSeq(Sent(w)', total + 1, Len(Sent(w)'))
      /\ total \in 0..Len(Sent(w)')
  <2>1. files'[w] = Segments(Sent(w)', n, total)
    BY <1>1, <1>3, <1>5 DEF s
  <2>2. channel'[w] = SubSeq(Sent(w)', total + 1, Len(Sent(w)'))
    BY <1>1, <1>3, <1>4 DEF s
  <2>3. total \in 0..Len(Sent(w)')
    <3>1. Len(Sent(w)') = Len(s) + 1 /\ total \in 0..Len(s)
      BY <1>3 DEF s
    <3> HIDE DEF s
    <3> QED BY <1>2, <3>1
  <2> QED BY <2>1, <2>2, <2>3
<1> QED BY <1>1, <1>6 DEF Receiving, Fits, Segments

\* The files of a writer that has written a row.
LEMMA ReceivingWrites ==
    ASSUME Inv, InputInv, FilesInv, NEW w \in Writers \ {"nodes"}, Receiving(w), WriteRow(w),
           Sent(w)' = Sent(w)
    PROVE  Receiving(w)'
<1>1. PICK n \in Nat, total \in 0..Len(Sent(w)) :
        /\ Fits(w, n, total)
        /\ files[w] = Segments(Sent(w), n, total)
        /\ channel[w] = SubSeq(Sent(w), total + 1, Len(Sent(w)))
  BY DEF Receiving
<1> DEFINE s == Sent(w)
<1>2. s \in Seq(Due[w]) /\ Len(s) \in Nat
  BY SentFacts, LenProperties
<1>3. /\ channel[w] # <<>> /\ channel'[w] = Tail(channel[w])
      /\ files'[w] = Written(w, Head(channel[w]))
  BY DEF WriteRow, Inv, TypeOK, FilesInv
<1> HIDE DEF s
<1>4. total \in 0..Len(s) - 1
  <2>1. total = Len(s) => SubSeq(s, total + 1, Len(s)) = <<>>
    BY <1>2, SubSeqEmpty
  <2> QED BY <1>1, <1>2, <1>3, <2>1 DEF s
<1>5. /\ Head(channel[w]) = s[total + 1]
      /\ Tail(channel[w]) = SubSeq(s, total + 1 + 1, Len(s))
  <2>1. total + 1 \in 1..Len(s) /\ Len(s) \in total + 1..Len(s)
    BY <1>2, <1>4
  <2>2. /\ Head(SubSeq(s, total + 1, Len(s))) = s[total + 1]
        /\ Tail(SubSeq(s, total + 1, Len(s))) = SubSeq(s, total + 1 + 1, Len(s))
    BY <1>2, <2>1, HeadTailOfSubSeq
  <2>3. channel[w] = SubSeq(s, total + 1, Len(s))
    BY <1>1 DEF s
  <2> QED BY <2>2, <2>3
<1>6. PICK m \in Nat : /\ Fits(w, m, total + 1)
                       /\ Written(w, s[total + 1]) = Segments(s, m, total + 1)
  BY <1>1, <1>2, <1>4, SegmentWritten DEF s
<1>7. /\ files'[w] = Segments(Sent(w)', m, total + 1)
      /\ channel'[w] = SubSeq(Sent(w)', total + 1 + 1, Len(Sent(w)'))
      /\ total + 1 \in 0..Len(Sent(w)')
  BY <1>2, <1>3, <1>4, <1>5, <1>6 DEF s
<1> QED BY <1>6, <1>7 DEF Receiving, Fits, Segments

\* A writer starts with an empty file.
LEMMA CreateCuts ==
    ASSUME FilesInv, NEW w \in Writers, Create(w), NEW rows
    PROVE  files'[w] = Segments(rows, 0, 0)
<1>1. DOMAIN files[w] = {}
  BY DEF Create, FilesInv
<1>2. files'[w] = [j \in 0..0 |-> <<>>]
  <2>1. files'[w] = Part(w, 0, <<>>)
    BY DEF Create, FilesInv
  <2>2. {} \cup {0} = 0..0 /\ \A j \in {} \cup {0} : j = 0
    OBVIOUS
  <2> QED BY <1>1, <2>1, <2>2 DEF Part
<1>3. Segments(rows, 0, 0) = [j \in 0..0 |-> <<>>]
  <2>1. \A j \in 0..0 : j = 0
    OBVIOUS
  <2>2. 0 * FullFile + 1 = 1 /\ SubSeq(rows, 1, 0) = <<>>
    BY FullFileFacts, SubSeqEmpty
  <2> QED BY <2>1, <2>2 DEF Segments
<1> QED BY <1>2, <1>3

LEMMA CreateReceives ==
    ASSUME Inv, InputInv, FilesInv, NEW w \in Writers \ {"nodes"}, Create(w),
           channel[w] = Sent(w), UNCHANGED <<channel, dataset, input, main>>
    PROVE  Receiving(w)'
<1>1. Sent(w)' = Sent(w) /\ Sent(w) \in Seq(Due[w]) /\ Len(Sent(w)) \in Nat
  BY Serve, SentFacts, LenProperties
<1>2. files'[w] = Segments(Sent(w), 0, 0)
  BY CreateCuts
<1>5. Fits(w, 0, 0)
  BY FullFileFacts DEF Fits
<1>6. Sent(w) = SubSeq(Sent(w), 0 + 1, Len(Sent(w))) /\ 0 \in 0..Len(Sent(w))
  BY <1>1, SubSeqFull
<1>7. /\ files'[w] = Segments(Sent(w)', 0, 0)
      /\ channel'[w] = SubSeq(Sent(w)', 0 + 1, Len(Sent(w)'))
      /\ 0 \in 0..Len(Sent(w)') /\ 0 \in Nat
  BY <1>1, <1>2, <1>6
<1> QED BY <1>5, <1>7 DEF Receiving, Fits, Segments

LEMMA NoneLeft ==
    ASSUME NEW S, NEW rows \in Seq(S), NEW lo \in 1..Len(rows) + 1
    PROVE  SubSeq(rows, lo, Len(rows)) = <<>> <=> lo = Len(rows) + 1
<1>1. Len(rows) \in Nat /\ \A i \in 1..Len(rows) : rows[i] \in S
  BY LenProperties, ElementOfSeq
<1>2. Len(SubSeq(rows, lo, Len(rows))) = IF lo <= Len(rows) THEN Len(rows) - lo + 1 ELSE 0
  <2>1. \A i \in lo..Len(rows) : rows[i] \in S
    BY <1>1
  <2> QED BY <1>1, <2>1, SubSeqProperties
<1>3. lo <= Len(rows) => SubSeq(rows, lo, Len(rows)) # <<>>
  <2>1. lo <= Len(rows) => Len(SubSeq(rows, lo, Len(rows))) # 0
    BY <1>1, <1>2
  <2>2. Len(<<>>) = 0
    BY EmptyFacts
  <2> DEFINE t == SubSeq(rows, lo, Len(rows))
  <2>3. t = <<>> => Len(t) = 0
    BY <2>2
  <2> QED BY <2>1, <2>3
<1>4. lo = Len(rows) + 1 => SubSeq(rows, lo, Len(rows)) = <<>>
  BY <1>1, SubSeqEmpty
<1> QED BY <1>1, <1>3, <1>4

LEMMA FinishCuts ==
    ASSUME FilesInv, NEW w \in Writers, Finish(w), NEW S, NEW s \in Seq(S), NEW n \in Nat,
           Fits(w, n, Len(s)), files[w] = Segments(s, n, Len(s))
    PROVE  files'[w] = Remaining(w, s, n)
<1>1. Len(s) \in Nat
  BY LenProperties
<1>2. /\ DOMAIN files[w] = 0..n /\ FileIndex(w) = n
      /\ files[w][n] = SubSeq(s, n * FullFile + 1, Len(s))
  <2>1. n \in 0..n
    OBVIOUS
  <2>2. DOMAIN files[w] = 0..n
    BY DEF Segments
  <2> QED BY <2>1, <2>2, LastFile DEF Segments
<1>3. n * FullFile \in Nat /\ n * FullFile <= Len(s)
  BY <1>1, FileBounds, FullFileFacts
<1>4. files[w][n] = <<>> <=> n * FullFile = Len(s)
  <2>1. n * FullFile + 1 \in 1..Len(s) + 1
    BY <1>1, <1>3
  <2>2. SubSeq(s, n * FullFile + 1, Len(s)) = <<>> <=> n * FullFile + 1 = Len(s) + 1
    BY <2>1, NoneLeft
  <2>3. n * FullFile + 1 = Len(s) + 1 <=> n * FullFile = Len(s)
    BY <1>1, <1>3
  <2> QED BY <1>2, <2>2, <2>3
<1>5. CASE w \in Split /\ files[w][FileIndex(w)] = <<>>
  <2>1. files'[w] = [i \in DOMAIN files[w] \ {0} |-> files[w][i]]
    BY <1>5 DEF Finish, FilesInv, RemovedFile
  <2> QED BY <1>2, <1>4, <1>5, <2>1 DEF Remaining
<1>6. CASE ~(w \in Split /\ files[w][FileIndex(w)] = <<>>)
  <2>1. files'[w] = files[w]
    BY <1>6 DEF Finish
  <2>2. ~(w \in Split /\ n * FullFile = Len(s)) /\ (0..n) \ {} = 0..n
    BY <1>2, <1>4, <1>6
  <2> QED BY <2>1, <2>2 DEF Segments, Remaining
<1> QED BY <1>5, <1>6

\* A writer ends when it has received all.
LEMMA FinishCompletes ==
    ASSUME Inv, InputInv, FilesInv, NEW w \in Writers \ {"nodes"}, Finish(w),
           Receiving(w), Sent(w)' = Sent(w)
    PROVE  Complete(w)'
<1>1. PICK n \in Nat, total \in 0..Len(Sent(w)) :
        /\ Fits(w, n, total)
        /\ files[w] = Segments(Sent(w), n, total)
        /\ channel[w] = SubSeq(Sent(w), total + 1, Len(Sent(w)))
  BY DEF Receiving
<1>2. Sent(w) \in Seq(Due[w]) /\ Len(Sent(w)) \in Nat
  BY SentFacts, LenProperties
<1>3. total = Len(Sent(w))
  <2>1. channel[w] = <<>>
    BY DEF Finish
  <2>2. total + 1 \in 1..Len(Sent(w)) + 1
    BY <1>2
  <2>3. total + 1 = Len(Sent(w)) + 1
    BY <1>1, <1>2, <2>1, <2>2, NoneLeft
  <2> QED BY <1>2, <2>3
<1>4. files'[w] = Remaining(w, Sent(w), n)
  BY <1>1, <1>2, <1>3, FinishCuts
<1>5. Fits(w, n, Len(Sent(w)))
  BY <1>1, <1>3
<1> QED BY <1>4, <1>5 DEF Complete, Fits, Remaining, Segments

LEMMA StreamStep ==
    Inv /\ VisitedInv /\ FilesInv /\ InputInv /\ StreamInv /\ [Next]_vars => StreamInv'
<1> SUFFICES ASSUME Inv, VisitedInv, FilesInv, InputInv, StreamInv, [Next]_vars,
                    NEW w \in Writers \ {"nodes"}
             PROVE  /\ wpc'[w] \in {"create", "receive", "done", "ended"}
                    /\ wpc'[w] = "create" => channel'[w] = Sent(w)'
                    /\ wpc'[w] = "receive" => Receiving(w)'
                    /\ wpc'[w] \in {"done", "ended"} => main' \notin Early /\ Complete(w)'
  BY DEF StreamInv
<1>0. /\ wpc[w] \in {"create", "receive", "done", "ended"}
      /\ wpc[w] = "create" => channel[w] = Sent(w)
      /\ wpc[w] = "receive" => Receiving(w)
      /\ wpc[w] \in {"done", "ended"} => main \notin Early /\ Complete(w)
  BY DEF StreamInv
<1>a. wpc = [u \in Writers |-> wpc[u]]
  BY DEF Inv, TypeOK
<1>b. main \notin Early => main' \notin Early
  BY DoneStays
<1>c. Before[w] \subseteq Early
  BY WriterFacts DEF Early
<1>d. files'[w] = files[w] /\ channel'[w] = channel[w] /\ Sent(w)' = Sent(w) =>
        (Receiving(w) => Receiving(w)') /\ (Complete(w) => Complete(w)')
  BY DEF Receiving, Complete, Remaining, Segments, Fits
<1>1. CASE Create(w)
  <2>1. wpc[w] = "create" /\ wpc'[w] = "receive" /\ UNCHANGED <<channel, dataset, input, main>>
    BY <1>1, <1>a DEF Create, mainVars
  <2> QED BY <1>0, <1>1, <2>1, CreateReceives
<1>2. CASE WriteRow(w)
  <2>1. wpc[w] = "receive" /\ wpc' = wpc /\ UNCHANGED <<dataset, input, main>>
    BY <1>2 DEF WriteRow, mainVars
  <2>2. Sent(w)' = Sent(w)
    BY <2>1, Serve
  <2> QED BY <1>0, <1>2, <2>1, <2>2, ReceivingWrites
<1>3. CASE Finish(w)
  <2>1. wpc[w] = "receive" /\ wpc'[w] = "done" /\ UNCHANGED <<dataset, input, main>> /\ w \in closed
    BY <1>3, <1>a DEF Finish, mainVars
  <2>2. Sent(w)' = Sent(w)
    BY <2>1, Serve
  <2>3. main' \notin Early
    BY <2>1 DEF InputInv
  <2> QED BY <1>0, <1>3, <2>1, <2>2, <2>3, FinishCompletes
<1>4. CASE \E i \in 1..Len(WaitOrder) - 1 : Wait(i) /\ main = w
  <2>1. /\ wpc[w] = "done" /\ wpc'[w] = "ended"
        /\ UNCHANGED <<files, channel, dataset, input>>
    BY <1>4, <1>a DEF Wait
  <2>2. main \notin Early /\ main' \notin Early
    BY <1>0, <1>b, <2>1
  <2>3. Sent(w)' = Sent(w)
    BY <1>c, <2>1, <2>2, Serve
  <2> QED BY <1>0, <1>d, <2>1, <2>2, <2>3
<1>5. CASE /\ wpc'[w] = wpc[w] /\ files'[w] = files[w]
           /\ Sent(w)' = Sent(w) /\ channel'[w] = channel[w]
  BY <1>0, <1>b, <1>d, <1>5
<1>6. CASE wpc'[w] = wpc[w] /\ files'[w] = files[w] /\ Given(w)
  <2>1. main \in Early /\ wpc[w] \in {"create", "receive"}
    BY <1>0, <1>6 DEF Given
  <2>2. wpc[w] = "create" => channel'[w] = Sent(w)'
    BY <1>0, <1>6 DEF Given
  <2>3. wpc[w] = "receive" => Receiving(w)'
    BY <1>0, <1>6, ReceivingGiven
  <2> QED BY <1>6, <2>1, <2>2, <2>3
<1> QED BY <1>1, <1>2, <1>3, <1>4, <1>5, <1>6, StreamSteps
-----------------------------------------------------------------------------
\* main has waited for the writers before the one it waits for.
WaitedInv ==
    \A i \in 1..Len(WaitOrder) : main = WaitOrder[i] =>
        \A j \in 1..i - 1 : wpc[WaitOrder[j]] = "ended"

LEMMA WaitedStep == Inv /\ WaitedInv /\ [Next]_vars => WaitedInv'
<1> SUFFICES ASSUME Inv, WaitedInv, [Next]_vars PROVE WaitedInv'
  OBVIOUS
<1>0. /\ WaitOrder = <<"samples", "certificateSizes", "altitudes", "certificates", "nodes", "finished">>
      /\ Len(WaitOrder) = 6
      /\ wpc = [u \in Writers |-> wpc[u]]
      /\ \A j \in 1..5 : WaitOrder[j] \in Writers
  BY DEF Inv, TypeOK, WaitOrder, Writers, Measurements, Split
<1>1. CASE \E i \in 1..Len(WaitOrder) - 1 : Wait(i)
  <2>1. PICK i \in 1..5 : Wait(i)
    BY <1>0, <1>1
  <2>2. /\ main = WaitOrder[i] /\ main' = WaitOrder[i + 1]
        /\ wpc' = [wpc EXCEPT ![WaitOrder[i]] = "ended"]
    BY <2>1 DEF Wait
  <2>3. \A j \in 1..i : wpc'[WaitOrder[j]] = "ended"
    <3>1. \A j \in 1..i - 1 : wpc[WaitOrder[j]] = "ended"
      BY <1>0, <2>2 DEF WaitedInv
    <3>2. ASSUME NEW j \in 1..i PROVE wpc'[WaitOrder[j]] = "ended"
      <4>1. WaitOrder[j] \in Writers /\ WaitOrder[i] \in Writers
        BY <1>0
      <4>2. j \in 1..i - 1 \/ j = i
        OBVIOUS
      <4> QED BY <1>0, <2>2, <3>1, <4>1, <4>2
    <3> QED BY <3>2
  <2>4. \A k \in 1..6 : WaitOrder[k] = WaitOrder[i + 1] => k = i + 1
    BY <1>0
  <2> QED BY <1>0, <2>2, <2>3, <2>4 DEF WaitedInv
<1>2. CASE CloseNodes
  BY <1>0, <1>2 DEF CloseNodes, WaitedInv
<1>3. CASE (Rows \/ Nodes) /\ ~CloseNodes
  <2>1. main' \in Early \cup {"visit", "hash", "send"}
    BY <1>3 DEF Rows, ReadRow, SendSize, SendSample, SendAltitude, AssignToNodes, SendCertificate,
                Nodes, CloseChannels, Visit, HashChild, SendNode, CloseNodes, Early
  <2>2. \A k \in 1..6 : WaitOrder[k] \notin Early \cup {"visit", "hash", "send"}
    BY <1>0 DEF Early
  <2> QED BY <1>0, <2>1, <2>2 DEF WaitedInv
<1>4. CASE main' = main /\ (\A u \in Writers : wpc[u] = "ended" => wpc'[u] = "ended")
  <2>1. ASSUME NEW i \in 1..6, NEW j \in 1..i - 1, main' = WaitOrder[i]
        PROVE  wpc'[WaitOrder[j]] = "ended"
    <3>1. wpc[WaitOrder[j]] = "ended" /\ j \in 1..5
      BY <1>0, <1>4, <2>1 DEF WaitedInv
    <3> QED BY <1>0, <1>4, <3>1
  <2> QED BY <1>0, <2>1 DEF WaitedInv
<1>5. ASSUME (\E w \in Writers : Writer(w)) \/ Fatal \/ UNCHANGED vars
      PROVE  main' = main /\ (\A u \in Writers : wpc[u] = "ended" => wpc'[u] = "ended")
  <2>1. CASE Fatal \/ UNCHANGED vars
    BY <2>1 DEF Fatal, vars, mainVars, writerVars
  <2>2. CASE \E w \in Writers : Writer(w)
    <3>1. PICK w \in Writers : Writer(w)
      BY <2>2
    <3>2. main' = main
      BY <3>1 DEF Writer, Create, WriteRow, Finish, ReceiveNode, WriteNode, mainVars
    <3>3. wpc' = wpc \/ \E u \in Writers : \E pc : wpc[u] # "ended" /\ wpc' = [wpc EXCEPT ![u] = pc]
      BY <3>1 DEF Writer, Create, WriteRow, Finish, ReceiveNode, WriteNode, Writers, Split
    <3> QED BY <1>0, <3>2, <3>3
  <2> QED BY <1>5, <2>1, <2>2
<1> QED BY <1>1, <1>2, <1>3, <1>4, <1>5 DEF Next, Main

-----------------------------------------------------------------------------
FullExportInv == Inv /\ VisitedInv /\ ContentInv /\ FilesInv /\ InputInv /\ StreamInv /\ WaitedInv

LEMMA InitFullExport == Init => FullExportInv
<1> SUFFICES ASSUME Init PROVE FullExportInv
  OBVIOUS
<1>1. Inv /\ ContentInv /\ VisitedInv /\ FilesInv
  BY InitExport DEF ExportInv
<1>2. /\ input = dataset /\ main = "read" /\ closed = {}
      /\ channel = [u \in Writers |-> <<>>]
      /\ wpc = [u \in Writers |-> IF u = "nodes" THEN "unborn" ELSE "create"]
  BY DEF Init
<1>3. Len(dataset) \in Nat /\ ReadRows = 0
  BY <1>1, <1>2, DatasetFacts DEF ReadRows
<1>4. InputInv
  BY <1>2, <1>3 DEF InputInv, Early
<1>5. ASSUME NEW w \in Writers \ {"nodes"} PROVE channel[w] = Sent(w) /\ wpc[w] = "create"
  <2>1. main \notin Before[w]
    BY <1>2, WriterFacts
  <2>2. Sent(w) = Chosen(Due[w])[0]
    BY <1>3, <2>1 DEF Sent, Handled
  <2> QED BY <1>2, <1>3, <2>2, ChosenFacts
<1>6. StreamInv
  BY <1>5 DEF StreamInv
<1>7. WaitedInv
  BY <1>2 DEF WaitedInv, WaitOrder
<1> QED BY <1>1, <1>4, <1>6, <1>7 DEF FullExportInv

LEMMA AlwaysFullExport == Spec => []FullExportInv
<1>1. FullExportInv /\ [Next]_vars => FullExportInv'
  BY StepInv, NodesStep, VisitStep, FilesStep, InputStep, StreamStep, WaitedStep DEF FullExportInv
<1> QED BY <1>1, InitFullExport, PTL DEF Spec

\* Where a sequence of rows ends, in full files and a rest.
LEMMA Quotient ==
    ASSUME NEW total \in Nat, NEW n \in Nat,
           n * FullFile <= total, total < (n + 1) * FullFile
    PROVE  total \div FullFile = n /\ (total % FullFile = 0 <=> n * FullFile = total)
<1>1. FullFile \in Nat \ {0} /\ n * FullFile \in Nat
  BY FullFileFacts
<1>2. \A a \in Nat, f \in Nat \ {0}, k \in Nat : k * f <= a /\ a < (k + 1) * f => a \div f = k
  OBVIOUS
<1>3. \A a \in Nat, f \in Nat \ {0} : a = f * (a \div f) + (a % f) /\ a % f \in Nat
  BY SMTT(30)
<1>4. total \div FullFile = n
  BY <1>1, <1>2
<1>5. total = FullFile * n + (total % FullFile) /\ total % FullFile \in Nat
  BY <1>1, <1>3, <1>4
<1>6. FullFile * n = n * FullFile
  BY <1>1
<1> QED BY <1>1, <1>4, <1>5, <1>6

(* When the importer has finished, the files of measurements and of        *)
(* certificates hold exactly the rows they have to, in order and cut where *)
(* a file is full, for any dataset, any size of the files and any buffers, *)
(* but for the first file when the last certificate fills a file.          *)
THEOREM CertificatesAreExported == Spec => []ExportedButFirstFile
<1>1. ASSUME FullExportInv PROVE ExportedButFirstFile
  <2> USE <1>1 DEF FullExportInv
  <2> DEFINE total(w) == Len(Expected[w])
             last(w) == IF w \in Split THEN total(w) \div FullFile ELSE 0
             lost(w) == IF w \in Split /\ total(w) % FullFile = 0 THEN {0} ELSE {}
  <2>1. SUFFICES ASSUME Finished, NEW w \in Writers \ {"nodes"}
                 PROVE  files[w] = [i \in (0..last(w)) \ lost(w) |->
                                     SubSeq(Expected[w], i * FullFile + 1,
                                            IF i = last(w) THEN total(w) ELSE (i + 1) * FullFile)]
    BY DEF ExportedButFirstFile
  <2>2. main = "finished" /\ main \notin Early
    BY <2>1 DEF Finished, Early
  <2>3. wpc[w] = "ended"
    <3>1. main = WaitOrder[6] /\ 6 \in 1..Len(WaitOrder)
      BY <2>2 DEF WaitOrder
    <3>2. \A j \in 1..5 : wpc[WaitOrder[j]] = "ended"
      BY <3>1 DEF WaitedInv
    <3>3. \E j \in 1..5 : w = WaitOrder[j]
      BY WriterFacts DEF WaitOrder
    <3> QED BY <3>2, <3>3
  <2>4. Sent(w) = Expected[w]
    <3>1. input = <<>> /\ main \notin Before[w]
      BY <2>2, WriterFacts DEF InputInv
    <3>2. Handled(w) = Len(dataset)
      BY <3>1, DatasetFacts, EmptyFacts DEF Handled, ReadRows
    <3> QED BY <3>2 DEF Sent, Expected
  <2>5. PICK n \in Nat :
          /\ Fits(w, n, Len(Sent(w)))
          /\ files[w] = Remaining(w, Sent(w), n)
    BY <2>3 DEF StreamInv, Complete
  <2>6. total(w) = Len(Sent(w)) /\ total(w) \in Nat
    BY <2>4, SentFacts, LenProperties
  <2>7. n = last(w) /\ lost(w) = IF w \in Split /\ n * FullFile = total(w) THEN {0} ELSE {}
    <3>1. CASE w \in Split
      BY <2>5, <2>6, <3>1, Quotient DEF Fits
    <3>2. CASE w \notin Split
      BY <2>5, <3>2 DEF Fits
    <3> QED BY <3>1, <3>2
  <2>8. \A i \in 0..n : Segments(Expected[w], n, total(w))[i] =
          SubSeq(Expected[w], i * FullFile + 1, IF i = n THEN total(w) ELSE (i + 1) * FullFile)
    BY DEF Segments
  <2>9. files[w] = [i \in (0..n) \ lost(w) |-> Segments(Expected[w], n, total(w))[i]]
    BY <2>4, <2>5, <2>7 DEF Remaining
  <2> HIDE DEF total, last, lost
  <2> QED BY <2>7, <2>8, <2>9
<1> QED BY <1>1, AlwaysFullExport, PTL

-----------------------------------------------------------------------------
(* The tree of the rows read so far *)

LEMMA TimesFacts ==
    ASSUME NEW S, NEW rows \in Seq(S), NEW v \in S, NEW c
    PROVE  /\ Times(rows, c) \in Nat
           /\ Times(Append(rows, v), c) = Times(rows, c) + (IF v = c THEN 1 ELSE 0)
           /\ c \notin ToSet(rows) => Times(rows, c) = 0
<1> DEFINE more == Append(rows, v)
           I == {i \in DOMAIN rows : rows[i] = c}
           J == {i \in DOMAIN more : more[i] = c}
<1>1. Len(rows) \in Nat /\ DOMAIN rows = 1..Len(rows)
  BY LenProperties
<1>2. /\ Len(more) = Len(rows) + 1 /\ DOMAIN more = 1..Len(rows) + 1
      /\ \A i \in 1..Len(rows) : more[i] = rows[i]
      /\ more[Len(rows) + 1] = v
  BY <1>1, AppendProperties, LenProperties
<1>3. IsFiniteSet(I)
  <2>1. IsFiniteSet(1..Len(rows)) /\ I \subseteq 1..Len(rows)
    BY <1>1, FS_Interval
  <2> HIDE DEF I
  <2> QED BY <2>1, FS_Subset
<1>4. Cardinality(I) \in Nat
  <2> HIDE DEF I
  <2> QED BY <1>3, FS_CardinalityType
<1>5. J = IF v = c THEN I \cup {Len(rows) + 1} ELSE I
  <2> HIDE DEF more
  <2> QED BY <1>1, <1>2
<1>6. Len(rows) + 1 \notin I
  BY <1>1
<1>7. Cardinality(J) = Cardinality(I) + (IF v = c THEN 1 ELSE 0)
  <2> HIDE DEF I, J
  <2>1. Cardinality(I \cup {Len(rows) + 1}) = Cardinality(I) + 1
    BY <1>3, <1>6, FS_AddElement
  <2> QED BY <1>4, <1>5, <2>1
<1>8. c \notin ToSet(rows) => I = {}
  BY DEF ToSet
<1>9. Cardinality({}) = 0
  BY FS_EmptySet
<1>10. Times(rows, c) = Cardinality(I) /\ Times(more, c) = Cardinality(J)
  BY DEF Times
<1> HIDE DEF I, J
<1> QED BY <1>4, <1>7, <1>8, <1>9, <1>10

\* The positions with one more certificate.
LEMMA PositionsFacts ==
    ASSUME NEW S, NEW rows \in Seq(S), NEW v \in S
    PROVE  Positions(Append(rows, v)) = Positions(rows) \cup ToSet(Covers[v])
                                        \cup UNION {Ancestors(q) : q \in ToSet(Covers[v])}
<1>1. ToSet(Append(rows, v)) = ToSet(rows) \cup {v}
  BY AppendFacts
<1>2. Named(Append(rows, v)) = Named(rows) \cup ToSet(Covers[v])
  BY <1>1 DEF Named
<1> QED BY <1>2 DEF Positions

\* A position that is not of the tree is named by no certificate.
LEMMA NotNamed ==
    ASSUME NEW rows \in Seq(Certs), NEW p, p \notin Positions(rows)
    PROVE  Contents(rows, p) = NoCerts
<1>1. ASSUME NEW c \in Certs PROVE Times(rows, c) * Occurrences(c, p) = 0
  <2>1. Times(rows, c) \in Nat /\ (c \notin ToSet(rows) => Times(rows, c) = 0)
    BY TimesFacts
  <2>2. Occurrences(c, p) \in Nat
    BY OccurrencesFacts
  <2>3. c \in ToSet(rows) => Occurrences(c, p) = 0
    <3>1. SUFFICES ASSUME c \in ToSet(rows) PROVE Occurrences(c, p) = 0
      OBVIOUS
    <3>2. p \notin ToSet(Covers[c])
      BY <3>1 DEF Positions, Named
    <3>3. {i \in DOMAIN Covers[c] : Covers[c][i] = p} = {}
      BY <3>2 DEF ToSet
    <3> QED BY <3>3, FS_EmptySet DEF Occurrences
  <2>4. c \in ToSet(rows) \/ c \notin ToSet(rows)
    OBVIOUS
  <2> QED BY <2>1, <2>2, <2>3, <2>4
<1> QED BY <1>1 DEF Contents, NoCerts

\* The certificates assigned to positions so far.
AssignedRows ==
    IF main = "certificate" THEN Append(Sent("certificates"), cert) ELSE Sent("certificates")

\* The tree is that of the certificates assigned so far.
AssignedInv ==
    /\ DOMAIN tree = Positions(AssignedRows)
    /\ \A p \in DOMAIN tree \ raced : tree[p].certs = Contents(AssignedRows, p)

LEMMA CertificatesFacts ==
    /\ "certificates" \in Writers \ {"nodes"}
    /\ Before["certificates"] = Early \ {"read"}
    /\ Due["certificates"] = Certs \ TooLarge
BY WriterFacts DEF Early

LEMMA AssignedSame ==
    ASSUME Inv, InputInv, FilesInv, [Next]_vars, ~AssignToNodes
    PROVE  AssignedRows' = AssignedRows
<1> DEFINE w == "certificates"
<1>0. w \in Writers \ {"nodes"} /\ Before[w] = Early \ {"read"} /\ Due[w] = Certs \ TooLarge
  BY CertificatesFacts
<1> HIDE DEF w
<1>1. /\ UNCHANGED <<dataset, input>> /\ (main \in Before[w] <=> main' \in Before[w]) =>
           Sent(w)' = Sent(w)
      /\ UNCHANGED <<dataset, input>> /\ main \in Before[w] /\ main' \notin Before[w] =>
           Sent(w)' = IF cert \in Due[w] THEN Append(Sent(w), cert) ELSE Sent(w)
  BY <1>0, Serve
<1>2. CASE ReadRow
  <2>1. main # "certificate" /\ main' # "certificate" /\ Sent(w)' = Sent(w)
    BY <1>0, <1>2, NotServed DEF ReadRow
  <2> QED BY <2>1 DEF AssignedRows, w
<1>3. CASE SendSize
  <2>1. /\ main = "size" /\ main' = IF cert \in TooLarge THEN "read" ELSE "sample"
        /\ UNCHANGED <<dataset, input>>
    BY <1>3 DEF SendSize
  <2>2. Sent(w)' = Sent(w)
    BY <1>0, <1>1, <2>1 DEF Early
  <2> QED BY <2>1, <2>2 DEF AssignedRows, w
<1>4. CASE SendCertificate
  <2>1. main = "certificate" /\ main' = "read" /\ UNCHANGED <<dataset, input>>
    BY <1>4 DEF SendCertificate
  <2>2. cert \in Due[w]
    BY <1>0, <2>1 DEF InputInv, Early
  <2>3. Sent(w)' = Append(Sent(w), cert)
    BY <1>0, <1>1, <2>1, <2>2 DEF Early
  <2> QED BY <2>1, <2>3 DEF AssignedRows, w
<1>5. CASE SendSample \/ SendAltitude
  <2>1. /\ main \in {"sample", "altitude"} /\ main' \in {"altitude", "assign"}
        /\ UNCHANGED <<dataset, input>>
    BY <1>5 DEF SendSample, SendAltitude
  <2>2. Sent(w)' = Sent(w)
    BY <1>0, <1>1, <2>1 DEF Early
  <2> QED BY <2>1, <2>2 DEF AssignedRows, w
<1>6. CASE Nodes
  <2>1. /\ main \notin Early \ {"read"} /\ main' \notin Early \ {"read"}
        /\ UNCHANGED <<dataset, input>>
    BY <1>6 DEF Nodes, CloseChannels, Visit, HashChild, SendNode, CloseNodes, Early
  <2>2. Sent(w)' = Sent(w)
    BY <1>0, <1>1, <2>1
  <2> QED BY <2>1, <2>2 DEF AssignedRows, w, Early
<1>7. CASE \E i \in 1..Len(WaitOrder) - 1 : Wait(i)
  <2>1. /\ main \notin Early \ {"read"} /\ main' \notin Early \ {"read"}
        /\ UNCHANGED <<dataset, input>>
    <3>1. PICK i \in 1..5 : Wait(i)
      BY <1>7 DEF WaitOrder
    <3> QED BY <3>1 DEF Wait, WaitOrder, Early
  <2>2. Sent(w)' = Sent(w)
    BY <1>0, <1>1, <2>1
  <2>3. main # "certificate" /\ main' # "certificate"
    BY <2>1 DEF Early
  <2> QED BY <2>2, <2>3 DEF AssignedRows, w
<1>8. CASE (\E u \in Writers : Writer(u)) \/ Fatal \/ UNCHANGED vars
  <2>1. UNCHANGED <<dataset, input, main, cert>>
    BY <1>8 DEF Writer, Create, WriteRow, Finish, ReceiveNode, WriteNode, mainVars, Fatal, vars
  <2>2. Sent(w)' = Sent(w)
    BY <1>1, <2>1
  <2> QED BY <2>1, <2>2 DEF AssignedRows, w
<1> QED BY <1>2, <1>3, <1>4, <1>5, <1>6, <1>7, <1>8 DEF Next, Main, Rows

LEMMA AssignNamed ==
    Inv /\ ContentInv /\ InputInv /\ AssignedInv /\ AssignToNodes /\ UNCHANGED raced => AssignedInv'
<1> SUFFICES ASSUME Inv, ContentInv, InputInv, AssignedInv, AssignToNodes, UNCHANGED raced
             PROVE  AssignedInv'
  OBVIOUS
<1> DEFINE rows == Sent("certificates")
<1>1. /\ cert \in Certs \ TooLarge /\ main = "assign" /\ main' = "certificate"
      /\ tree' = Assigned(tree, cert) /\ cert' = cert /\ UNCHANGED <<dataset, input>>
  BY DEF AssignToNodes, InputInv, Early
<1>2. rows \in Seq(Certs \ TooLarge) /\ rows' = rows
  <2>1. rows \in Seq(Due["certificates"])
    BY CertificatesFacts, SentFacts
  <2>2. main \in Before["certificates"] /\ main' \in Before["certificates"]
    BY <1>1, CertificatesFacts DEF Early
  <2>3. rows' = rows
    BY <1>1, <2>2, CertificatesFacts, Serve
  <2> QED BY <2>1, <2>3, CertificatesFacts
<1>3. AssignedRows = rows /\ AssignedRows' = Append(rows, cert)
  BY <1>1, <1>2 DEF AssignedRows
<1> HIDE DEF rows
<1> DEFINE certs(p) == IF p \in DOMAIN tree THEN tree[p].certs ELSE NoCerts
           new(p) == [certs(p) EXCEPT ![cert] = @ + Occurrences(cert, p)]
<1>4. /\ DOMAIN tree' = DOMAIN tree \cup ToSet(Covers[cert])
                        \cup UNION {Ancestors(q) : q \in ToSet(Covers[cert])}
      /\ \A p \in DOMAIN tree' : tree'[p] = NewRow(new(p))
  BY <1>1 DEF Assigned
<1>5. ASSUME NEW p \in DOMAIN tree' PROVE tree'[p].certs = new(p)
  <2>1. tree'[p] = [child |-> [s \in Sides |-> Null], certs |-> new(p)]
    BY <1>4 DEF NewRow
  <2> HIDE DEF new
  <2> QED BY ONLY <2>1
<1>6. DOMAIN tree' = Positions(Append(rows, cert))
  <2>1. DOMAIN tree = Positions(rows)
    BY <1>3 DEF AssignedInv
  <2> QED BY <1>1, <1>2, <1>4, <2>1, PositionsFacts
<1>7. ASSUME NEW p \in DOMAIN tree', p \notin raced
      PROVE  new(p) = Contents(Append(rows, cert), p)
  <2>1. certs(p) = Contents(rows, p)
    <3>1. CASE p \in DOMAIN tree
      BY <1>3, <1>7, <3>1 DEF AssignedInv
    <3>2. CASE p \notin DOMAIN tree
      <4>1. rows \in Seq(Certs)
        BY <1>2
      <4>2. p \notin Positions(rows)
        BY <1>3, <3>2 DEF AssignedInv
      <4> QED BY <3>2, <4>1, <4>2, NotNamed
    <3> QED BY <3>1, <3>2
  <2>2. new(p) = [Contents(rows, p) EXCEPT ![cert] = @ + Occurrences(cert, p)]
    BY <2>1
  <2>3. ASSUME NEW c \in Certs
        PROVE  Times(Append(rows, cert), c) * Occurrences(c, p) =
                 Times(rows, c) * Occurrences(c, p) + (IF cert = c THEN Occurrences(c, p) ELSE 0)
    <3>1. Times(rows, c) \in Nat /\ Times(Append(rows, cert), c) = Times(rows, c) + (IF cert = c THEN 1 ELSE 0)
      BY <1>1, <1>2, TimesFacts
    <3>2. Occurrences(c, p) \in Nat
      BY OccurrencesFacts
    <3>3. \A a, b \in Nat : (a + 1) * b = a * b + b /\ (a + 0) * b = a * b + 0
      OBVIOUS
    <3> QED BY <3>1, <3>2, <3>3
  <2>4. ASSUME NEW c \in Certs
        PROVE  [Contents(rows, p) EXCEPT ![cert] = @ + Occurrences(cert, p)][c] =
                 Contents(Append(rows, cert), p)[c]
    <3>1. Times(rows, c) * Occurrences(c, p) \in Nat
      <4>1. Times(rows, c) \in Nat /\ Occurrences(c, p) \in Nat
        BY <1>1, <1>2, TimesFacts, OccurrencesFacts
      <4> QED BY <4>1
    <3> QED BY <1>1, <2>3, <3>1 DEF Contents
  <2> HIDE DEF new
  <2> QED BY <2>2, <2>4 DEF Contents
<1> HIDE DEF new
<1> QED BY <1>3, <1>5, <1>6, <1>7 DEF AssignedInv

LEMMA AssignedStep ==
    Inv /\ ContentInv /\ VisitedInv /\ FilesInv /\ InputInv /\ AssignedInv /\ [Next]_vars => AssignedInv'
<1> SUFFICES ASSUME Inv, ContentInv, VisitedInv, FilesInv, InputInv, AssignedInv, [Next]_vars
             PROVE  AssignedInv'
  OBVIOUS
<1>1. CASE HashChild
  <2>1. DOMAIN tree' = DOMAIN tree /\ raced \subseteq raced'
    BY <1>1, HashChildTree, SortedFacts DEF HashChild
  <2>2. \A p \in DOMAIN tree \ raced' : tree'[p].certs = tree[p].certs
    BY <1>1, HashChildNodes
  <2>3. AssignedRows' = AssignedRows
    BY <1>1, AssignedSame DEF HashChild, AssignToNodes
  <2> QED BY <2>1, <2>2, <2>3 DEF AssignedInv
<1>2. CASE WriteNode
  <2>1. /\ DOMAIN tree' = DOMAIN tree /\ raced \subseteq raced'
        /\ \A p \in DOMAIN tree : p \notin raced' => tree'[p] = tree[p]
    BY <1>2, WriteNodeTree, SortedFacts DEF WriteNode
  <2>2. ~AssignToNodes
    BY <1>2 DEF WriteNode, AssignToNodes, mainVars
  <2>3. AssignedRows' = AssignedRows
    BY <2>2, AssignedSame
  <2> QED BY <2>1, <2>3 DEF AssignedInv
<1>3. CASE UNCHANGED <<tree, raced>> /\ ~AssignToNodes
  BY <1>3, AssignedSame DEF AssignedInv
<1>4. AssignToNodes => UNCHANGED raced
  BY DEF AssignToNodes
<1> QED BY <1>1, <1>2, <1>3, <1>4, AssignNamed, TreeSteps

-----------------------------------------------------------------------------
(* The nodes, in the order in which main finishes them *)

Pending == IF wpc["nodes"] = "write" THEN 1 ELSE 0

\* The rows of the first nodes.
RowsOf(order, total, rows) ==
    /\ \E S : rows \in Seq(S)
    /\ Len(rows) = total
    /\ \A i \in 1..total : rows[i].at = order[i]

\* While the writer receives, the nodes that main has finished are in its files,
\* then perhaps in its hands, and then in its channel.
Placed(order, n, total, rows) ==
    /\ RowsOf(order, total, rows)
    /\ Fits("nodes", n, total)
    /\ files["nodes"] = Segments(rows, n, total)
    /\ total + Pending <= Len(order)
    /\ Pending = 1 => row = order[total + 1]
    /\ channel["nodes"] = SubSeq(order, total + Pending + 1, Len(order))

NodesReceiving(order) == \E n \in Nat : \E total \in 0..Len(order) : \E rows : Placed(order, n, total, rows)

NodesComplete(order) ==
    \E n \in Nat : \E rows :
        /\ RowsOf(order, Len(order), rows)
        /\ Fits("nodes", n, Len(order))
        /\ files["nodes"] = Remaining("nodes", rows, n)

\* No position comes twice.
IsOrder(order) == order \in Seq(Pairs) /\ IsInjective(order) /\ ToSet(order) = Done

Ordered(order) ==
    /\ IsOrder(order)
    /\ wpc["nodes"] = "create" => channel["nodes"] = order
    /\ wpc["nodes"] \in {"receive", "write"} => NodesReceiving(order)
    /\ wpc["nodes"] \in {"done", "ended"} => NodesComplete(order)

OrderInv ==
    /\ "nodes" \in closed => unsent = {} /\ main \notin Early \cup Held
    /\ wpc["nodes"] \in {"done", "ended"} => "nodes" \in closed
    /\ main \notin Early => wpc["nodes"] # "unborn" /\ \E order : Ordered(order)

\* Only a send finishes a node.
LEMMA DoneSteps ==
    ASSUME Inv, VisitedInv, [Next]_vars, main \notin Early
    PROVE  /\ SendNode => Done' = Done \cup {at} /\ at \in Pairs \ Done
           /\ ~SendNode => Done' = Done
<1>1. CASE UNCHANGED <<main, unsent, at>> /\ DOMAIN tree' = DOMAIN tree
  <2>1. Done' = Done
    BY <1>1 DEF Done
  <2>2. ~SendNode
    BY <1>1 DEF SendNode
  <2> QED BY <2>1, <2>2
<1>2. CASE WriteNode
  <2>1. DOMAIN tree' = DOMAIN tree /\ UNCHANGED <<main, unsent, at>>
    BY <1>2, WriteNodeTree DEF WriteNode, mainVars
  <2> QED BY <1>1, <2>1
<1>3. CASE HashChild
  <2>1. DOMAIN tree' = DOMAIN tree /\ UNCHANGED <<unsent, at>> /\ main \in Held /\ main' \in Held
    BY <1>3, HashChildTree DEF HashChild, Held
  <2>2. main = "hash"
    BY <1>3 DEF HashChild
  <2> QED BY <2>1, <2>2 DEF Done, SendNode
<1>4. CASE SendNode
  <2>1. /\ main = "send" /\ main' = "visit" /\ UNCHANGED <<tree, unsent, at>>
    BY <1>4 DEF SendNode
  <2>2. main \in Held /\ main' \notin Held
    BY <2>1 DEF Held
  <2>3. at \in DOMAIN tree \ unsent /\ at \in Pairs
    BY <2>2 DEF Inv, TypeOK, HandInv
  <2> QED BY <1>4, <2>1, <2>2, <2>3 DEF Done
<1>5. CASE \E p \in unsent : Visit(p)
  <2>1. PICK p \in unsent : Visit(p)
    BY <1>5
  <2>2. /\ main = "visit" /\ main' \in Held /\ main \notin Held
        /\ unsent' = unsent \ {p} /\ at' = p /\ tree' = tree /\ p \in DOMAIN tree
    BY <2>1 DEF Visit, Held, Inv, TypeOK
  <2> QED BY <2>2 DEF Done, SendNode
<1>6. CASE CloseNodes \/ \E i \in 1..Len(WaitOrder) - 1 : Wait(i)
  <2>1. main \notin Held /\ main' \notin Held /\ UNCHANGED <<tree, unsent>>
    <3>1. CASE CloseNodes
      BY <3>1 DEF CloseNodes, Held
    <3>2. CASE \E i \in 1..Len(WaitOrder) - 1 : Wait(i)
      <4>1. PICK i \in 1..5 : Wait(i)
        BY <3>2 DEF WaitOrder
      <4> QED BY <4>1 DEF Wait, WaitOrder, Held
    <3> QED BY <1>6, <3>1, <3>2
  <2> QED BY <2>1 DEF Done, SendNode, Held
<1>7. CASE (\E w \in Writers : Create(w) \/ WriteRow(w) \/ Finish(w)) \/ ReceiveNode \/ Fatal
           \/ UNCHANGED vars
  BY <1>1, <1>7 DEF Create, WriteRow, Finish, ReceiveNode, Fatal, vars, mainVars
<1>8. ~Rows /\ ~CloseChannels
  BY DEF Rows, ReadRow, SendSize, SendSample, SendAltitude, AssignToNodes, SendCertificate,
         CloseChannels, Early
<1> QED BY <1>2, <1>3, <1>4, <1>5, <1>6, <1>7, <1>8 DEF Next, Main, Nodes, Writer

\* What the writer of nodes sees of a step.
LEMMA NodesSeen ==
    ASSUME Inv, FilesInv, [Next]_vars, main \notin Early,
           ~SendNode, ~ReceiveNode, ~WriteNode, ~Create("nodes"), ~Finish("nodes")
    PROVE  /\ files'["nodes"] = files["nodes"] /\ channel'["nodes"] = channel["nodes"] /\ row' = row
           /\ wpc'["nodes"] = wpc["nodes"] \/ (wpc["nodes"] = "done" /\ wpc'["nodes"] = "ended")
<1>0. /\ channel = [u \in Writers |-> channel[u]]
      /\ wpc = [u \in Writers |-> wpc[u]] /\ files = [u \in Writers |-> files[u]]
      /\ "nodes" \in Writers
  BY DEF Inv, TypeOK, FilesInv, Writers, Split
<1>1. CASE (\E p \in unsent : Visit(p)) \/ HashChild \/ CloseNodes \/ Fatal \/ UNCHANGED vars
  BY <1>1 DEF Visit, HashChild, CloseNodes, Fatal, vars, writerVars
<1>2. CASE \E i \in 1..Len(WaitOrder) - 1 : Wait(i)
  <2>1. PICK i \in 1..Len(WaitOrder) - 1 : Wait(i)
    BY <1>2
  <2>2. /\ wpc[main] = "done" /\ wpc' = [wpc EXCEPT ![main] = "ended"]
        /\ UNCHANGED <<files, channel, row>>
    BY <2>1 DEF Wait
  <2> QED BY <1>0, <2>2
<1>3. ASSUME NEW w \in Writers \ {"nodes"}, Create(w) \/ WriteRow(w) \/ Finish(w)
      PROVE  /\ files'["nodes"] = files["nodes"] /\ channel'["nodes"] = channel["nodes"]
             /\ row' = row /\ wpc'["nodes"] = wpc["nodes"]
  <2>1. CASE Create(w)
    BY <1>0, <1>3, <2>1 DEF Create
  <2>2. CASE WriteRow(w)
    BY <1>0, <1>3, <2>2 DEF WriteRow
  <2>3. CASE Finish(w)
    <3>1. files' = files \/ \E g : files' = [files EXCEPT ![w] = g]
      BY <2>3 DEF Finish
    <3>2. wpc' = [wpc EXCEPT ![w] = "done"] /\ channel' = channel /\ row' = row
      BY <2>3 DEF Finish
    <3> QED BY <1>0, <1>3, <3>1, <3>2
  <2> QED BY <1>3, <2>1, <2>2, <2>3
<1>4. ~Rows /\ ~CloseChannels /\ ~WriteRow("nodes")
  BY DEF Rows, ReadRow, SendSize, SendSample, SendAltitude, AssignToNodes, SendCertificate,
         CloseChannels, WriteRow, Early
<1>5. \/ (\E p \in unsent : Visit(p)) \/ HashChild \/ CloseNodes \/ Fatal \/ UNCHANGED vars
      \/ \E i \in 1..Len(WaitOrder) - 1 : Wait(i)
      \/ \E w \in Writers \ {"nodes"} : Create(w) \/ WriteRow(w) \/ Finish(w)
  BY <1>4 DEF Next, Main, Nodes, Writer
<1> QED BY <1>1, <1>2, <1>3, <1>5


LEMMA AppendKeepsInjective ==
    ASSUME NEW S, NEW s \in Seq(S), IsInjective(s), NEW v \in S, v \notin ToSet(s)
    PROVE  IsInjective(Append(s, v))
<1> DEFINE t == Append(s, v)
<1>1. Len(s) \in Nat /\ DOMAIN s = 1..Len(s) /\ DOMAIN t = 1..Len(s) + 1
  BY LenProperties, AppendProperties
<1>2. (\A i \in 1..Len(s) : t[i] = s[i]) /\ t[Len(s) + 1] = v
  BY AppendProperties
<1>3. \A i \in 1..Len(s) : s[i] # v
  BY <1>1 DEF ToSet
<1>4. \A i, j \in 1..Len(s) : s[i] = s[j] => i = j
  BY <1>1 DEF IsInjective
<1> HIDE DEF t
<1>5. ASSUME NEW i \in DOMAIN t, NEW j \in DOMAIN t, t[i] = t[j] PROVE i = j
  <2>1. CASE i \in 1..Len(s) /\ j \in 1..Len(s)
    BY <1>2, <1>4, <1>5, <2>1
  <2>2. CASE i = Len(s) + 1 \/ j = Len(s) + 1
    BY <1>1, <1>2, <1>3, <1>5, <2>2
  <2> QED BY <1>1, <2>1, <2>2
<1> QED BY <1>5 DEF IsInjective, t

\* The rest of a sequence, with one more element and without its first one.
LEMMA RestFacts ==
    ASSUME NEW S, NEW s \in Seq(S), NEW lo \in 1..Len(s) + 1
    PROVE  /\ \A v \in S : Append(SubSeq(s, lo, Len(s)), v) = SubSeq(Append(s, v), lo, Len(s) + 1)
           /\ SubSeq(s, lo, Len(s)) # <<>> =>
                /\ lo <= Len(s)
                /\ Head(SubSeq(s, lo, Len(s))) = s[lo]
                /\ Tail(SubSeq(s, lo, Len(s))) = SubSeq(s, lo + 1, Len(s))
<1>1. Len(s) \in Nat
  BY LenProperties
<1>2. ASSUME NEW v \in S
      PROVE  Append(SubSeq(s, lo, Len(s)), v) = SubSeq(Append(s, v), lo, Len(s) + 1)
  BY SMTT(30)
<1>3. ASSUME SubSeq(s, lo, Len(s)) # <<>>
      PROVE  /\ lo <= Len(s)
             /\ Head(SubSeq(s, lo, Len(s))) = s[lo]
             /\ Tail(SubSeq(s, lo, Len(s))) = SubSeq(s, lo + 1, Len(s))
  <2>1. lo \in 1..Len(s) /\ Len(s) \in lo..Len(s)
    BY <1>1, <1>3, NoneLeft
  <2> QED BY <2>1, HeadTailOfSubSeq
<1> QED BY <1>2, <1>3

\* main sends a node.
LEMMA OrderSend ==
    ASSUME Inv, VisitedInv, FilesInv, [Next]_vars, OrderInv, SendNode, NEW order, Ordered(order)
    PROVE  \E more : Ordered(more)'
<1>1. /\ main \notin Early /\ main \in Held /\ UNCHANGED <<wpc, files, row>>
      /\ channel'["nodes"] = Append(channel["nodes"], at)
  BY DEF SendNode, Send, Early, Held, writerVars, Inv, TypeOK, Writers, Split
<1>2. Done' = Done \cup {at} /\ at \in Pairs \ Done
  BY <1>1, DoneSteps
<1>3. PICK p \in Pairs \ Done : p = at
  BY <1>2
<1>4. PICK more : more = Append(order, p)
  OBVIOUS
<1>5. /\ order \in Seq(Pairs) /\ Len(order) \in Nat /\ more \in Seq(Pairs)
      /\ Len(more) = Len(order) + 1 /\ \A i \in 1..Len(order) : more[i] = order[i]
  BY <1>4, LenProperties, AppendProperties DEF Ordered, IsOrder
<1>6. IsOrder(more)'
  <2>1. IsInjective(more)
    BY <1>4, <1>5, AppendKeepsInjective DEF Ordered, IsOrder
  <2>2. ToSet(more) = ToSet(order) \cup {p}
    BY <1>4, <1>5, AppendFacts
  <2>3. ToSet(more) = Done'
    BY <1>2, <1>3, <2>2 DEF Ordered, IsOrder
  <2> QED BY <1>5, <2>1, <2>3 DEF IsOrder
<1>7. wpc["nodes"] \notin {"done", "ended"}
  BY <1>1 DEF OrderInv
<1>8. ASSUME NodesReceiving(order) PROVE NodesReceiving(more)'
  <2>1. PICK n \in Nat, total \in 0..Len(order) : \E rows : Placed(order, n, total, rows)
    BY <1>8 DEF NodesReceiving
  <2>2. PICK rows : Placed(order, n, total, rows)
    BY <2>1
  <2>3. Pending' = Pending /\ Pending \in {0, 1}
    BY <1>1 DEF Pending
  <2>4. RowsOf(more, total, rows)
    <3>1. \A i \in 1..total : i \in 1..Len(order)
      BY <1>5
    <3> QED BY <1>5, <2>2, <3>1 DEF Placed, RowsOf
  <2>5. total + Pending + 1 \in 1..Len(order) + 1
    BY <1>5, <2>2, <2>3 DEF Placed
  <2>6. channel'["nodes"] = SubSeq(more, total + Pending + 1, Len(more))
    <3>1. Append(SubSeq(order, total + Pending + 1, Len(order)), p)
            = SubSeq(Append(order, p), total + Pending + 1, Len(order) + 1)
      BY <1>5, <2>5, RestFacts
    <3>2. channel["nodes"] = SubSeq(order, total + Pending + 1, Len(order))
      BY <2>2 DEF Placed
    <3> QED BY <1>1, <1>3, <1>4, <1>5, <3>1, <3>2
  <2>7. Pending = 1 => row' = more[total + 1]
    <3>1. Pending = 1 => total + 1 \in 1..Len(order)
      BY <1>5, <2>2 DEF Placed
    <3> QED BY <1>1, <1>5, <2>2, <3>1 DEF Placed
  <2>8. total \in 0..Len(more) /\ total + Pending <= Len(more)
    BY <1>5, <2>2, <2>3 DEF Placed
  <2>9. Placed(more, n, total, rows)'
    BY <1>1, <2>2, <2>3, <2>4, <2>6, <2>7, <2>8 DEF Placed, RowsOf, Fits, Segments
  <2> QED BY <2>8, <2>9 DEF NodesReceiving
<1>9. wpc["nodes"] = "create" => channel'["nodes"] = more
  BY <1>1, <1>3, <1>4 DEF Ordered
<1>10. wpc["nodes"] \in {"receive", "write"} => NodesReceiving(more)'
  BY <1>8 DEF Ordered
<1>11. Ordered(more)'
  BY <1>1, <1>6, <1>7, <1>9, <1>10 DEF Ordered
<1> QED BY <1>11

\* The writer receives a node.
LEMMA OrderReceive ==
    ASSUME Inv, VisitedInv, FilesInv, [Next]_vars, ReceiveNode, main \notin Early,
           NEW order, Ordered(order)
    PROVE  Ordered(order)'
<1>1. /\ wpc["nodes"] = "receive" /\ wpc'["nodes"] = "write" /\ files' = files /\ main' = main
      /\ channel["nodes"] # <<>> /\ row' = Head(channel["nodes"])
      /\ channel'["nodes"] = Tail(channel["nodes"])
  BY DEF ReceiveNode, mainVars, Inv, TypeOK, Writers, Split
<1>2. Done' = Done
  BY <1>1, DoneSteps DEF SendNode
<1>3. order \in Seq(Pairs) /\ Len(order) \in Nat
  BY LenProperties DEF Ordered, IsOrder
<1>4. Pending = 0 /\ Pending' = 1
  BY <1>1 DEF Pending
<1>5. PICK n \in Nat, total \in 0..Len(order) : \E rows : Placed(order, n, total, rows)
  BY <1>1 DEF Ordered, NodesReceiving
<1>6. PICK rows : Placed(order, n, total, rows)
  BY <1>5
<1>7. total + 0 + 1 = total + 1 /\ total + 1 \in 1..Len(order) + 1
  BY <1>3
<1>8. channel["nodes"] = SubSeq(order, total + 1, Len(order))
  BY <1>4, <1>6, <1>7 DEF Placed
<1>9. /\ total + 1 <= Len(order) /\ row' = order[total + 1]
      /\ channel'["nodes"] = SubSeq(order, total + 1 + 1, Len(order))
  BY <1>1, <1>3, <1>7, <1>8, RestFacts
<1>10. Placed(order, n, total, rows)'
  BY <1>1, <1>4, <1>6, <1>9 DEF Placed, RowsOf, Fits, Segments
<1>11. NodesReceiving(order)'
  BY <1>10 DEF NodesReceiving
<1> QED BY <1>1, <1>2, <1>11 DEF Ordered, IsOrder


\* The writer writes the node it holds.
LEMMA OrderWrite ==
    ASSUME Inv, VisitedInv, FilesInv, [Next]_vars, WriteNode, main \notin Early,
           NEW order, Ordered(order)
    PROVE  Ordered(order)'
<1>1. /\ wpc["nodes"] = "write" /\ wpc'["nodes"] = "receive" /\ channel' = channel
      /\ main' = main /\ row' = row
  BY DEF WriteNode, mainVars, Inv, TypeOK, Writers, Split
<1>2. Done' = Done
  BY <1>1, DoneSteps DEF SendNode
<1>3. order \in Seq(Pairs) /\ Len(order) \in Nat
  BY LenProperties DEF Ordered, IsOrder
<1>4. Pending = 1 /\ Pending' = 0
  BY <1>1 DEF Pending
<1>5. PICK n \in Nat, total \in 0..Len(order) : \E rows : Placed(order, n, total, rows)
  BY <1>1 DEF Ordered, NodesReceiving
<1>6. PICK rows : Placed(order, n, total, rows)
  BY <1>5
<1>7. PICK v : v = [at |-> row, node |-> tree'[row]]
  OBVIOUS
<1>8. v.at = row /\ files'["nodes"] = Written("nodes", v)
  <2>1. v.at = row
    BY ONLY <1>7
  <2> QED BY <1>7, <2>1 DEF WriteNode, FilesInv, Writers, Split
<1>9. PICK S : rows \in Seq(S)
  BY <1>6 DEF Placed, RowsOf
<1> DEFINE T == S \cup {v}
           more == Append(rows, v)
<1>10. /\ rows \in Seq(T) /\ Len(rows) = total /\ v \in T
  <2>1. /\ rows = [i \in 1..Len(rows) |-> rows[i]] /\ Len(rows) \in Nat
        /\ \A i \in 1..Len(rows) : rows[i] \in S
    BY <1>9, LenProperties, ElementOfSeq
  <2>2. \A i \in 1..Len(rows) : rows[i] \in T
    BY <2>1
  <2> HIDE DEF T
  <2>3. rows \in Seq(T)
    BY <2>1, <2>2, IsASeq
  <2> QED BY <1>6, <2>3 DEF Placed, RowsOf, T
<1> HIDE DEF T
<1>11. /\ more \in Seq(T) /\ Len(more) = total + 1
       /\ \A i \in 1..total : more[i] = rows[i]
       /\ more[total + 1] = v
  BY <1>10, AppendProperties
<1>12. files["nodes"] = Segments(more, n, total)
  <2>1. total \in 0..Len(rows)
    BY <1>3, <1>10
  <2> QED BY <1>6, <1>10, <2>1, SegmentsSame DEF Placed
<1> HIDE DEF more
<1>13. PICK m \in Nat : /\ Fits("nodes", m, total + 1)
                        /\ Written("nodes", more[total + 1]) = Segments(more, m, total + 1)
  <2>1. total \in 0..Len(more) - 1
    BY <1>3, <1>11
  <2>2. Fits("nodes", n, total)
    BY <1>6 DEF Placed
  <2> QED BY <1>11, <1>12, <2>1, <2>2, SegmentWritten
<1>14. /\ total + 1 <= Len(order) /\ row = order[total + 1]
       /\ channel["nodes"] = SubSeq(order, total + 1 + 1, Len(order))
       /\ \A i \in 1..total : rows[i].at = order[i]
  BY <1>4, <1>6 DEF Placed, RowsOf
<1>15. RowsOf(order, total + 1, more)
  <2>1. ASSUME NEW i \in 1..total + 1 PROVE more[i].at = order[i]
    <3>1. i \in 1..total \/ i = total + 1
      BY <1>3
    <3> QED BY <1>8, <1>11, <1>14, <3>1
  <2> QED BY <1>11, <2>1 DEF RowsOf
<1>16. Placed(order, m, total + 1, more)'
  <2>1. total + 1 + 0 = total + 1 /\ total + 1 + 0 + 1 = total + 1 + 1
    BY <1>3
  <2>2. files'["nodes"] = Segments(more, m, total + 1)
    BY <1>8, <1>11, <1>13
  <2> QED BY <1>1, <1>4, <1>13, <1>14, <1>15, <2>1, <2>2 DEF Placed, RowsOf, Fits, Segments
<1>17. NodesReceiving(order)'
  <2>1. total + 1 \in 0..Len(order)
    BY <1>3, <1>14
  <2> QED BY <1>16, <2>1 DEF NodesReceiving
<1> QED BY <1>1, <1>2, <1>17 DEF Ordered, IsOrder

LEMMA OrderCreate ==
    ASSUME Inv, VisitedInv, FilesInv, [Next]_vars, Create("nodes"), main \notin Early,
           NEW order, Ordered(order)
    PROVE  Ordered(order)'
<1>0. "nodes" \in Writers
  BY DEF Writers, Split
<1>1. /\ wpc["nodes"] = "create" /\ wpc'["nodes"] = "receive" /\ channel' = channel /\ main' = main
  BY <1>0 DEF Create, mainVars, Inv, TypeOK
<1>2. Done' = Done
  BY <1>1, DoneSteps DEF SendNode
<1>3. order \in Seq(Pairs) /\ Len(order) \in Nat
  BY LenProperties DEF Ordered, IsOrder
<1>4. files'["nodes"] = Segments(<<>>, 0, 0)
  BY <1>0, CreateCuts
<1>5. Fits("nodes", 0, 0)
  BY FullFileFacts DEF Fits
<1>6. RowsOf(order, 0, <<>>)
  <2>1. <<>> \in Seq({}) /\ Len(<<>>) = 0 /\ 1..0 = {}
    BY EmptyFacts
  <2> QED BY <2>1 DEF RowsOf
<1>7. channel'["nodes"] = SubSeq(order, 0 + 0 + 1, Len(order)) /\ 0 + 0 <= Len(order)
  BY <1>1, <1>3, SubSeqFull DEF Ordered
<1>8. Pending' = 0
  BY <1>1 DEF Pending
<1>9. Placed(order, 0, 0, <<>>)'
  BY <1>4, <1>5, <1>6, <1>7, <1>8 DEF Placed, RowsOf, Fits, Segments
<1>10. NodesReceiving(order)'
  <2>1. 0 \in Nat /\ 0 \in 0..Len(order)
    BY <1>3
  <2> QED BY <1>9, <2>1 DEF NodesReceiving
<1> QED BY <1>1, <1>2, <1>10 DEF Ordered, IsOrder

LEMMA OrderFinish ==
    ASSUME Inv, VisitedInv, FilesInv, [Next]_vars, Finish("nodes"), main \notin Early,
           NEW order, Ordered(order)
    PROVE  Ordered(order)'
<1>0. "nodes" \in Writers /\ "nodes" \in Split
  BY DEF Writers, Split
<1>1. /\ wpc["nodes"] = "receive" /\ wpc'["nodes"] = "done" /\ channel["nodes"] = <<>> /\ main' = main
  BY <1>0 DEF Finish, mainVars, Inv, TypeOK
<1>2. Done' = Done
  BY <1>1, DoneSteps DEF SendNode
<1>3. order \in Seq(Pairs) /\ Len(order) \in Nat
  BY LenProperties DEF Ordered, IsOrder
<1>4. Pending = 0
  BY <1>1 DEF Pending
<1>5. PICK n \in Nat, total \in 0..Len(order) : \E rows : Placed(order, n, total, rows)
  BY <1>1 DEF Ordered, NodesReceiving
<1>6. PICK rows : Placed(order, n, total, rows)
  BY <1>5
<1>7. total = Len(order)
  <2>1. total + 0 + 1 = total + 1 /\ total + 1 \in 1..Len(order) + 1
    BY <1>3
  <2>2. SubSeq(order, total + 1, Len(order)) = <<>>
    BY <1>1, <1>4, <1>6, <2>1 DEF Placed
  <2>3. total + 1 = Len(order) + 1
    BY <1>3, <2>1, <2>2, NoneLeft
  <2> QED BY <1>3, <2>3
<1>8. PICK S : rows \in Seq(S)
  BY <1>6 DEF Placed, RowsOf
<1>9. Len(rows) = Len(order) /\ Fits("nodes", n, Len(rows)) /\ files["nodes"] = Segments(rows, n, Len(rows))
  BY <1>6, <1>7 DEF Placed, RowsOf
<1>10. files'["nodes"] = Remaining("nodes", rows, n)
  BY <1>0, <1>8, <1>9, FinishCuts
<1>11. NodesComplete(order)'
  <2>1. RowsOf(order, Len(order), rows) /\ Fits("nodes", n, Len(order))
    BY <1>6, <1>7 DEF Placed
  <2> QED BY <1>10, <2>1 DEF NodesComplete, RowsOf, Fits, Remaining, Segments
<1> QED BY <1>1, <1>2, <1>11 DEF Ordered, IsOrder

LEMMA OrderSame ==
    ASSUME Inv, VisitedInv, FilesInv, [Next]_vars, main \notin Early,
           ~SendNode, ~ReceiveNode, ~WriteNode, ~Create("nodes"), ~Finish("nodes"),
           NEW order, Ordered(order)
    PROVE  Ordered(order)'
<1>1. /\ files'["nodes"] = files["nodes"] /\ channel'["nodes"] = channel["nodes"] /\ row' = row
      /\ wpc'["nodes"] = wpc["nodes"] \/ (wpc["nodes"] = "done" /\ wpc'["nodes"] = "ended")
  BY NodesSeen
<1>2. Done' = Done
  BY DoneSteps
<1>3. NodesReceiving(order) => NodesReceiving(order)'
  <2>1. Pending' = Pending
    BY <1>1 DEF Pending
  <2>2. ASSUME NEW n, NEW total, NEW rows, Placed(order, n, total, rows)
        PROVE  Placed(order, n, total, rows)'
    BY <1>1, <2>1, <2>2 DEF Placed, RowsOf, Fits, Segments
  <2> HIDE DEF Placed
  <2> QED BY <2>2 DEF NodesReceiving
<1>4. NodesComplete(order) => NodesComplete(order)'
  <2>1. ASSUME NEW n, NEW rows,
               RowsOf(order, Len(order), rows) /\ Fits("nodes", n, Len(order)),
               files["nodes"] = Remaining("nodes", rows, n)
        PROVE  files'["nodes"] = Remaining("nodes", rows, n)'
    <3>1. PICK left : left = Remaining("nodes", rows, n) /\ left = Remaining("nodes", rows, n)'
      BY DEF Remaining, Segments
    <3> QED BY <1>1, <2>1, <3>1
  <2>2. \A n, rows : (RowsOf(order, Len(order), rows) /\ Fits("nodes", n, Len(order)))
                       <=> (RowsOf(order, Len(order), rows) /\ Fits("nodes", n, Len(order)))'
    BY DEF RowsOf, Fits
  <2> QED BY <2>1, <2>2 DEF NodesComplete
<1> QED BY <1>1, <1>2, <1>3, <1>4 DEF Ordered, IsOrder

\* main has read everything: no node is finished yet.
LEMMA OrderStarts ==
    ASSUME Inv, CloseChannels
    PROVE  Ordered(<<>>)' /\ wpc'["nodes"] = "create"
<1>1. /\ wpc'["nodes"] = "create" /\ main' = "visit" /\ unsent' = DOMAIN tree /\ tree' = tree
      /\ channel'["nodes"] = <<>>
  BY DEF CloseChannels, Inv, TypeOK, HandInv, Early, Writers, Split
<1>2. Done' = {}
  BY <1>1 DEF Done, Held
<1>3. <<>> \in Seq(Pairs) /\ ToSet(<<>>) = {} /\ IsInjective(<<>>)
  BY EmptyFacts DEF IsInjective
<1> QED BY <1>1, <1>2, <1>3 DEF Ordered, IsOrder

\* main reads all rows before it closes a channel.
LEMMA EarlySteps ==
    ASSUME [Next]_vars, main \in Early, ~CloseChannels
    PROVE  main' \in Early /\ closed' = closed
<1>1. CASE Rows
  BY <1>1 DEF Rows, ReadRow, SendSize, SendSample, SendAltitude, AssignToNodes, SendCertificate, Early
<1>2. CASE (\E w \in Writers : Writer(w)) \/ Fatal \/ UNCHANGED vars
  BY <1>2 DEF Writer, Create, WriteRow, Finish, ReceiveNode, WriteNode, Fatal, vars, mainVars
<1>3. ~HashChild /\ ~SendNode /\ ~CloseNodes /\ ~\E p \in unsent : Visit(p)
  BY DEF HashChild, SendNode, CloseNodes, Visit, Early
<1>4. ASSUME NEW i \in 1..Len(WaitOrder) - 1, Wait(i) PROVE FALSE
  <2>1. i \in 1..5 /\ main = WaitOrder[i]
    BY <1>4 DEF Wait, WaitOrder
  <2> QED BY <2>1 DEF WaitOrder, Early
<1> QED BY <1>1, <1>2, <1>3, <1>4 DEF Next, Main, Nodes

\* The channel of nodes is closed when every node has been visited and sent.
LEMMA ClosedSteps ==
    ASSUME OrderInv, [Next]_vars, main \notin Early
    PROVE  /\ closed \subseteq closed'
           /\ "nodes" \in closed' => unsent' = {} /\ main' \notin Early \cup Held
<1>1. CASE CloseNodes
  BY <1>1 DEF CloseNodes, Early, Held
<1>2. CASE \E i \in 1..Len(WaitOrder) - 1 : Wait(i)
  <2>1. PICK i \in 1..5 : Wait(i)
    BY <1>2 DEF WaitOrder
  <2>2. main' \notin Early \cup Held /\ UNCHANGED <<unsent, closed>>
    BY <2>1 DEF Wait, WaitOrder, Early, Held
  <2> QED BY <2>2 DEF OrderInv
<1>3. CASE (\E w \in Writers : Writer(w)) \/ Fatal \/ UNCHANGED vars
  <2>1. UNCHANGED <<main, unsent, closed>>
    BY <1>3 DEF Writer, Create, WriteRow, Finish, ReceiveNode, WriteNode, Fatal, vars, mainVars
  <2> QED BY <2>1 DEF OrderInv
<1>4. CASE (\E p \in unsent : Visit(p)) \/ HashChild \/ SendNode
  <2>1. closed' = closed /\ (unsent # {} \/ main \in Held)
    BY <1>4 DEF Visit, HashChild, SendNode, Held
  <2> QED BY <2>1 DEF OrderInv
<1>5. ~Rows /\ ~CloseChannels
  BY DEF Rows, ReadRow, SendSize, SendSample, SendAltitude, AssignToNodes, SendCertificate,
         CloseChannels, Early
<1> QED BY <1>1, <1>2, <1>3, <1>4, <1>5 DEF Next, Main, Nodes

LEMMA OrderStep == Inv /\ VisitedInv /\ FilesInv /\ OrderInv /\ [Next]_vars => OrderInv'
<1> SUFFICES ASSUME Inv, VisitedInv, FilesInv, OrderInv, [Next]_vars PROVE OrderInv'
  OBVIOUS
<1>0. "nodes" \in Writers /\ wpc = [u \in Writers |-> wpc[u]]
  BY DEF Writers, Split, Inv, TypeOK
<1>1. CASE CloseChannels
  <2>1. Ordered(<<>>)' /\ wpc'["nodes"] = "create"
    BY <1>1, OrderStarts
  <2>2. "nodes" \notin closed'
    BY <1>1 DEF CloseChannels
  <2>3. (\E order : Ordered(order)')
    BY <2>1
  <2> QED BY <2>1, <2>2, <2>3 DEF OrderInv
<1>2. CASE main \in Early /\ ~CloseChannels
  <2>1. main' \in Early /\ closed' = closed
    BY <1>2, EarlySteps
  <2>2. wpc'["nodes"] = "unborn"
    BY <2>1, StepInv DEF Inv, HandInv
  <2>3. "nodes" \notin closed
    BY <1>2 DEF OrderInv
  <2> QED BY <2>1, <2>2, <2>3 DEF OrderInv
<1>3. CASE main \notin Early
  <2>1. /\ closed \subseteq closed' /\ main' \notin Early
        /\ "nodes" \in closed' => unsent' = {} /\ main' \notin Early \cup Held
    BY <1>3, ClosedSteps, DoneStays
  <2>2. PICK order : Ordered(order)
    BY <1>3 DEF OrderInv
  <2>3. wpc["nodes"] # "unborn" /\ (wpc["nodes"] \in {"done", "ended"} => "nodes" \in closed)
    BY <1>3 DEF OrderInv
  <2>4. CASE SendNode
    <3>1. (\E more : Ordered(more)')
      BY <2>2, <2>4, OrderSend
    <3>2. wpc' = wpc
      BY <2>4 DEF SendNode, writerVars
    <3> QED BY <2>1, <2>3, <3>1, <3>2 DEF OrderInv
  <2>5. CASE ReceiveNode \/ WriteNode \/ Create("nodes")
    <3>1. Ordered(order)'
      BY <1>3, <2>2, <2>5, OrderReceive, OrderWrite, OrderCreate
    <3>2. wpc'["nodes"] \in {"write", "receive"}
      BY <1>0, <2>5 DEF ReceiveNode, WriteNode, Create
    <3>3. (\E more : Ordered(more)')
      BY <3>1
    <3> QED BY <2>1, <3>2, <3>3 DEF OrderInv
  <2>6. CASE Finish("nodes")
    <3>1. Ordered(order)'
      BY <1>3, <2>2, <2>6, OrderFinish
    <3>2. wpc'["nodes"] = "done" /\ "nodes" \in closed
      BY <1>0, <2>6 DEF Finish
    <3>3. (\E more : Ordered(more)')
      BY <3>1
    <3> QED BY <2>1, <3>2, <3>3 DEF OrderInv
  <2>7. CASE ~SendNode /\ ~ReceiveNode /\ ~WriteNode /\ ~Create("nodes") /\ ~Finish("nodes")
    <3>1. Ordered(order)'
      BY <1>3, <2>2, <2>7, OrderSame
    <3>2. wpc'["nodes"] = wpc["nodes"] \/ (wpc["nodes"] = "done" /\ wpc'["nodes"] = "ended")
      BY <1>3, <2>7, NodesSeen
    <3>3. (\E more : Ordered(more)')
      BY <3>1
    <3>4. wpc'["nodes"] # "unborn" /\ (wpc'["nodes"] \in {"done", "ended"} => "nodes" \in closed')
      BY <2>1, <2>3, <3>2
    <3> QED BY <2>1, <3>3, <3>4 DEF OrderInv
  <2> QED BY <2>4, <2>5, <2>6, <2>7
<1> QED BY <1>1, <1>2, <1>3

-----------------------------------------------------------------------------
(* Files of nodes *)

LEMMA SequenceCardinality ==
    ASSUME NEW S, NEW s \in Seq(S), IsInjective(s)
    PROVE  Cardinality(ToSet(s)) = Len(s)
<1>1. Len(s) \in Nat /\ DOMAIN s = 1..Len(s) /\ s = [i \in 1..Len(s) |-> s[i]]
  BY LenProperties
<1>2. IsFiniteSet(1..Len(s)) /\ Cardinality(1..Len(s)) = Len(s)
  <2>1. \A m \in Nat : IsFiniteSet(1..m) /\ Cardinality(1..m) = m
    <3>1. \A m \in Nat : IsFiniteSet(1..m) /\ Cardinality(1..m) = IF 1 > m THEN 0 ELSE m - 1 + 1
      BY FS_Interval
    <3>2. \A m \in Nat : (IF 1 > m THEN 0 ELSE m - 1 + 1) = m
      OBVIOUS
    <3> QED BY <3>1, <3>2
  <2> QED BY <1>1, <2>1
<1>3. s \in Bijection(1..Len(s), ToSet(s))
  <2>1. s \in [1..Len(s) -> ToSet(s)] /\ \A x \in ToSet(s) : \E i \in 1..Len(s) : s[i] = x
    BY <1>1 DEF ToSet
  <2> QED BY <2>1 DEF Bijection, Injection, Surjection
<1>4. ExistsBijection(1..Len(s), ToSet(s))
  BY <1>3 DEF ExistsBijection
<1> QED BY <1>2, <1>4, FS_Bijection

\* The rows of one file.
LEMMA SegmentFacts ==
    ASSUME NEW S, NEW rows \in Seq(S), NEW n \in Nat, Fits("nodes", n, Len(rows)), NEW i \in 0..n,
           NEW part, part = Segments(rows, n, Len(rows))[i]
    PROVE  /\ Len(part) = IF i = n THEN Len(rows) - n * FullFile ELSE FullFile
           /\ \A k \in DOMAIN part :
                k \in 1..FullFile /\ i * FullFile + k \in 1..Len(rows) /\ part[k] = rows[i * FullFile + k]
<1> DEFINE lo == i * FullFile
           hi == IF i = n THEN Len(rows) ELSE (i + 1) * FullFile
<1>1. /\ FullFile \in Nat \ {0} /\ Len(rows) \in Nat /\ \A k \in 1..Len(rows) : rows[k] \in S
      /\ i \in Nat
  BY FullFileFacts, LenProperties, ElementOfSeq
<1>2. lo \in Nat /\ (i + 1) * FullFile = lo + FullFile /\ n * FullFile \in Nat
  BY <1>1
<1>3. n * FullFile <= Len(rows) /\ Len(rows) < n * FullFile + FullFile
  <2>1. "nodes" \in Split /\ (n + 1) * FullFile = n * FullFile + FullFile
    BY <1>1 DEF Split
  <2> QED BY <2>1 DEF Fits
<1>4. hi \in Nat /\ lo <= hi /\ hi <= Len(rows) /\ hi - lo <= FullFile
  <2>1. CASE i = n
    BY <1>1, <1>2, <1>3, <2>1
  <2>2. CASE i # n
    <3>1. i \in 0..n - 1
      BY <2>2
    <3>2. (i + 1) * FullFile <= n * FullFile
      BY <1>1, <3>1, FileBounds
    <3> QED BY <1>1, <1>2, <1>3, <2>2, <3>2
  <2> QED BY <2>1, <2>2
<1>5. part = SubSeq(rows, lo + 1, hi)
  BY DEF Segments
<1> HIDE DEF lo, hi
<1>6. /\ part \in Seq(S) /\ Len(part) = hi - lo
      /\ \A k \in 1..hi - lo : part[k] = rows[lo + k]
  <2>1. \A k \in lo + 1..hi : rows[k] \in S
    BY <1>1, <1>2, <1>4
  <2>2. lo + 1 \in Int /\ hi \in Int
    BY <1>2, <1>4
  <2>3. /\ part \in Seq(S)
        /\ Len(part) = IF lo + 1 <= hi THEN hi - (lo + 1) + 1 ELSE 0
        /\ \A k \in 1..hi - (lo + 1) + 1 : part[k] = rows[lo + 1 + k - 1]
    BY <1>5, <2>1, <2>2, SubSeqProperties
  <2>4. hi - (lo + 1) + 1 = hi - lo /\ \A k \in Int : lo + 1 + k - 1 = lo + k
    BY <2>2, <1>2
  <2> QED BY <1>2, <1>4, <2>3, <2>4
<1>7. DOMAIN part = 1..hi - lo
  BY <1>6, LenProperties
<1>8. hi - lo = IF i = n THEN Len(rows) - n * FullFile ELSE FullFile
  <2>1. i = n => hi = Len(rows) /\ lo = n * FullFile
    BY DEF hi, lo
  <2>2. i # n => hi = lo + FullFile
    BY <1>2 DEF hi
  <2> QED BY <1>1, <1>2, <2>1, <2>2
<1>9. \A k \in 1..hi - lo : k \in 1..FullFile /\ lo + k \in 1..Len(rows)
  BY <1>1, <1>2, <1>4
<1> QED BY <1>6, <1>7, <1>8, <1>9 DEF lo

\* No two places in the files hold the same row.
LEMMA DifferentPlaces ==
    ASSUME NEW i \in Nat, NEW j \in Nat, NEW k \in 1..FullFile, NEW l \in 1..FullFile,
           i * FullFile + k = j * FullFile + l
    PROVE  i = j /\ k = l
<1>1. ASSUME NEW a \in Nat, NEW b \in Nat, NEW c \in 1..FullFile, NEW d \in 1..FullFile, a < b
      PROVE  a * FullFile + c < b * FullFile + d
  <2>1. FullFile \in Nat \ {0} /\ a * FullFile \in Nat /\ b * FullFile \in Nat
    BY FullFileFacts
  <2>2. (a + 1) * FullFile = a * FullFile + FullFile
    BY <2>1
  <2>3. (a + 1) * FullFile <= b * FullFile
    <3>1. a + 1 \in Nat /\ a + 1 <= b
      BY <1>1
    <3> QED BY <2>1, <3>1
  <2> QED BY <2>1, <2>2, <2>3
<1>2. FullFile \in Nat /\ i * FullFile \in Nat /\ j * FullFile \in Nat
  BY FullFileFacts
<1>3. i = j
  <2>1. ~(i < j) /\ ~(j < i)
    BY <1>1, <1>2
  <2> QED BY <2>1
<1> QED BY <1>2, <1>3

TreeExportInv == FullExportInv /\ WrittenInv /\ AssignedInv /\ OrderInv

LEMMA AlwaysTreeExport == Spec => []TreeExportInv
<1>1. Init => TreeExportInv
  <2> SUFFICES ASSUME Init PROVE TreeExportInv
    OBVIOUS
  <2>1. FullExportInv /\ WrittenInv
    BY InitFullExport, InitExport DEF ExportInv
  <2>2. /\ DOMAIN tree = {} /\ main = "read" /\ closed = {} /\ wpc["nodes"] = "unborn"
        /\ channel["certificates"] = <<>> /\ wpc["certificates"] = "create"
    BY DEF Init, Writers, Split
  <2>3. AssignedRows = <<>>
    BY <2>1, <2>2, CertificatesFacts DEF FullExportInv, StreamInv, AssignedRows
  <2>4. Positions(<<>>) = {}
    BY EmptyFacts DEF Positions, Named
  <2>5. AssignedInv
    BY <2>2, <2>3, <2>4 DEF AssignedInv
  <2>6. OrderInv
    BY <2>2 DEF OrderInv, Early
  <2> QED BY <2>1, <2>5, <2>6 DEF TreeExportInv
<1>2. TreeExportInv /\ [Next]_vars => TreeExportInv'
  BY StepInv, NodesStep, VisitStep, FilesStep, InputStep, StreamStep, WaitedStep,
     RowsStep, AssignedStep, OrderStep DEF FullExportInv, TreeExportInv
<1> QED BY <1>1, <1>2, PTL DEF Spec

(* When the importer has finished, the files of nodes hold every position  *)
(* that lists a certificate and every ancestor exactly once and cut where  *)
(* a file is full, with every occurrence of every certificate, for any     *)
(* dataset, any size of the files and any buffers, but for the first file  *)
(* when the last node fills a file and for nodes that two goroutines       *)
(* sorted at once.                                                         *)
THEOREM TreeIsExported == Spec => []TreeExported
<1>1. ASSUME TreeExportInv PROVE TreeExported
  <2> USE <1>1 DEF TreeExportInv, FullExportInv
  <2> DEFINE certificates == Expected["certificates"]
             total == Cardinality(Positions(certificates))
             parts == files["nodes"]
  <2> SUFFICES ASSUME Finished
               PROVE  LET last == total \div FullFile
                          lost == IF total % FullFile = 0 THEN {0} ELSE {}
                      IN  /\ DOMAIN parts = (0..last) \ lost
                          /\ \A i \in DOMAIN parts :
                               Len(parts[i]) = IF i = last THEN total - last * FullFile ELSE FullFile
                          /\ \A i, j \in DOMAIN parts : \A k \in DOMAIN parts[i], l \in DOMAIN parts[j] :
                               parts[i][k].at = parts[j][l].at => i = j /\ k = l
                          /\ \A r \in WrittenNodes :
                               /\ r.at \in Positions(certificates)
                               /\ r.at \notin raced => r.node.certs = Contents(certificates, r.at)
    BY DEF TreeExported
  <2>1. main = "finished" /\ main \notin Early \cup Held
    BY DEF Finished, Early, Held
  <2>2. wpc["nodes"] = "ended"
    <3>1. main = WaitOrder[6] /\ 6 \in 1..Len(WaitOrder) /\ 5 \in 1..6 - 1 /\ WaitOrder[5] = "nodes"
      BY <2>1 DEF WaitOrder
    <3> QED BY <3>1 DEF WaitedInv
  <2>3. AssignedRows = certificates
    <3>1. input = <<>> /\ main \notin Before["certificates"]
      BY <2>1, CertificatesFacts, WriterFacts DEF InputInv
    <3>2. Handled("certificates") = Len(dataset)
      BY <3>1, DatasetFacts, EmptyFacts DEF Handled, ReadRows
    <3> QED BY <2>1, <3>2, CertificatesFacts DEF Sent, Expected, AssignedRows
  <2>4. Done = DOMAIN tree /\ DOMAIN tree = Positions(certificates)
    <3>1. unsent = {}
      BY <2>2 DEF OrderInv
    <3> QED BY <2>1, <2>3, <3>1 DEF Done, AssignedInv
  <2>5. PICK order : IsOrder(order) /\ NodesComplete(order)
    BY <2>1, <2>2 DEF OrderInv, Ordered
  <2>6. PICK n \in Nat : \E rows : /\ RowsOf(order, Len(order), rows)
                                  /\ Fits("nodes", n, Len(order))
                                  /\ parts = Remaining("nodes", rows, n)
    BY <2>5 DEF NodesComplete
  <2>7. PICK rows : /\ RowsOf(order, Len(order), rows)
                    /\ Fits("nodes", n, Len(order))
                    /\ parts = Remaining("nodes", rows, n)
    BY <2>6
  <2>8. Len(order) = total /\ total \in Nat /\ order \in Seq(Pairs) /\ IsInjective(order)
    BY <2>4, <2>5, SequenceCardinality, LenProperties DEF IsOrder
  <2>9. PICK S : rows \in Seq(S)
    BY <2>7 DEF RowsOf
  <2>10. Len(rows) = total /\ (\A i \in 1..total : rows[i].at = order[i]) /\ "nodes" \in Split
    BY <2>7, <2>8 DEF RowsOf, Split
  <2>11. n = total \div FullFile /\ (total % FullFile = 0 <=> n * FullFile = total)
    BY <2>7, <2>8, <2>10, Quotient DEF Fits
  <2>12. DOMAIN parts = (0..n) \ (IF n * FullFile = total THEN {0} ELSE {})
    BY <2>7, <2>10 DEF Remaining
  <2>13. \A i \in DOMAIN parts : i \in 0..n /\ parts[i] = Segments(rows, n, total)[i]
    BY <2>7, <2>10 DEF Remaining
  <2>14. ASSUME NEW i \in DOMAIN parts
         PROVE  /\ Len(parts[i]) = IF i = n THEN total - n * FullFile ELSE FullFile
                /\ \A k \in DOMAIN parts[i] : /\ k \in 1..FullFile /\ i * FullFile + k \in 1..total
                                              /\ parts[i][k].at = order[i * FullFile + k]
    <3>1. i \in 0..n /\ parts[i] = Segments(rows, n, Len(rows))[i] /\ Fits("nodes", n, Len(rows))
      BY <2>7, <2>8, <2>10, <2>13
    <3>2. /\ Len(parts[i]) = IF i = n THEN Len(rows) - n * FullFile ELSE FullFile
          /\ \A k \in DOMAIN parts[i] : /\ k \in 1..FullFile /\ i * FullFile + k \in 1..Len(rows)
                                        /\ parts[i][k] = rows[i * FullFile + k]
      BY <2>9, <3>1, SegmentFacts
    <3> HIDE DEF parts
    <3> QED BY <2>10, <3>2
  <2> HIDE DEF total, parts
  <2>15. ASSUME NEW i \in DOMAIN parts, NEW j \in DOMAIN parts,
                NEW k \in DOMAIN parts[i], NEW l \in DOMAIN parts[j],
                parts[i][k].at = parts[j][l].at
         PROVE  i = j /\ k = l
    <3>1. /\ order[i * FullFile + k] = order[j * FullFile + l]
          /\ i * FullFile + k \in 1..total /\ j * FullFile + l \in 1..total
          /\ k \in 1..FullFile /\ l \in 1..FullFile
      BY <2>14, <2>15
    <3>2. i * FullFile + k = j * FullFile + l
      <4>1. DOMAIN order = 1..total
        BY <2>8, LenProperties
      <4> QED BY <2>8, <3>1, <4>1 DEF IsInjective
    <3>3. i \in Nat /\ j \in Nat
      BY <2>13
    <3> QED BY <3>1, <3>2, <3>3, DifferentPlaces
  <2>16. ASSUME NEW r \in WrittenNodes
         PROVE  /\ r.at \in Positions(certificates)
                /\ r.at \notin raced => r.node.certs = Contents(certificates, r.at)
    <3>1. r.at \in Done /\ (r.at \notin raced => r.node = tree[r.at])
      BY <2>16 DEF WrittenInv
    <3> HIDE DEF certificates
    <3> QED BY <2>3, <2>4, <3>1 DEF AssignedInv
  <2> HIDE DEF certificates
  <2> QED BY <2>11, <2>12, <2>14, <2>15, <2>16
<1> QED BY <1>1, AlwaysTreeExport, PTL
=============================================================================
