-------------------------- MODULE ImportPipeline --------------------------
(***************************************************************************)
(* The offline importer (cmd/db-address-exporter): main reads the rows of  *)
(* a dataset, builds the tree in memory and hands what is to be written to *)
(* five goroutines over bounded channels.  The files of certificates and   *)
(* of nodes are split when they grow too large.  log.Fatalf in any         *)
(* goroutine ends the process.                                             *)
(*                                                                         *)
(* A node is handed over as a pointer, and writing it and hashing it both  *)
(* sort its slice of certificate hashes in place.                          *)
(***************************************************************************)
EXTENDS SmtNodes, FiniteSets

CONSTANTS
    Covers,        \* Covers[c]: CertificateToBitStrings(c)
    TooLarge,      \* certificates above MAX_CERTIFICATE_SIZE
    HasAltitude,   \* certificates with a surface altitude
    Unusable,      \* a row without a domain, or one that could not be read
    Datasets,      \* the datasets: bounded sequences of rows
    Capacity,      \* the size of each channel's buffer
    MAX_FILE_SIZE, \* in rows: a file with more is full
    Faults         \* can the conversion of a certificate or a file operation fail

ASSUME ImportAssumption ==
    /\ IsFiniteSet(Certs)
    /\ Covers \in [Certs -> Seq(Pairs)]
    /\ TooLarge \subseteq Certs /\ HasAltitude \subseteq Certs
    /\ Unusable \notin Certs
    /\ Datasets \subseteq Seq(Certs \cup {Unusable})
    /\ Capacity \in Nat \ {0}
    /\ MAX_FILE_SIZE \in Nat
    /\ Faults \in BOOLEAN

Measurements == {"samples", "certificateSizes", "altitudes"}
Split == {"certificates", "nodes"}
Writers == Measurements \cup Split

VARIABLES
    input,      \* the rows still to be read
    dataset,    \* all of them, kept to say what must be written
    main,       \* the control point of main
    cert,       \* the certificate main works on
    tree,       \* bitstringPairToNode
    unsent,     \* positions of the sorted slice that main has yet to visit
    at, side,   \* the position main visits, and the child it hashes
    channel,    \* the buffered rows for each writer
    closed,     \* closed channels
    wpc,        \* each writer's control point
    row,        \* the position of the node its writer received
    files,      \* each writer's files: index -> rows
    raced,      \* nodes whose slice two goroutines sorted at the same time
    exited      \* some goroutine called log.Fatalf

mainVars == <<input, main, cert, unsent, at, side>>
writerVars == <<wpc, row, files>>
vars == <<dataset, mainVars, tree, channel, closed, writerVars, raced, exited>>
-----------------------------------------------------------------------------
SideOrder == <<"xyLeft", "xyRight", "zLeft", "zRight">>
NoSide == Len(SideOrder) + 1

Running == ~exited

\* A send blocks while the buffer is full.
Send(w, value) ==
    /\ Len(channel[w]) < Capacity
    /\ channel' = [channel EXCEPT ![w] = Append(@, value)]

Init ==
    /\ dataset \in Datasets
    /\ input = dataset
    /\ main = "read"
    /\ cert = Unusable
    /\ tree = [p \in {} |-> NewRow(NoCerts)]
    /\ unsent = {}
    /\ at = Root /\ side = NoSide
    /\ channel = [w \in Writers |-> <<>>]
    /\ closed = {}
    /\ wpc = [w \in Writers |-> IF w = "nodes" THEN "unborn" ELSE "create"]
    /\ row = Root
    /\ files = [w \in Writers |-> [i \in {} |-> <<>>]]
    /\ raced = {}
    /\ exited = FALSE
-----------------------------------------------------------------------------
(* main, for each row *)

\* A row without domain is skipped.  A read error is only logged; the row is
\* empty then and has no domain either.
ReadRow ==
    /\ Running /\ main = "read" /\ input # <<>>
    /\ input' = Tail(input)
    /\ cert' = Head(input)
    /\ main' = IF Head(input) = Unusable THEN "read" ELSE "size"
    /\ UNCHANGED <<dataset, tree, unsent, at, side, channel, closed, writerVars, raced, exited>>

\* Every size is recorded; then a certificate that is too large is skipped.
SendSize ==
    /\ Running /\ main = "size"
    /\ Send("certificateSizes", cert)
    /\ main' = IF cert \in TooLarge THEN "read" ELSE "sample"
    /\ UNCHANGED <<dataset, input, cert, tree, unsent, at, side, closed, writerVars, raced, exited>>

SendSample ==
    /\ Running /\ main = "sample"
    /\ Send("samples", cert)
    /\ main' = IF cert \in HasAltitude THEN "altitude" ELSE "assign"
    /\ UNCHANGED <<dataset, input, cert, tree, unsent, at, side, closed, writerVars, raced, exited>>

SendAltitude ==
    /\ Running /\ main = "altitude"
    /\ Send("altitudes", cert)
    /\ main' = "assign"
    /\ UNCHANGED <<dataset, input, cert, tree, unsent, at, side, closed, writerVars, raced, exited>>

Occurrences(c, p) == Cardinality({i \in DOMAIN Covers[c] : Covers[c][i] = p})

\* Mutant: the ancestors of a position are not added.
Assigned_NoAncestors(t, c) ==
    [p \in DOMAIN t \cup ToSet(Covers[c]) |->
        LET certs == IF p \in DOMAIN t THEN t[p].certs ELSE NoCerts
        IN  NewRow([certs EXCEPT ![c] = @ + Occurrences(c, p)])]

\* The certificate is appended at each of its positions, as often as it names
\* them; missing positions and ancestors become nodes.
Assigned(t, c) ==
    [p \in DOMAIN t \cup ToSet(Covers[c]) \cup UNION {Ancestors(q) : q \in ToSet(Covers[c])} |->
        LET certs == IF p \in DOMAIN t THEN t[p].certs ELSE NoCerts
        IN  NewRow([certs EXCEPT ![c] = @ + Occurrences(c, p)])]

AssignToNodes ==
    /\ Running /\ main = "assign"
    /\ tree' = Assigned(tree, cert)
    /\ main' = "certificate"
    /\ UNCHANGED <<dataset, input, cert, unsent, at, side, channel, closed, writerVars, raced, exited>>

SendCertificate ==
    /\ Running /\ main = "certificate"
    /\ Send("certificates", cert)
    /\ main' = "read"
    /\ UNCHANGED <<dataset, input, cert, tree, unsent, at, side, closed, writerVars, raced, exited>>
-----------------------------------------------------------------------------
(* main, after the last row *)

\* Mutant: one channel stays open.
CloseChannels_AllButAltitudes ==
    /\ Running /\ main = "read" /\ input = <<>>
    /\ closed' = {"certificates", "samples", "certificateSizes"}
    /\ unsent' = DOMAIN tree
    /\ wpc' = [wpc EXCEPT !["nodes"] = "create"]
    /\ main' = "visit"
    /\ UNCHANGED <<dataset, input, cert, tree, at, side, channel, row, files, raced, exited>>

\* Closes the four channels, sorts the positions, starts the node writer.
CloseChannels ==
    /\ Running /\ main = "read" /\ input = <<>>
    /\ closed' = Writers \ {"nodes"}
    /\ unsent' = DOMAIN tree
    /\ wpc' = [wpc EXCEPT !["nodes"] = "create"]
    /\ main' = "visit"
    /\ UNCHANGED <<dataset, input, cert, tree, at, side, channel, row, files, raced, exited>>

\* The next child of p, from the k-th side on, that is a node.
NextSide(p, k) ==
    LET present == {j \in k..Len(SideOrder) : /\ HasSide(p, SideOrder[j])
                                              /\ Child(p, SideOrder[j]) \in DOMAIN tree}
    IN  IF present = {} THEN NoSide ELSE CHOOSE j \in present : \A l \in present : j <= l

\* Mutant: no order.
Visit_AnyOrder(p) ==
    /\ Running /\ main = "visit"
    /\ p \in unsent
    /\ unsent' = unsent \ {p}
    /\ at' = p
    /\ side' = NextSide(p, 1)
    /\ main' = IF side' = NoSide THEN "send" ELSE "hash"
    /\ UNCHANGED <<dataset, input, cert, tree, channel, closed, writerVars, raced, exited>>

\* Mutant: the pointer is handed over before the hashes are set.
Visit_SendsFirst(p) ==
    /\ Running /\ main = "visit"
    /\ p \in unsent /\ \A q \in unsent : ~Deeper(q, p)
    /\ Send("nodes", p)
    /\ unsent' = unsent \ {p}
    /\ at' = p
    /\ side' = NextSide(p, 1)
    /\ main' = IF side' = NoSide THEN "visit" ELSE "hash"
    /\ UNCHANGED <<dataset, input, cert, tree, closed, writerVars, raced, exited>>

\* One of the deepest positions not visited yet: the slice lists a map's keys,
\* and sort.Slice is not stable, so ties come in any order.
Visit(p) ==
    /\ Running /\ main = "visit"
    /\ p \in unsent /\ \A q \in unsent : ~Deeper(q, p)
    /\ unsent' = unsent \ {p}
    /\ at' = p
    /\ side' = NextSide(p, 1)
    /\ main' = IF side' = NoSide THEN "send" ELSE "hash"
    /\ UNCHANGED <<dataset, input, cert, tree, channel, closed, writerVars, raced, exited>>

\* Outcomes of a race: as it was, or an entry that another one overwrote.
Torn(a) ==
    {a} \cup {[a EXCEPT ![x[1]] = @ - 1, ![x[2]] = @ + 1] :
                x \in {y \in Listed(a) \X Listed(a) : y[1] # y[2]}}

Sorting(p) == wpc["nodes"] = "write" /\ row = p
Hashing(p) == main = "hash" /\ Child(at, SideOrder[side]) = p

\* SortedCertificateHashes, which sorts the node's own slice: the certificates
\* it leaves there.  A slice of one certificate is never written to.
Sorted(p) ==
    IF p \in raced \/ (Sorting(p) /\ Hashing(p) /\ Cardinality(Listed(tree[p].certs)) > 1)
    THEN Torn(tree[p].certs) ELSE {tree[p].certs}

RacedAfter(p) ==
    IF Sorting(p) /\ Hashing(p) /\ Cardinality(Listed(tree[p].certs)) > 1
    THEN raced \cup {p} ELSE raced

\* Node.Hash of a node without linked children.
HashOf(p, r) == IF Leaf(p) THEN LeafHash(r.certs) ELSE NodeHash(r.child, r.certs)

\* The end of Hash() of one child, and the assignment of the result.
HashChild ==
    /\ Running /\ main = "hash"
    /\ LET q == Child(at, SideOrder[side])
       IN  /\ \E certs \in Sorted(q) :
                LET sorted == [tree EXCEPT ![q].certs = certs]
                IN  tree' = [sorted EXCEPT ![at].child[SideOrder[side]] = HashOf(q, sorted[q])]
           /\ raced' = RacedAfter(q)
    /\ side' = NextSide(at, side + 1)
    /\ main' = IF side' = NoSide THEN "send" ELSE "hash"
    /\ UNCHANGED <<dataset, input, cert, unsent, at, channel, closed, writerVars, exited>>

SendNode ==
    /\ Running /\ main = "send"
    /\ Send("nodes", at)
    /\ main' = "visit"
    /\ UNCHANGED <<dataset, input, cert, tree, unsent, at, side, closed, writerVars, raced, exited>>

CloseNodes ==
    /\ Running /\ main = "visit" /\ unsent = {}
    /\ closed' = closed \cup {"nodes"}
    /\ main' = "samples"
    /\ UNCHANGED <<dataset, input, cert, tree, unsent, at, side, channel, writerVars, raced, exited>>

\* main waits for the writers in this order.
WaitOrder == <<"samples", "certificateSizes", "altitudes", "certificates", "nodes", "finished">>

\* Mutant: main does not wait for the certificates.
Wait_NotCertificates(i) ==
    /\ Running /\ main = WaitOrder[i]
    /\ main # "certificates" => wpc[main] = "done"
    /\ wpc' = IF wpc[main] = "done" THEN [wpc EXCEPT ![main] = "ended"] ELSE wpc
    /\ main' = WaitOrder[i + 1]
    /\ UNCHANGED <<dataset, input, cert, tree, unsent, at, side, channel, closed, row, files, raced, exited>>

\* The channel is not buffered: the writer sends as main receives.
Wait(i) ==
    /\ Running /\ main = WaitOrder[i]
    /\ wpc[main] = "done"
    /\ wpc' = [wpc EXCEPT ![main] = "ended"]
    /\ main' = WaitOrder[i + 1]
    /\ UNCHANGED <<dataset, input, cert, tree, unsent, at, side, channel, closed, row, files, raced, exited>>
-----------------------------------------------------------------------------
(* The writers *)

Part(w, i, rows) == [j \in DOMAIN files[w] \cup {i} |-> IF j = i THEN rows ELSE files[w][j]]

\* Files are numbered without gaps until the last step.
FileIndex(w) == Cardinality(DOMAIN files[w]) - 1

Create(w) ==
    /\ Running /\ wpc[w] = "create"
    /\ files' = [files EXCEPT ![w] = Part(w, 0, <<>>)]
    /\ wpc' = [wpc EXCEPT ![w] = "receive"]
    /\ UNCHANGED <<dataset, mainVars, tree, channel, closed, row, raced, exited>>

\* The files after one more row; one that is full is closed and the next opened.
Written(w, value) ==
    LET i == FileIndex(w)
        rows == Append(files[w][i], value)
    IN  IF w \in Split /\ Len(rows) > MAX_FILE_SIZE
        THEN [j \in 0..i + 1 |-> IF j <= i THEN Part(w, i, rows)[j] ELSE <<>>]
        ELSE Part(w, i, rows)

\* One row of any other writer: nobody reads a file before its writer is done.
WriteRow(w) ==
    /\ Running /\ w # "nodes" /\ wpc[w] = "receive" /\ channel[w] # <<>>
    /\ channel' = [channel EXCEPT ![w] = Tail(@)]
    /\ files' = [files EXCEPT ![w] = Written(w, Head(channel[w]))]
    /\ UNCHANGED <<dataset, mainVars, tree, closed, wpc, row, raced, exited>>

ReceiveNode ==
    /\ Running /\ wpc["nodes"] = "receive" /\ channel["nodes"] # <<>>
    /\ row' = Head(channel["nodes"])
    /\ channel' = [channel EXCEPT !["nodes"] = Tail(@)]
    /\ wpc' = [wpc EXCEPT !["nodes"] = "write"]
    /\ UNCHANGED <<dataset, mainVars, tree, closed, files, raced, exited>>

\* The writer sorts the certificates of the node it was given a pointer to, then
\* reads the node's fields.
WriteNode ==
    /\ Running /\ wpc["nodes"] = "write"
    /\ LET p == row
       IN  /\ \E certs \in Sorted(p) : tree' = [tree EXCEPT ![p].certs = certs]
           /\ raced' = RacedAfter(p)
           /\ files' = [files EXCEPT !["nodes"] = Written("nodes", [at |-> p, node |-> tree'[p]])]
    /\ wpc' = [wpc EXCEPT !["nodes"] = "receive"]
    /\ UNCHANGED <<dataset, mainVars, channel, closed, row, exited>>

\* The file removed when the last file is empty.  The loop assigns the name of a
\* later file to a variable of its own (:=), so the name is still the first one.
RemovedFile(w) == 0

Finish(w) ==
    /\ Running /\ wpc[w] = "receive"
    /\ channel[w] = <<>> /\ w \in closed
    /\ files' = IF w \in Split /\ files[w][FileIndex(w)] = <<>>
                THEN [files EXCEPT ![w] = [i \in DOMAIN @ \ {RemovedFile(w)} |-> @[i]]]
                ELSE files
    /\ wpc' = [wpc EXCEPT ![w] = "done"]
    /\ UNCHANGED <<dataset, mainVars, tree, channel, closed, row, raced, exited>>

\* A conversion or a file operation fails: log.Fatalf.
Fatal ==
    /\ Running /\ Faults
    /\ main \in {"size", "assign"} \/ \E w \in Writers : wpc[w] \in {"create", "write", "receive"}
    /\ exited' = TRUE
    /\ UNCHANGED <<dataset, mainVars, tree, channel, closed, writerVars, raced>>
-----------------------------------------------------------------------------
Rows == ReadRow \/ SendSize \/ SendSample \/ SendAltitude \/ AssignToNodes \/ SendCertificate
Nodes == CloseChannels \/ (\E p \in unsent : Visit(p)) \/ HashChild \/ SendNode \/ CloseNodes
Main == Rows \/ Nodes \/ \E i \in 1..Len(WaitOrder) - 1 : Wait(i)
Writer(w) ==
    \/ Create(w) \/ WriteRow(w) \/ Finish(w)
    \/ w = "nodes" /\ (ReceiveNode \/ WriteNode)

Next == Main \/ (\E w \in Writers : Writer(w)) \/ Fatal

Spec == Init /\ [][Next]_vars

\* The runtime schedules every goroutine that can run.
FairSpec == Spec /\ WF_vars(Main) /\ \A w \in Writers : WF_vars(Writer(w))
-----------------------------------------------------------------------------
Finished == main = "finished"

\* The rows that each goroutine is given.
Due ==
    [w \in Writers \ {"nodes"} |->
        CASE w = "certificateSizes" -> Certs
          [] w = "altitudes" -> HasAltitude \ TooLarge
          [] OTHER -> Certs \ TooLarge]

\* Those of a set among the first k rows of the dataset, in its order.
Chosen(S) ==
    LET Among[k \in 0..Len(dataset)] ==
            IF k = 0 THEN <<>>
            ELSE IF dataset[k] \in S THEN Append(Among[k - 1], dataset[k])
            ELSE Among[k - 1]
    IN  Among

\* What each has to write.
Expected == [w \in Writers \ {"nodes"} |-> Chosen(Due[w])[Len(dataset)]]

\* A full file holds this many rows.
FullFile == MAX_FILE_SIZE + 1

\* The rows of a writer's files, one file after the other.
OnDisk(w) ==
    FlattenSeq([i \in 1..FileIndex(w) + 2 |->
        IF i - 1 \in DOMAIN files[w] THEN files[w][i - 1] ELSE <<>>])

ControlPoints == {"read", "size", "sample", "altitude", "assign", "certificate",
                  "visit", "hash", "send",
                  "samples", "certificateSizes", "altitudes", "certificates", "nodes", "finished"}

(* The type of every variable but files; no buffer holds more than its     *)
(* capacity, and only positions of the tree are handed over.               *)
TypeOK ==
    /\ dataset \in Seq(Certs \cup {Unusable}) /\ input \in Seq(Certs \cup {Unusable})
    /\ main \in ControlPoints
    /\ cert \in Certs \cup {Unusable}
    /\ DOMAIN tree \subseteq Pairs
    /\ unsent \subseteq DOMAIN tree /\ at \in Pairs /\ side \in 1..NoSide
    /\ channel \in [Writers -> Seq(Certs \cup Pairs)]
    /\ \A w \in Writers \ {"nodes"} : channel[w] \in Seq(Certs)
    /\ channel["nodes"] \in Seq(DOMAIN tree)
    /\ \A w \in Writers : Len(channel[w]) <= Capacity
    /\ closed \subseteq Writers
    /\ wpc \in [Writers -> {"unborn", "create", "receive", "write", "done", "ended"}]
    /\ row \in Pairs
    /\ raced \subseteq DOMAIN tree
    /\ exited \in BOOLEAN

(* "All certificates passing the checks up to here are exported": when the *)
(* importer has finished, the files hold what they have to, in the order   *)
(* of the dataset, once and cut where a file is full, except when the last *)
(* certificate exactly fills a file: then the first file is missing.       *)
ExportedButFirstFile ==
    Finished =>
        \A w \in Writers \ {"nodes"} :
            LET total == Len(Expected[w])
                last == IF w \in Split THEN total \div FullFile ELSE 0
                lost == IF w \in Split /\ total % FullFile = 0 THEN {0} ELSE {}
            IN  files[w] = [i \in (0..last) \ lost |->
                    SubSeq(Expected[w], i * FullFile + 1,
                           IF i = last THEN total ELSE (i + 1) * FullFile)]

(* What the comment says without the exception. *)
Exported == Finished => OnDisk("certificates") = Expected["certificates"]

WrittenNodes == UNION {ToSet(files["nodes"][i]) : i \in DOMAIN files["nodes"]}

\* The positions of the tree of some certificates.
Named(rows) == UNION {ToSet(Covers[c]) : c \in ToSet(rows)}
Positions(rows) == Named(rows) \cup UNION {Ancestors(p) : p \in Named(rows)}

\* How often a position is given a certificate.
Times(rows, c) == Cardinality({i \in DOMAIN rows : rows[i] = c})
Contents(rows, p) == [c \in Certs |-> Times(rows, c) * Occurrences(c, p)]

(* When the importer has finished, the files of nodes hold each position   *)
(* that lists a certificate and each ancestor exactly once, cut where a    *)
(* file is full, with every occurrence of every certificate unless its     *)
(* slice was sorted twice at once; but for the first file if the last node *)
(* exactly fills one.                                                      *)
TreeExported ==
    Finished =>
        LET rows == Expected["certificates"]
            total == Cardinality(Positions(rows))
            last == total \div FullFile
            lost == IF total % FullFile = 0 THEN {0} ELSE {}
            parts == files["nodes"]
        IN  /\ DOMAIN parts = (0..last) \ lost
            /\ \A i \in DOMAIN parts :
                 Len(parts[i]) = IF i = last THEN total - last * FullFile ELSE FullFile
            /\ \A i, j \in DOMAIN parts : \A k \in DOMAIN parts[i], l \in DOMAIN parts[j] :
                 parts[i][k].at = parts[j][l].at => i = j /\ k = l
            /\ \A r \in WrittenNodes :
                 /\ r.at \in Positions(rows)
                 /\ r.at \notin raced => r.node.certs = Contents(rows, r.at)

(* A parent's row holds the hash that the database computes for its        *)
(* child's row, although the two were written at different times from      *)
(* nodes that main still used; only a race of the two sorts can part them. *)
RowsHashTheirChildren ==
    \A r, q \in WrittenNodes : \A s \in Sides :
        HasSide(r.at, s) /\ Child(r.at, s) = q.at /\ q.at \notin raced =>
            r.node.child[s] = smt_hash(q.at, q.node)

\* Nodes whose pointer the writer has or will receive.
HandedOver ==
    ToSet(channel["nodes"]) \cup (IF wpc["nodes"] = "write" THEN {row} ELSE {})

(* A node that main has handed to the writer, by its pointer, does not     *)
(* change until it is written, unless both sort its certificates at the    *)
(* same time.                                                              *)
HandedOverIsFinal == [][\A p \in HandedOver \ raced' : tree'[p] = tree[p]]_vars

(* The importer comes to an end: no send to a full channel, no channel     *)
(* left open and no wait for a writer holds it up for ever.                *)
ImportEnds == <>(Finished \/ exited)
=============================================================================
