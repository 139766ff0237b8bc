----------------------------- MODULE MapService -----------------------------
(***************************************************************************)
(* What the map server promises its clients, free of locks, transactions   *)
(* and logs: insertions are collected in a staged version of the tree, a   *)
(* release publishes the staged version in one step, and an answer to a    *)
(* query carries the nodes of the version that is published when the       *)
(* answer is sent together with a signed head of that same version.        *)
(* GeoPKIServer implements this module under the mapping stated there.     *)
(***************************************************************************)
EXTENDS Integers

CONSTANTS
    Clients,    \* whom the answers are sent to
    Batches,    \* what may be inserted
    NotAfter,   \* when each certificate expires
    Instants,   \* when releases may happen
    Initial,    \* the version imported before the server first ran
    NoAnswer

VARIABLES
    published,    \* the version queries read
    staged,       \* the version the next release publishes
    certificates, \* the certificates that can be delivered in full
    answers       \* the last answer each client received

serviceVars == <<published, staged, certificates, answers>>

ServiceInit ==
    /\ published = Initial
    /\ staged = Initial
    /\ certificates = Initial.certs
    /\ answers = [c \in Clients |-> NoAnswer]

Insert ==
    \E batch \in Batches :
        /\ staged' = [rooted |-> TRUE, certs |-> staged.certs \cup batch]
        /\ certificates' = certificates \cup batch
        /\ UNCHANGED <<published, answers>>

\* Certificates that expired before instant t leave the map with the release.
Release ==
    \E t \in Instants :
        LET expired == {c \in certificates : NotAfter[c] < t} IN
        /\ staged' = [staged EXCEPT !.certs = @ \ expired]
        /\ published' = staged'
        /\ certificates' = certificates \ expired
        /\ UNCHANGED answers

\* An answer may leave the certificates themselves out, but never some of
\* them.
Answer(c) ==
    /\ published.rooted
    /\ \E contents \in {{}, published.certs} :
           answers' = [answers EXCEPT ![c] =
                         [nodes |-> published, head |-> published,
                          certificates |-> contents]]
    /\ UNCHANGED <<published, staged, certificates>>

ServiceNext ==
    \/ Insert
    \/ Release
    \/ \E c \in Clients : Answer(c)

ServiceSpec == ServiceInit /\ [][ServiceNext]_serviceVars
=============================================================================
