---------------------------- MODULE JoiningRound ----------------------------
(***************************************************************************)
(* A round of the consensus while RunNewNode goes on adding nodes          *)
(* (PBFTNodeFactory.cpp, PBFTNode.cpp): every handler computes f from the  *)
(* number of public keys there are at that moment (l.333, l.381), which    *)
(* grows before the new node is registered and hears anything.             *)
(*                                                                         *)
(* The network delivers what is posted to every node registered, in one    *)
(* order; queues are not full.  PBFTNode models the rounds themselves, with*)
(* a fixed number of nodes.                                                *)
(***************************************************************************)
EXTENDS NodeFactory, PBFTQuorums, FiniteSets

CONSTANT Word    \* number of values of size_t, scaled down

ASSUME WordAssumption == Word \in Nat /\ Word > 2 * MaxNodes

VARIABLES
    log,               \* the types of what has been posted, from the PREPREPARE on
    read,              \* [Id -> how much of it the node has taken]
    state,             \* [Id -> m_state->state]
    preparesRecieved,  \* [Id -> of the round's log entry]
    commitsRecieved,
    committed,         \* nodes whose COMMIT handler came to l.395
    asked              \* the nodes registered, and f, when the PREPREPARE was posted

roundVars == <<log, read, state, preparesRecieved, commitsRecieved, committed, asked>>
vars      == <<factoryVars, roundVars>>

Init ==
    /\ FactoryInit
    /\ log = <<>>
    /\ read = [i \in Id |-> 0]
    /\ state = [i \in Id |-> "PRE_PREPARE"]
    /\ preparesRecieved = [i \in Id |-> 0]
    /\ commitsRecieved = [i \in Id |-> 0]
    /\ committed = {}
    /\ asked = [nodes |-> {}, f |-> 0]

\* f, with N - 2 wrapping around for the first node alone, and what is asked of
\* the numbers of PREPAREs and COMMITs.
f        == FaultBoundMod(Len(m_vPublicKeys), Word)
Prepares == 2 * f
Commits  == f + 1

\* A queue begins when its node is registered (NetworkManager1.cpp:71).
Join ==
    /\ RunNewNode
    /\ read' = IF clients' = clients THEN read ELSE [read EXCEPT ![Len(m_vpNodes) - 1] = Len(log)]
    /\ UNCHANGED <<log, state, preparesRecieved, commitsRecieved, committed, asked>>

\* l.228-237, at node 0.
Propose ==
    /\ 0 \in running
    /\ log = <<>>
    /\ log' = <<"PREPREPARE">>
    /\ asked' = [nodes |-> clients, f |-> f]
    /\ UNCHANGED <<factoryVars, read, state, preparesRecieved, commitsRecieved, committed>>

-----------------------------------------------------------------------------
(* Listener of node i *)

Takes(i, s, type) ==
    /\ i \in running
    /\ read[i] < Len(log)
    /\ state[i] = s
    /\ log[read[i] + 1] = type
    /\ read' = [read EXCEPT ![i] = @ + 1]
    /\ UNCHANGED <<factoryVars, asked>>

\* The node posts a message and goes to another state.
Posts(i, type, s) ==
    /\ log' = Append(log, type)
    /\ state' = [state EXCEPT ![i] = s]

\* l.269-311.
PrePrepare(i) ==
    /\ Takes(i, "PRE_PREPARE", "PREPREPARE")
    /\ Posts(i, "PREPARE", "PREPARE")
    /\ UNCHANGED <<preparesRecieved, commitsRecieved, committed>>

\* Faulty: a PREPARE of every node there is has to come.
PrepareFromAll(i) ==
    /\ Takes(i, "PREPARE", "PREPARE")
    /\ preparesRecieved' = [preparesRecieved EXCEPT ![i] = @ + 1]
    /\ IF preparesRecieved[i] + 1 < Len(m_vPublicKeys)
         THEN UNCHANGED <<log, state>>
         ELSE Posts(i, "COMMIT", "COMMIT")
    /\ UNCHANGED <<commitsRecieved, committed>>

\* l.333-362.
Prepare(i) ==
    /\ Takes(i, "PREPARE", "PREPARE")
    /\ preparesRecieved' = [preparesRecieved EXCEPT ![i] = @ + 1]
    /\ IF preparesRecieved[i] + 1 < Prepares
         THEN UNCHANGED <<log, state>>
         ELSE Posts(i, "COMMIT", "COMMIT")
    /\ UNCHANGED <<commitsRecieved, committed>>

\* Faulty: f COMMITs are enough.
CommitOneEarly(i) ==
    /\ Takes(i, "COMMIT", "COMMIT")
    /\ commitsRecieved' = [commitsRecieved EXCEPT ![i] = @ + 1]
    /\ IF commitsRecieved[i] + 1 < f
         THEN UNCHANGED <<state, committed>>
         ELSE /\ state' = [state EXCEPT ![i] = "PRE_PREPARE"]
              /\ committed' = committed \cup {i}
    /\ UNCHANGED <<log, preparesRecieved>>

\* l.381-396.
Commit(i) ==
    /\ Takes(i, "COMMIT", "COMMIT")
    /\ commitsRecieved' = [commitsRecieved EXCEPT ![i] = @ + 1]
    /\ IF commitsRecieved[i] + 1 < Commits
         THEN UNCHANGED <<state, committed>>
         ELSE /\ state' = [state EXCEPT ![i] = "PRE_PREPARE"]
              /\ committed' = committed \cup {i}
    /\ UNCHANGED <<log, preparesRecieved>>

\* A message that is not for the node's state is dropped (l.272, l.318, l.367).
Drop(i) ==
    /\ \E s \in {"PRE_PREPARE", "PREPARE", "COMMIT"}, type \in {"PREPREPARE", "PREPARE", "COMMIT"} :
          /\ <<s, type>> \notin {<<"PRE_PREPARE", "PREPREPARE">>, <<"PREPARE", "PREPARE">>, <<"COMMIT", "COMMIT">>}
          /\ Takes(i, s, type)
    /\ UNCHANGED <<log, state, preparesRecieved, commitsRecieved, committed>>

Next ==
    \/ Join \/ Propose
    \/ \E i \in Id : PrePrepare(i) \/ Prepare(i) \/ Commit(i) \/ Drop(i)

Spec == Init /\ [][Next]_vars

-----------------------------------------------------------------------------
(* Properties *)

Drained == log # <<>> /\ \A i \in running : read[i] = Len(log)

\* Nodes that join in the middle of a round do not disturb it as long as they leave
\* f as it is: their keys and queues are there, their PREPAREs and COMMITs are
\* not, and yet every node that was asked commits.
RoundSurvivesJoin ==
    Drained /\ asked.nodes \subseteq running
        /\ f = asked.f /\ Prepares <= Cardinality(asked.nodes)
        => asked.nodes \subseteq committed

\* A node never commits without as many nodes having posted a COMMIT as the keys of
\* the beginning of the round ask for, although the count is compared with a
\* number computed anew for every message.
CommitsAsAsked ==
    committed # {} =>
        Cardinality({k \in DOMAIN log : log[k] = "COMMIT"}) >= asked.f + 1

=============================================================================
