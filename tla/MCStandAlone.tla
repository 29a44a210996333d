---------------------------- MODULE MCStandAlone ----------------------------
(***************************************************************************)
(* The parts of the program that share no state with a node's consensus,   *)
(* nor with one another: hashing, packages, the Merkle tree over a chain,  *)
(* the old network and the plain nodes.  A behaviour of the program's      *)
(* parts side by side is an interleaving of behaviours of each, and every  *)
(* property below is about one part: so one of them runs at a time, and    *)
(* the others stand where they begin.                                      *)
(***************************************************************************)
EXTENDS SHA256, PBFTDataPackage, MerkleTree, NetworkManager, PlainNodes

VARIABLE part    \* the one that runs

standAloneVars == <<hashVars, packageVars, treeVars, oldVars, plainVars, part>>

Init ==
    /\ part \in {"SHA-256", "packages", "Merkle tree", "old network", "plain nodes"}
    /\ HashInit /\ PackageInit /\ TreeInit /\ OldInit /\ PlainInit

Next ==
    /\ \/ /\ part = "SHA-256" /\ HashNext
          /\ UNCHANGED <<packageVars, treeVars, oldVars, plainVars>>
       \/ /\ part = "packages" /\ PackageNext
          /\ UNCHANGED <<hashVars, treeVars, oldVars, plainVars>>
       \/ /\ part = "Merkle tree" /\ TreeNext
          /\ UNCHANGED <<hashVars, packageVars, oldVars, plainVars>>
       \/ /\ part = "old network" /\ OldNext
          /\ UNCHANGED <<hashVars, packageVars, treeVars, plainVars>>
       \/ /\ part = "plain nodes" /\ PlainNext
          /\ UNCHANGED <<hashVars, packageVars, treeVars, oldVars>>
    /\ UNCHANGED part

\* A part that stands has no step that fairness asks for: no thread of the old
\* network is in a call, and no node has been started.
Spec == Init /\ [][Next]_standAloneVars /\ OldFairness /\ PlainFairness

=============================================================================
