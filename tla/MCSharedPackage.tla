---------------------------- MODULE MCSharedPackage ----------------------------
(* Small instances of SharedPackage: the two commits pin different bytes.    *)
EXTENDS SharedPackage, TLC

CONSTANTS jar, pom, module, c1, c2, b1, b2

MCArtifacts == {jar, pom, module}
MCCommits == {c1, c2}
MCBytes == {b1, b2}
MCPinned == (c1 :> [a \in Artifacts |-> b1]) @@ (c2 :> [a \in Artifacts |-> b2])
MCSymmetry == Permutations(Artifacts)
===============================================================================
