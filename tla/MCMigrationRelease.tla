-------------------------- MODULE MCMigrationRelease --------------------------
(* Small instances of MigrationRelease: two releases that share one image.   *)
EXTENDS MigrationRelease, TLC

CONSTANTS r1, r2, u1, u2, img

MCReleases == {r1, r2}
MCOneRelease == {r1}
MCUsers == {u1, u2}
MCImageDigest == [r \in Releases |-> img]
MCSymmetry == Permutations({r1, r2}) \cup Permutations({u1, u2})
===============================================================================
