------------------------ MODULE MCSandboxIndexMigration ------------------------
(* Small instances of SandboxIndexMigration.                                 *)
EXTENDS SandboxIndexMigration

CONSTANTS u1, u2, k1

MCIds == 1 .. 3
MCUsers == {u1, u2}
MCOneUser == {u1}
MCKeys == {k1}
===============================================================================
