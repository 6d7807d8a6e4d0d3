-------------------------- MODULE MCLcsIndexMigration --------------------------
(* Small instances of LcsIndexMigration.                                     *)
EXTENDS LcsIndexMigration

CONSTANTS i1, i2, d1, d2

MCIds == {i1, i2}
MCDrafts == {d1, d2}
MCOneDraft == {d1}
===============================================================================
