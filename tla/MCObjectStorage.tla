---------------------------- MODULE MCObjectStorage ----------------------------
(* Small instances of ObjectStorage.                                         *)
EXTENDS ObjectStorage, TLC

CONSTANTS i1, i2, t1, t2, t3, k1

MCInstances == {i1, i2}
MCOneInstance == {i1}
MCThreads == {t1, t2, t3}
MCKeys == {k1}
MCInstanceOf == (t1 :> i1) @@ (t2 :> i1) @@ (t3 :> i2)
MCSameInstance == [t \in Threads |-> i1]
===============================================================================
