--------------------------- MODULE MCDataRootLock ---------------------------
(* Instances of DataRootLock.                                              *)
EXTENDS DataRootLock

MCTwo == {"p", "q"}
MCThree == {"p", "q", "r"}
=============================================================================
