--------------------------- MODULE MCNativeAutoLock ---------------------------
(***************************************************************************)
(* Native Auto-Lock for TLC: an enable and a disable that may overlap or   *)
(* follow each other, and one use of the lock.                             *)
(***************************************************************************)
EXTENDS NativeAutoLock, TLC
=============================================================================
