----------------------------- MODULE MCAccessLog -----------------------------
(***************************************************************************)
(* The access log for TLC: a lock that uploads its log, alone or after one *)
(* that does not.                                                          *)
(***************************************************************************)
EXTENDS AccessLog, TLC

CONSTANTS cloudLock, ownLock, first, interval, service

OwnThenCloud == <<ownLock, cloudLock>>
CloudOnly == <<cloudLock>>
=============================================================================
