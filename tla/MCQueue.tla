-------------------------------- MODULE MCQueue -------------------------------
(***************************************************************************)
(* Small instance of MessageQueue: two readers and a ring of two chunks    *)
(* that is filled more than once.                                          *)
(***************************************************************************)
EXTENDS MessageQueue
===============================================================================
