---------------------------- MODULE MCAccounting ----------------------------
(* Small instances of Accounting. *)
EXTENDS Accounting
=============================================================================
