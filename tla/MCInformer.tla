------------------------------ MODULE MCInformer ------------------------------
(* The instance of Informer for TLC: the constants are given in the .cfg.     *)
EXTENDS Informer
=============================================================================
