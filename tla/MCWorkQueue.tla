----------------------------- MODULE MCWorkQueue -----------------------------
(* Instances of WorkQueue for TLC.  The configurations give Key and Worker   *)
(* three model values each: with two workers that hold items there is still  *)
(* one that sleeps, and with three keys an item can wait behind another.     *)
EXTENDS WorkQueue
=============================================================================
