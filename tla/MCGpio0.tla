------------------------------ MODULE MCGpio0 ------------------------------
(* A small instance of Gpio0: see Gpio0.cfg for the bounds.                *)
EXTENDS Gpio0, TLC

MCSymmetry == Permutations(Procs)
=============================================================================
