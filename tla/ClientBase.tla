----------------------------- MODULE ClientBase ------------------------------
(* What the modules of the host's clients share: the containerd shim and the *)
(* OCI command line.                                                         *)
EXTENDS Naturals

CONSTANT Nil    \* an absent entry, file or task

ASSUME NilAssumption == Nil \notin Nat
=============================================================================
