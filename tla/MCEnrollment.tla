---------------------------- MODULE MCEnrollment ----------------------------
(* Instances of Enrollment for TLC: which mishaps may happen. *)
EXTENDS Enrollment, TLC

\* Machines, names and invitations are interchangeable.
Symmetry == Permutations(Machine) \cup Permutations(Name) \cup Permutations(Code)

AllButExpiry == Mishap \ {"expire"}
=============================================================================
