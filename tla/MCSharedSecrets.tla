-------------------------- MODULE MCSharedSecrets --------------------------
(* A small instance of SharedSecrets: the source has a secret n1, which its *)
(* user may rotate, and may add n2; the follower's user may own n2 as well. *)
EXTENDS SharedSecrets

MCReferences == 1 .. 8
MCTyped == [m \in Machines |-> IF m = Source THEN {<<"n1", "x">>, <<"n2", "u">>} ELSE {<<"n2", "w">>}]
MCHeld == [n \in {"n1"} |-> "u"]
=============================================================================
