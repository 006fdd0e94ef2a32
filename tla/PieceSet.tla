------------------------------ MODULE PieceSet ------------------------------
(***************************************************************************)
(* What the bitfield is for: the set of the pieces the client has, saved   *)
(* when it stops and there again when it is started.  A fault of the disk, *)
(* or a kill while the set is saved, may lose pieces, but adds none.       *)
(***************************************************************************)
EXTENDS Naturals

CONSTANT Pieces

VARIABLES have, saved, faults

Init == have = {} /\ saved \subseteq Nat /\ faults \in Nat

Add  == \E p \in Pieces : have' = have \cup {p} /\ UNCHANGED <<saved, faults>>
Save == saved' = have /\ UNCHANGED <<have, faults>>
Stop == have' = {} /\ UNCHANGED <<saved, faults>>
Load == have' = saved /\ UNCHANGED <<saved, faults>>
Lose == have' \subseteq saved /\ saved' \subseteq saved /\ faults' = faults + 1

Next == Add \/ Save \/ Stop \/ Load \/ Lose

Spec == Init /\ [][Next]_<<have, saved, faults>>
=============================================================================
