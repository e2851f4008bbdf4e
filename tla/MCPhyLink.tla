----------------------------- MODULE MCPhyLink -----------------------------
(* Constants of PhyLink for TLC. *)
EXTENDS PhyLink

(* Of 56 used subcarriers; MCS 0 with 30 and MCS 2 with 16 lose PSDUs. *)
FadeWidths == [m \in Mcss |-> CASE m = 0 -> 18 [] m = 2 -> 10 [] m = 4 -> 12 [] OTHER -> 8]

(* The edges of the band, around DC and around pilots. *)
FadePlaces == {-28, -8, 5, 17}
=============================================================================
