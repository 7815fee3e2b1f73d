----------------------------- MODULE MCBtProbe -----------------------------
(* Instances of BtProbe for TLC. *)
EXTENDS BtProbe, TLC

CONSTANTS p1, p2, p3, h1

(* Two probes of one hash and one magnet without a hash. *)
Duo == (p1 :> h1) @@ (p2 :> h1) @@ (p3 :> NoHash)

=============================================================================
