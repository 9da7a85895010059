------------------------------ MODULE Arithmetic ------------------------------
(***************************************************************************)
(* The fixed-width arithmetic the pallet relies on.  The operators are     *)
(* those of Substrate's sp_arithmetic crate, which is not part of the      *)
(* repository: they are modelled from how pallets/template/src/lib.rs and  *)
(* runtime/src/configs/mod.rs use them.                                    *)
(*                                                                         *)
(* A Permill is the number of its parts, 0..Accuracy.  In the crate        *)
(* Accuracy is 1_000_000; it is a constant here so that small instances    *)
(* reach amounts above it.                                                 *)
(***************************************************************************)
EXTENDS Integers

CONSTANT Accuracy

ASSUME AccuracyAssumption == Accuracy \in Nat \ {0}

Permill == 0..Accuracy

-----------------------------------------------------------------------------
(* Saturating::saturating_add / _sub / _mul on an unsigned integer whose   *)
(* largest value is max.                                                   *)
SaturatingAdd(x, y, max) == IF x + y > max THEN max ELSE x + y

SaturatingSub(x, y) == IF y > x THEN 0 ELSE x - y

SaturatingMul(x, y, max) == IF x * y > max THEN max ELSE x * y

-----------------------------------------------------------------------------
(* Permill::from_parts clamps at one whole; Permill::from_percent likewise. *)
FromParts(parts) == IF parts > Accuracy THEN Accuracy ELSE parts

FromPercent(x) == ((IF x > 100 THEN 100 ELSE x) * Accuracy) \div 100

(***************************************************************************)
(* Permill::mul_floor.  The crate splits the amount so that the product    *)
(* cannot overflow: the whole multiples of Accuracy are scaled exactly and *)
(* only the remainder is rounded down.                                     *)
(***************************************************************************)
MulFloor(p, x) ==
    (x \div Accuracy) * p + ((x % Accuracy) * p) \div Accuracy

-----------------------------------------------------------------------------
(* The runtime's two thresholds, as runtime/src/configs/mod.rs writes them. *)
DaoQuorum == FromParts(666666666)

DaoApprovalOfQuorum == FromPercent(50)

=============================================================================
