------------------------------- MODULE Sizing -------------------------------
(***************************************************************************)
(* The quantity of an order (src/src/risk/sizing.py).  Money is counted in *)
(* its smallest unit and quantities in the smallest quantity, so that the  *)
(* decimals of the code are integers; the conversions to float at its      *)
(* borders are left out.                                                   *)
(***************************************************************************)
EXTENDS Integers, Settings

CONSTANTS
    Capital,    \* capital_per_position
    Step,       \* sizing.quantity_step
    MinQuantity \* sizing.min_quantity

ASSUME SizingAssumption ==
    Capital \in Nat \ {0} /\ Step \in Nat \ {0} /\ MinQuantity \in Nat \ {0}

ASSUME SizingIsLoaded ==
    [min_quantity |-> MinQuantity, quantity_step |-> Step] \in SizingSettings

\* calculate_quantity: as many whole steps as the capital buys.
Quantity(price) == (Capital \div (price * Step)) * Step

\* RiskSizingError is raised otherwise.
Sizeable(price) == Quantity(price) >= MinQuantity
=============================================================================
