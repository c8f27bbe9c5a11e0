--------------------------- MODULE MC_FlashStore ---------------------------
(* save_flag, the distance level (which is not loaded), the light's time   *)
(* (0 by default, as if PARA_LIGHT_ON_TIME_MS < 1000, and loaded as 1)    *)
(* and one more; a calibration of two bits.                                *)
EXTENDS FlashStore
MCMagic == {1}
MCBits == {1, 2}
MCDefault == [i \in 1..4 |-> IF i \in {1, 3} THEN {} ELSE {1}]
MCOne == {1}
MCValue == [i \in 2..4 |-> IF i = 2 THEN {} ELSE IF i = 3 THEN {{2}} ELSE {{1}, {2}}]
MCGiven == {{}, {1}, {2}, {1, 2}}
=============================================================================
