---------------------------- MODULE MCVescDriver ----------------------------
(***************************************************************************)
(* TLC instance of VescDriver: the servo limits of vesc_config.yaml in     *)
(* units of its resolution, the current limits unset, the others as given. *)
(***************************************************************************)
EXTENDS VescDriver

MCFirmware == <<5, 2>>
MCMin == [k \in Kinds |-> IF k = "current" THEN None ELSE -2]
MCMax == [k \in Kinds |-> IF k = "current" THEN None ELSE 3]
MCCommands == {-3, 1, NaN}
MCDegrees(v) == IF v = NaN THEN NaN ELSE 57 * v
=============================================================================
