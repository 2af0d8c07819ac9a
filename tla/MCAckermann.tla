---------------------------- MODULE MCAckermann ----------------------------
(***************************************************************************)
(* TLC instance of Ackermann: driving forward or standing, straight ahead, *)
(* to the left, or further than the servo reaches; the clock stands,       *)
(* advances, or is set back.                                               *)
(***************************************************************************)
EXTENDS Ackermann

MCCurvature(angle) == angle
MCClockSteps == {-1, 1, 2}
=============================================================================
