--------------------------- MODULE MCVescHardware ---------------------------
(***************************************************************************)
(* TLC instances of VescHardware: a ROTOR joint that reads and commands    *)
(* the first and the last field of a packet, a SERVO joint, and a SERVO    *)
(* joint with the name of a group, for which there is no command, among    *)
(* its states: on_activate throws.                                         *)
(***************************************************************************)
EXTENDS VescHardware

Rotor == [states |-> {"position", "duty_cycle"}, commands |-> {"position", "duty_cycle"}]
Servo == [states |-> {"servo"}, commands |-> {"servo"}]
ServoWithGroup == [states |-> {"servo", "orientation"}, commands |-> {"servo"}]
MCJoints == {Rotor, Servo, ServoWithGroup}
MCCommands == {-1, NaN}
=============================================================================
