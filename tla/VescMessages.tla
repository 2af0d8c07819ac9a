---------------------------- MODULE VescMessages ----------------------------
(***************************************************************************)
(* What the driver node (vesc_driver.cpp) and the hardware component       *)
(* (vesc_hardware.cpp) make of a telemetry packet: the messages VescState, *)
(* VescImu and sensor_msgs/Imu, and the atomics behind the interfaces of a *)
(* sensor.                                                                 *)
(*                                                                         *)
(* A table gives for each field of a message the accessor of the packet    *)
(* that it is filled from.  The vectors of a VescImu are functions of      *)
(* their components.                                                       *)
(***************************************************************************)
\* A message, or a vector of one, from a packet: a function of its accessors.
Fill(table, packet) == [field \in DOMAIN table |-> packet[table[field]]]

-----------------------------------------------------------------------------
(* VescState, of the driver's sensors/core and the component's ~/vesc_state. *)

DriverState ==
    [temp_fet |-> "temp_fet", temp_motor |-> "temp_motor", voltage_input |-> "v_in",
     current_motor |-> "avg_motor_current", current_input |-> "avg_input_current",
     avg_id |-> "avg_id", avg_iq |-> "avg_iq", duty_cycle |-> "duty_cycle_now",
     speed |-> "rpm", charge_drawn |-> "amp_hours", charge_regen |-> "amp_hours_charged",
     energy_drawn |-> "watt_hours", energy_regen |-> "watt_hours_charged",
     displacement |-> "tachometer", distance_traveled |-> "tachometer_abs",
     fault_code |-> "fault_code", pid_pos_now |-> "pid_pos_now",
     controller_id |-> "controller_id", ntc_temp_mos1 |-> "temp_mos1",
     ntc_temp_mos2 |-> "temp_mos2", ntc_temp_mos3 |-> "temp_mos3",
     avg_vd |-> "avg_vd", avg_vq |-> "avg_vq"]

\* Mutation of HardwareState: drawn and regenerated charge are swapped.
HardwareStateSwapped ==
    [DriverState EXCEPT !.charge_drawn = "amp_hours_charged", !.charge_regen = "amp_hours"]

HardwareState ==
    [temp_fet |-> "temp_fet", temp_motor |-> "temp_motor", ntc_temp_mos1 |-> "temp_mos1",
     ntc_temp_mos2 |-> "temp_mos2", ntc_temp_mos3 |-> "temp_mos3",
     current_motor |-> "avg_motor_current", current_input |-> "avg_input_current",
     avg_id |-> "avg_id", avg_iq |-> "avg_iq", voltage_input |-> "v_in",
     avg_vd |-> "avg_vd", avg_vq |-> "avg_vq", duty_cycle |-> "duty_cycle_now",
     speed |-> "rpm", charge_drawn |-> "amp_hours", charge_regen |-> "amp_hours_charged",
     energy_drawn |-> "watt_hours", energy_regen |-> "watt_hours_charged",
     displacement |-> "tachometer", distance_traveled |-> "tachometer_abs",
     pid_pos_now |-> "pid_pos_now", fault_code |-> "fault_code",
     controller_id |-> "controller_id"]

-----------------------------------------------------------------------------
(* VescImu and sensor_msgs/Imu.  Units are left out: the accessors convert  *)
(* angles to degrees, and what is stored for an interface is converted to   *)
(* radians, radians a second and m/s2.                                      *)

\* The member of VescPacketImu that an accessor returns.
ImuAccessors ==
    [roll |-> "roll", pitch |-> "pitch", yaw |-> "yaw", acc_x |-> "acc_x",
     acc_y |-> "acc_y", acc_z |-> "acc_z", gyr_x |-> "gyr_x", gyr_y |-> "gyr_y",
     gyr_z |-> "gyr_z", mag_x |-> "mag_x", mag_y |-> "mag_y", mag_z |-> "mag_z",
     q_w |-> "q0", q_x |-> "q1", q_y |-> "q2", q_z |-> "q3"]

XYZ(x, y, z) == [x |-> x, y |-> y, z |-> z]
Acceleration == XYZ("acc_x", "acc_y", "acc_z")
Gyration == XYZ("gyr_x", "gyr_y", "gyr_z")
Magnetic == XYZ("mag_x", "mag_y", "mag_z")
Quaternion == [w |-> "q_w", x |-> "q_x", y |-> "q_y", z |-> "q_z"]

\* The driver's sensors/imu: the angles in the order roll, pitch, yaw, which is not
\* that of VescImu.msg.
DriverImu ==
    [ypr |-> XYZ("roll", "pitch", "yaw"), linear_acceleration |-> Acceleration,
     angular_velocity |-> Gyration, compass |-> Magnetic, orientation |-> Quaternion]

\* Its sensors/imu/raw, a sensor_msgs/Imu, with the same numbers.
DriverStandardImu ==
    [linear_acceleration |-> Acceleration, angular_velocity |-> Gyration,
     orientation |-> Quaternion]

\* Mutation of HardwareImu: the angles are in the driver's order.
HardwareImuAsDriver == DriverImu

\* The component's ~/vesc_imu: yaw, pitch, roll, as VescImu.msg has them.
HardwareImu ==
    [ypr |-> XYZ("yaw", "pitch", "roll"), linear_acceleration |-> Acceleration,
     angular_velocity |-> Gyration, compass |-> Magnetic, orientation |-> Quaternion]

\* The atomics behind a sensor's interfaces, by group.
ImuAtomics ==
    [orientation |-> Quaternion,
     euler_angles |-> [roll |-> "roll", pitch |-> "pitch", yaw |-> "yaw"],
     angular_velocity |-> Gyration, linear_acceleration |-> Acceleration,
     magnetic_field |-> Magnetic]
=============================================================================
