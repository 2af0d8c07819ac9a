----------------------------- MODULE VescCodec -----------------------------
(***************************************************************************)
(* The payloads of the packets (vesc_packet.cpp): the integers of the Set  *)
(* packets, the fields that VescPacketValues reads, the masked floats of   *)
(* VescPacketImu and the parsing of VescPacketFWVersion.                   *)
(*                                                                         *)
(* A payload is a sequence of bytes.  The code's offset k from             *)
(* payload_.first is index k + 1.  A double is counted in fractions of the *)
(* resolution of its field, so that the factors of the code are 1.         *)
(***************************************************************************)
EXTENDS Integers, Sequences, FiniteSets

CONSTANTS
    Base,           \* values of a byte, 256 in the code
    Fraction,       \* values of the fraction of a float, 2^23 in the code
    Exponent,       \* values of its exponent, 256 in the code
    Uninitialized   \* a member that the constructor did not set

ASSUME CodecAssumption ==
    /\ Base \in Nat /\ Base % 2 = 0 /\ Base > 0
    /\ Fraction \in Nat \ {0} /\ Exponent \in Nat \ {0, 1}
    /\ Base * Base * Base * Base = 2 * Exponent * Fraction
    /\ Uninitialized \notin Int

Byte == 0..Base - 1

\* The values of an integer of 1, 2 or 4 bytes.
Modulus(width) == CASE width = 1 -> Base
                    [] width = 2 -> Base * Base
                    [] width = 4 -> Base * Base * Base * Base

\* int16_t and int32_t; a single byte is read as an unsigned.
Integer(width) == IF width = 1 THEN 0..Base - 1
                  ELSE -(Modulus(width) \div 2)..Modulus(width) \div 2 - 1

\* static_cast of a double with n steps in a resolution: towards zero.
Truncate(x, n) == IF x >= 0 THEN x \div n ELSE -((-x) \div n)

\* A value outside of the integer's range is undefined: any integer.
Cast(x, n, width) ==
    IF Truncate(x, n) \in Integer(width) THEN {Truncate(x, n)} ELSE Integer(width)

-----------------------------------------------------------------------------
(* Big-endian integers, written by shifts and read by sums.                 *)

\* Mutation of PutInt: the bytes in the order of the machine.
PutIntLittle(v, width) ==
    LET u == v % Modulus(width) IN
    CASE width = 1 -> <<u>>
      [] width = 2 -> <<u % Base, u \div Base>>
      [] width = 4 -> <<u % Base, (u \div Base) % Base, (u \div (Base * Base)) % Base,
                        u \div (Base * Base * Base)>>

PutInt(v, width) ==
    LET u == v % Modulus(width) IN
    CASE width = 1 -> <<u>>
      [] width = 2 -> <<u \div Base, u % Base>>
      [] width = 4 -> <<u \div (Base * Base * Base), (u \div (Base * Base)) % Base,
                        (u \div Base) % Base, u % Base>>

\* The unsigned integer behind the first `at` bytes.
GetUnsigned(payload, at, width) ==
    CASE width = 1 -> payload[at + 1]
      [] width = 2 -> Base * payload[at + 1] + payload[at + 2]
      [] width = 4 -> Base * Base * Base * payload[at + 1] + Base * Base * payload[at + 2]
                        + Base * payload[at + 3] + payload[at + 4]

GetInt(payload, at, width) ==
    LET u == GetUnsigned(payload, at, width) IN
    IF u \in Integer(width) THEN u ELSE u - Modulus(width)

-----------------------------------------------------------------------------
(* The Set packets: payload id and value.                                   *)

Commands == {"SetDuty", "SetCurrent", "SetCurrentBrake", "SetRPM", "SetPos", "SetServoPos"}

CommandId(name) == CASE name = "SetDuty"         -> 5
                     [] name = "SetCurrent"      -> 6
                     [] name = "SetCurrentBrake" -> 7
                     [] name = "SetRPM"          -> 8
                     [] name = "SetPos"          -> 9
                     [] name = "SetServoPos"     -> 12

CommandWidth(name) == IF name = "SetServoPos" THEN 2 ELSE 4

\* The payloads a constructor may build from x, a double with n steps in a
\* resolution.
SetPacket(name, x, n) ==
    {<<CommandId(name)>> \o PutInt(v, CommandWidth(name)) :
        v \in Cast(x, n, CommandWidth(name))}

\* What is expected of it: the VESC reads a value up to the resolution of its
\* field, with its sign and never beyond it, if the field has room for it.
Transmitted(name, x, n) ==
    LET width == CommandWidth(name) IN
    Truncate(x, n) \in Integer(width) =>
        \A p \in SetPacket(name, x, n) :
            LET v == GetInt(p, 1, width) IN
            /\ Len(p) = width + 1
            /\ IF x >= 0 THEN v * n <= x /\ x < (v + 1) * n
               ELSE x <= v * n /\ (v - 1) * n < x

-----------------------------------------------------------------------------
(* VescPacketValues: what each accessor reads.                              *)

ValuesFields == {"temp_fet", "temp_motor", "avg_motor_current", "avg_input_current",
    "avg_id", "avg_iq", "duty_cycle_now", "rpm", "v_in", "amp_hours",
    "amp_hours_charged", "watt_hours", "watt_hours_charged", "tachometer",
    "tachometer_abs", "fault_code", "pid_pos_now", "controller_id", "temp_mos1",
    "temp_mos2", "temp_mos3", "avg_vd", "avg_vq"}

Int16Offset == [temp_fet |-> 1, temp_motor |-> 3, duty_cycle_now |-> 21, v_in |-> 27,
                temp_mos1 |-> 59, temp_mos2 |-> 61, temp_mos3 |-> 63]
CurrentOffset == [avg_motor_current |-> 5, avg_input_current |-> 9, avg_id |-> 13,
                  avg_iq |-> 17, rpm |-> 23]
EnergyOffset == [amp_hours |-> 29, amp_hours_charged |-> 33, watt_hours |-> 37,
                 watt_hours_charged |-> 41, tachometer |-> 45, tachometer_abs |-> 49]
StatusOffset == [fault_code |-> 53, controller_id |-> 58]
PositionOffset == [pid_pos_now |-> 54, avg_vd |-> 65, avg_vq |-> 69]

\* Mutation of ValuesOffset: the fault code is taken for a 32-bit field.
ValuesOffsetShifted(f) ==
    CASE f \in DOMAIN Int16Offset    -> Int16Offset[f]
      [] f \in DOMAIN CurrentOffset  -> CurrentOffset[f]
      [] f \in DOMAIN EnergyOffset   -> EnergyOffset[f]
      [] f \in DOMAIN StatusOffset   -> StatusOffset[f]
      [] f \in DOMAIN PositionOffset -> PositionOffset[f] + 3

ValuesOffset(f) ==
    CASE f \in DOMAIN Int16Offset    -> Int16Offset[f]
      [] f \in DOMAIN CurrentOffset  -> CurrentOffset[f]
      [] f \in DOMAIN EnergyOffset   -> EnergyOffset[f]
      [] f \in DOMAIN StatusOffset   -> StatusOffset[f]
      [] f \in DOMAIN PositionOffset -> PositionOffset[f]

ValuesWidth(f) == IF f \in DOMAIN Int16Offset THEN 2
                  ELSE IF f \in DOMAIN StatusOffset THEN 1 ELSE 4

ReadValue(payload, f) == GetInt(payload, ValuesOffset(f), ValuesWidth(f))

-----------------------------------------------------------------------------
(* VescPacketImu: a mask of 16 bits, and a float for every bit that is set. *)

ImuFields == <<"roll", "pitch", "yaw", "acc_x", "acc_y", "acc_z", "gyr_x", "gyr_y",
               "gyr_z", "mag_x", "mag_y", "mag_z", "q0", "q1", "q2", "q3">>

\* The mask of VescPacketRequestImu, 0xFFFF.
RequestedImuFields == DOMAIN ImuFields

\* The powers of two that ldexpf multiplies with.
Power2[e \in 0..Exponent] == IF e = 0 THEN 1 ELSE 2 * Power2[e - 1]

\* ldexpf(f, e) for f * 2^24 = mantissa, in units of 2^-150: a denormal float has
\* a resolution of 2 units, and ties go to even; beyond the largest exponent every
\* value is infinite.
Ldexp(mantissa, e) ==
    CASE e = Exponent - 1 -> Fraction * Power2[e]
      [] e = 0 -> 2 * ((mantissa \div 4) * 2
                        + (IF mantissa % 4 <= 1 THEN 0 ELSE (mantissa % 4) - 1))
      [] OTHER -> mantissa * Power2[e]

\* Mutation of getFloat32Auto: the leading bit of the fraction is forgotten.
FloatWithoutLeadingBit(payload, at) ==
    LET res == GetUnsigned(payload, at, 4)
        f   == Ldexp(res % Fraction, (res \div Fraction) % Exponent)
    IN  IF res \div (Fraction * Exponent) = 1 THEN -f ELSE f

\* getFloat32Auto: the fraction has an implicit leading bit unless exponent and
\* fraction are 0.
getFloat32Auto(payload, at) ==
    LET res == GetUnsigned(payload, at, 4)
        fr  == res % Fraction
        e   == (res \div Fraction) % Exponent
        f   == IF e = 0 /\ fr = 0 THEN 0 ELSE Ldexp(fr + Fraction, e)
    IN  IF res \div (Fraction * Exponent) = 1 THEN -f ELSE f

\* Mutation of ImuOffset: getFloat32Auto does not advance ind.
ImuOffsetFixed(mask, i) == 3

\* ind at field i: 4 bytes for every field before it whose bit is set.
ImuOffset(mask, i) == 3 + 4 * Cardinality(mask \cap 1..i - 1)

\* The member for field i, in a packet whose mask has the bits of mask.
ImuMember(payload, mask, i) ==
    IF i \in mask THEN getFloat32Auto(payload, ImuOffset(mask, i)) ELSE Uninitialized

-----------------------------------------------------------------------------
(* VescPacketFWVersion: a name of any length that ends in 0, then the uuid. *)

\* Length of the name: the bytes before the first 0.
NameLength(payload) ==
    CHOOSE n \in 0..Len(payload) :
        /\ payload[4 + n] = 0
        /\ \A k \in 0..n - 1 : payload[4 + k] # 0

\* Mutation of NameEnd: the increment after the loop is missing.
NameEndEarly(payload) == IF NameLength(payload) = 0 THEN 0 ELSE NameLength(payload) - 1

\* j after the loop: the last i of the loop plus one, and 1 for an empty name.
NameEnd(payload) == IF NameLength(payload) = 0 THEN 1 ELSE NameLength(payload)

FWVersion(payload) ==
    LET uuid_at == 5 + NameEnd(payload) IN
    [major  |-> payload[2],
     minor  |-> payload[3],
     hwname |-> SubSeq(payload, 4, 3 + NameLength(payload)),
     uuid   |-> SubSeq(payload, uuid_at, uuid_at + 11),
     paired |-> payload[uuid_at + 12] # 0,
     devVersion |-> payload[uuid_at + 14]]
=============================================================================
