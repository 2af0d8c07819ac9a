---------------------------- MODULE CommandLimit ----------------------------
(***************************************************************************)
(* VescDriver::CommandLimit (vesc_driver.cpp): the limits of one command   *)
(* topic, computed once from two ROS parameters and the range the VESC can *)
(* do, and the clipping of every command to them.                          *)
(*                                                                         *)
(* A double is an integer (a multiple of some resolution) or NaN.  None is *)
(* the empty optional, and a parameter the user did not set.               *)
(***************************************************************************)
EXTENDS Integers

CONSTANTS NaN, None

ASSUME CommandLimitAssumption == NaN \notin Int /\ None \notin Int /\ NaN # None

Double == Int \cup {NaN}
Optional == Double \cup {None}
Bounds == Int \cup {None}   \* of min_lower and max_upper: the callers' constants

\* a < b of IEEE 754, false when an operand is NaN.
Less(a, b) == a # NaN /\ b # NaN /\ a < b

\* declare_parameter(name, ParameterValue(0.0)): 0.0 unless the user set it.
declare_parameter(param) == IF param = None THEN 0 ELSE param

\* One parameter, brought into the range from min_lower to max_upper.
Feasible(param, min_lower, max_upper) ==
    IF min_lower # None /\ Less(param, min_lower) THEN min_lower
    ELSE IF max_upper # None /\ Less(max_upper, param) THEN max_upper
    ELSE param

\* Mutation of InOrder: a minimum above the maximum is kept.
KeepOrder(lower, upper) == [lower |-> lower, upper |-> upper]

\* A minimum above the maximum is exchanged with it.
InOrder(lower, upper) ==
    IF Less(upper, lower) THEN [lower |-> upper, upper |-> lower]
                          ELSE [lower |-> lower, upper |-> upper]

\* The constructor.  declare_parameter always yields a value: the branches for
\* PARAMETER_NOT_SET are never taken, and both limits are engaged.
Limits(param_min, param_max, min_lower, max_upper) ==
    InOrder(Feasible(declare_parameter(param_min), min_lower, max_upper),
            Feasible(declare_parameter(param_max), min_lower, max_upper))

clip(limits, value) ==
    IF Less(value, limits.lower) THEN limits.lower
    ELSE IF Less(limits.upper, value) THEN limits.upper
    ELSE value

-----------------------------------------------------------------------------
\* v lies between lower and upper, as far as all three are numbers.
Between(lower, v, upper) == ~Less(v, lower) /\ ~Less(upper, v)

\* v lies in the range the VESC can do.
IsFeasible(min_lower, v, max_upper) ==
    /\ min_lower # None => ~Less(v, min_lower)
    /\ max_upper # None => ~Less(max_upper, v)
=============================================================================
