---------------------------- MODULE MCAlgorithms ----------------------------
(***************************************************************************)
(* TLC instance of Algorithms.  A byte has 16 values here, so what is an   *)
(* int32_t in the code has 16 bits and what is an int16_t has 8.           *)
(***************************************************************************)
EXTENDS Algorithms

\* Around the ranges of the callers: most have none, duty_cycle is in -1..1 and
\* servo in 0..1.
MCSettings == (-3..3) \cup {NaN, None}
MCRanges == {<<None, None>>, <<-1, 1>>, <<0, 1>>}

\* Around 0 and both ends of both integers.
MCDoubles == {sign * (edge * Steps + d) :
    sign \in {-1, 1}, edge \in {0, Modulus(2) \div 2, Modulus(4) \div 2}, d \in -3..3}

\* Every field has a value of its own, and one of them any of its extremes.
Extremes(width) == IF width = 1 THEN {0, Base - 1}
                   ELSE {0, -(Modulus(width) \div 2), Modulus(width) \div 2 - 1}
FieldIndex(f) == CHOOSE i \in DOMAIN Layout : Layout[i] = f
MCTelemetry == UNION {{[g \in ValuesFields |-> IF g = f THEN v ELSE (FieldIndex(g) % 8) + 3] :
                          v \in Extremes(ValuesWidth(f))} : f \in ValuesFields}

MCMasks == {mask \in SUBSET DOMAIN ImuFields : Cardinality(mask) \notin 3..14}
MCImuData == {[i \in DOMAIN ImuFields |-> (4097 * i) % Modulus(4)]}

\* Words on both sides of every change of exponent or sign.
MCWords == {w \in {k * Fraction + d : k \in 0..2 * Exponent, d \in -3..2} :
              w \in 0..Modulus(4) - 2}

MCNames == UNION {[1..n -> {1, 15}] : n \in 0..4}
MCUuids == {[i \in 1..12 |-> 16 - i]}

\* A joint with up to two state and two command interfaces and up to two sensors,
\* and what is rejected before any component is looked at.
UpTo(n, S) == UNION {[1..k -> S] : k \in 0..n}
JointStates == {<<"position">>, <<"servo">>, <<"orientation">>, <<"orientation", "x">>}
JointCommands == {<<"velocity">>, <<"servo">>, <<"torque">>}
Joints == [states : UpTo(2, JointStates), commands : UpTo(2, JointCommands)]
SensorStates == {<<"orientation">>, <<"euler_angles">>, <<"position">>, <<"orientation", "x">>}
Sensors == [states : UpTo(1, SensorStates), commands : {<<>>, <<<<"velocity">>>>}]
Motor == [states |-> <<<<"position">>>>, commands |-> <<<<"velocity">>>>]
MCDescriptions ==
    [device : {TRUE}, joints : [1..1 -> Joints], sensors : UpTo(1, Sensors)]
        \cup [device : {TRUE}, joints : {<<Motor>>}, sensors : UpTo(2, Sensors)]
        \cup [device : BOOLEAN, joints : UpTo(2, {Motor}), sensors : {<<>>}]
=============================================================================
