---------------------------- MODULE SharedReceive ----------------------------
(***************************************************************************)
(* The first statements of the loop of packet_creation_thread              *)
(* (vesc_interface.cpp), in the threads of several VescInterface objects   *)
(* of one process.  temp_buffer is a static local variable: there is one   *)
(* for all of them.  receive() fills its beginning and returns a count;    *)
(* the thread then inserts that many of its bytes into its own buffer_.    *)
(*                                                                         *)
(* The k-th byte on the line of interface i is <<i, k>>.  received is      *)
(* everything a thread ever inserted (the received of PacketStream).       *)
(***************************************************************************)
EXTENDS Integers, Sequences

CONSTANTS
    Interfaces,   \* the VescInterface objects of the process
    ReceiveSize,  \* size of temp_buffer, 2048 in the code
    MaxBytes      \* bound on the bytes of a line

\* What the theorems assume of the constants.
SharedReceiveAssumption ==
    /\ ReceiveSize \in Nat \ {0}
    /\ MaxBytes \in Nat

VARIABLES
    arrived,      \* number of bytes the VESC of an interface has sent
    taken,        \* number of them that receive() has returned
    temp_buffer,
    bytes_read,
    pc,           \* "receive", "insert" or "search"
    received

vars == <<arrived, taken, temp_buffer, bytes_read, pc, received>>

Line == Interfaces \X (1..MaxBytes)
Zero == <<>>   \* what temp_buffer is initialised with

Init ==
    /\ arrived = [i \in Interfaces |-> 0]
    /\ taken = [i \in Interfaces |-> 0]
    /\ temp_buffer = [k \in 1..ReceiveSize |-> Zero]
    /\ bytes_read = [i \in Interfaces |-> 0]
    /\ pc = [i \in Interfaces |-> "receive"]
    /\ received = [i \in Interfaces |-> <<>>]

\* External: a byte arrives on the line of interface i.
Arrive(i) ==
    /\ arrived[i] < MaxBytes
    /\ arrived' = [arrived EXCEPT ![i] = @ + 1]
    /\ UNCHANGED <<taken, temp_buffer, bytes_read, pc, received>>

\* receive(temp_buffer) returns n bytes; the rest of temp_buffer is unchanged.
Receive(i, n) ==
    /\ pc[i] = "receive"
    /\ n <= arrived[i] - taken[i]
    /\ temp_buffer' = [k \in 1..ReceiveSize |->
                          IF k <= n THEN <<i, taken[i] + k>> ELSE temp_buffer[k]]
    /\ bytes_read' = [bytes_read EXCEPT ![i] = n]
    /\ taken' = [taken EXCEPT ![i] = @ + n]
    /\ pc' = [pc EXCEPT ![i] = "insert"]
    /\ UNCHANGED <<arrived, received>>

\* buffer_.insert(end, temp_buffer.begin(), temp_buffer.begin() + bytes_read).
Insert(i) ==
    /\ pc[i] = "insert"
    /\ received' = [received EXCEPT ![i] =
                        @ \o SubSeq(temp_buffer, 1, bytes_read[i])]
    /\ pc' = [pc EXCEPT ![i] = "search"]
    /\ UNCHANGED <<arrived, taken, temp_buffer, bytes_read>>

\* The search and the sleep that follow do not touch temp_buffer.
Search(i) ==
    /\ pc[i] = "search"
    /\ pc' = [pc EXCEPT ![i] = "receive"]
    /\ UNCHANGED <<arrived, taken, temp_buffer, bytes_read, received>>

Next ==
    \E i \in Interfaces :
        \/ Arrive(i) \/ Insert(i) \/ Search(i)
        \/ \E n \in 1..ReceiveSize : Receive(i, n)

Spec == Init /\ [][Next]_vars

-----------------------------------------------------------------------------
TypeOK ==
    /\ arrived \in [Interfaces -> 0..MaxBytes]
    /\ taken \in [Interfaces -> 0..MaxBytes]
    /\ temp_buffer \in [1..ReceiveSize -> Line \cup {Zero}]
    /\ bytes_read \in [Interfaces -> 0..ReceiveSize]
    /\ pc \in [Interfaces -> {"receive", "insert", "search"}]
    /\ received \in [Interfaces -> Seq(Line \cup {Zero})]

\* What a thread searches for packets is the byte stream of its own VESC, whole
\* and in order: the handlers of an interface see its VESC and no other.
OwnBytesInOrder ==
    \A i \in Interfaces :
        received[i] = [k \in 1..Len(received[i]) |-> <<i, k>>]

\* Nothing receive() returned is dropped on the way into buffer_.
NoByteDropped ==
    \A i \in Interfaces : pc[i] # "insert" => Len(received[i]) = taken[i]
=============================================================================
