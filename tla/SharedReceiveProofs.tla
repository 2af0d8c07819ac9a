------------------------- MODULE SharedReceiveProofs -------------------------
(***************************************************************************)
(* Proofs about SharedReceive for any set of interfaces, size of           *)
(* temp_buffer and length of the lines.                                    *)
(***************************************************************************)
EXTENDS SharedReceive, SequenceTheorems, TLAPS

(* What the thread of interface i inserts.                                  *)
LEMMA InsertedBytes ==
    ASSUME SharedReceiveAssumption, TypeOK, NEW i \in Interfaces
    PROVE  LET new == SubSeq(temp_buffer, 1, bytes_read[i])
           IN  /\ new \in Seq(Line \cup {Zero})
               /\ Len(new) = bytes_read[i]
               /\ \A k \in 1..bytes_read[i] : new[k] = temp_buffer[k]
<1> USE DEF SharedReceiveAssumption, TypeOK
<1>1. bytes_read[i] \in 0..ReceiveSize
      OBVIOUS
<1>2. \A k \in 1..bytes_read[i] : temp_buffer[k] \in Line \cup {Zero}
      BY <1>1
<1> QED BY <1>1, <1>2, SubSeqProperties, Zenon, SMT

(* The type of every variable is kept.                                      *)
THEOREM TypeCorrect == ASSUME SharedReceiveAssumption PROVE Spec => []TypeOK
<1> USE DEF SharedReceiveAssumption, TypeOK
<1>1. Init => TypeOK
      BY DEF Init
<1>2. TypeOK /\ [Next]_vars => TypeOK'
  <2> SUFFICES ASSUME TypeOK, [Next]_vars PROVE TypeOK'
      OBVIOUS
  <2>1. ASSUME NEW i \in Interfaces, Arrive(i) PROVE TypeOK'
        BY <2>1 DEF Arrive
  <2>2. ASSUME NEW i \in Interfaces, NEW n \in 1..ReceiveSize, Receive(i, n)
        PROVE TypeOK'
    <3>1. taken[i] + n \in 0..MaxBytes
          BY <2>2 DEF Receive
    <3>2. \A k \in 1..ReceiveSize : k <= n => <<i, taken[i] + k>> \in Line
          BY <3>1 DEF Line
    <3>3. temp_buffer' \in [1..ReceiveSize -> Line \cup {Zero}]
          BY <2>2, <3>2 DEF Receive
    <3> QED BY <2>2, <3>1, <3>3 DEF Receive
  <2>3. ASSUME NEW i \in Interfaces, Insert(i) PROVE TypeOK'
    <3>1. SubSeq(temp_buffer, 1, bytes_read[i]) \in Seq(Line \cup {Zero})
          BY InsertedBytes
    <3> QED BY <2>3, <3>1 DEF Insert
  <2>4. ASSUME NEW i \in Interfaces, Search(i) PROVE TypeOK'
        BY <2>4 DEF Search
  <2>5. CASE UNCHANGED vars
        BY <2>5 DEF vars
  <2> QED BY <2>1, <2>2, <2>3, <2>4, <2>5 DEF Next
<1> QED BY <1>1, <1>2, PTL DEF Spec

-----------------------------------------------------------------------------
\* How much a thread has inserted, and how much it is about to insert.
Counted ==
    \A i \in Interfaces :
        Len(received[i]) =
            IF pc[i] = "insert" THEN taken[i] - bytes_read[i] ELSE taken[i]

(* Between receive() and the end of the insert exactly bytes_read bytes are *)
(* under way, whatever the other threads do.                                *)
LEMMA CountedInvariant == ASSUME SharedReceiveAssumption PROVE Spec => []Counted
<1> USE DEF SharedReceiveAssumption, TypeOK
<1>1. Init => Counted
      BY DEF Init, Counted
<1>2. TypeOK /\ Counted /\ [Next]_vars => Counted'
  <2> SUFFICES ASSUME TypeOK, Counted, [Next]_vars, NEW j \in Interfaces
               PROVE  Len(received'[j]) = IF pc'[j] = "insert"
                                          THEN taken'[j] - bytes_read'[j]
                                          ELSE taken'[j]
      BY DEF Counted
  <2> USE DEF Counted
  <2>1. ASSUME NEW i \in Interfaces, Arrive(i) 
        PROVE  UNCHANGED <<taken, bytes_read, pc, received>>
        BY <2>1 DEF Arrive
  <2>2. ASSUME NEW i \in Interfaces, NEW n \in 1..ReceiveSize, Receive(i, n)
        PROVE  Len(received'[j]) = IF pc'[j] = "insert"
                                   THEN taken'[j] - bytes_read'[j] ELSE taken'[j]
        BY <2>2 DEF Receive
  <2>3. ASSUME NEW i \in Interfaces, Insert(i)
        PROVE  Len(received'[j]) = IF pc'[j] = "insert"
                                   THEN taken'[j] - bytes_read'[j] ELSE taken'[j]
    <3> DEFINE new == SubSeq(temp_buffer, 1, bytes_read[i])
    <3>1. new \in Seq(Line \cup {Zero}) /\ Len(new) = bytes_read[i]
          BY InsertedBytes
    <3> HIDE DEF new
    <3>2. received' = [received EXCEPT ![i] = @ \o new]
          BY <2>3 DEF Insert, new
    <3>3. received[i] \in Seq(Line \cup {Zero})
          OBVIOUS
    <3>4. Len(received[i] \o new) = Len(received[i]) + Len(new)
          BY <3>1, <3>3, ConcatProperties, Zenon
    <3>5. received'[j] = IF j = i THEN received[i] \o new ELSE received[j]
          BY <3>2, <3>3
    <3>6. /\ taken'[j] = taken[j] /\ bytes_read'[j] = bytes_read[j]
          /\ pc[i] = "insert"
          /\ pc'[j] = IF j = i THEN "search" ELSE pc[j]
          BY <2>3 DEF Insert
    <3>7. taken[i] \in Int /\ bytes_read[i] \in Int
          OBVIOUS
    <3> QED BY <3>1, <3>4, <3>5, <3>6, <3>7
  <2>4. ASSUME NEW i \in Interfaces, Search(i)
        PROVE  Len(received'[j]) = IF pc'[j] = "insert"
                                   THEN taken'[j] - bytes_read'[j] ELSE taken'[j]
        BY <2>4 DEF Search
  <2> QED BY <2>1, <2>2, <2>3, <2>4 DEF Next, vars
<1> QED BY <1>1, <1>2, TypeCorrect, PTL DEF Spec

(* However many interfaces share temp_buffer, none gets more or fewer bytes *)
(* than its receive() calls returned: what goes wrong is whose bytes.       *)
THEOREM NoByteDroppedInvariant ==
    ASSUME SharedReceiveAssumption PROVE Spec => []NoByteDropped
<1>1. Counted => NoByteDropped
      BY DEF Counted, NoByteDropped
<1> QED BY <1>1, CountedInvariant, PTL

-----------------------------------------------------------------------------
\* The bytes about to be inserted are the next ones of the thread's own line.
Fresh ==
    \A i \in Interfaces : pc[i] = "insert" =>
        \A k \in 1..bytes_read[i] :
            temp_buffer[k] = <<i, taken[i] - bytes_read[i] + k>>

Own == \A i \in Interfaces :
          \A k \in 1..Len(received[i]) : received[i][k] = <<i, k>>

(* With a single interface the static buffer does no harm: its thread       *)
(* searches exactly the bytes of its own line, in order.                    *)
THEOREM OneInterfaceOwnBytes ==
    ASSUME SharedReceiveAssumption, \A i, j \in Interfaces : i = j
    PROVE  Spec => []OwnBytesInOrder
<1> USE DEF SharedReceiveAssumption, TypeOK
<1>1. Init => Fresh /\ Own
      BY DEF Init, Fresh, Own
<1>2. TypeOK /\ Counted /\ Fresh /\ Own /\ [Next]_vars => Fresh' /\ Own'
  <2> SUFFICES ASSUME TypeOK, Counted, Fresh, Own, [Next]_vars
               PROVE  Fresh' /\ Own'
      OBVIOUS
  <2>1. ASSUME NEW i \in Interfaces, Arrive(i) PROVE Fresh' /\ Own'
        BY <2>1 DEF Arrive, Fresh, Own
  <2>2. ASSUME NEW i \in Interfaces, NEW n \in 1..ReceiveSize, Receive(i, n)
        PROVE Fresh' /\ Own'
        BY <2>2 DEF Receive, Fresh, Own
  <2>3. ASSUME NEW i \in Interfaces, Insert(i) PROVE Fresh' /\ Own'
    <3> DEFINE new == SubSeq(temp_buffer, 1, bytes_read[i])
               old == received[i]
    <3>2. /\ new \in Seq(Line \cup {Zero})
          /\ Len(new) = bytes_read[i]
          /\ \A k \in 1..bytes_read[i] : new[k] = temp_buffer[k]
          BY InsertedBytes
    <3>3. old \in Seq(Line \cup {Zero}) /\ Len(old) = taken[i] - bytes_read[i]
          BY <2>3 DEF Insert, Counted
    <3> HIDE DEF new
    <3>4. received' = [received EXCEPT ![i] = old \o new]
          BY <2>3 DEF Insert, new
    <3>5. \A k \in 1..Len(old \o new) : (old \o new)[k] = <<i, k>>
      <4> TAKE k \in 1..Len(old \o new)
      <4>1. CASE k <= Len(old)
            BY <4>1, <3>2, <3>3 DEF Own
      <4>2. CASE k > Len(old)
        <5>1. (old \o new)[k] = new[k - Len(old)] /\ k - Len(old) \in 1..Len(new)
              BY <4>2, <3>2, <3>3
        <5>2. k - Len(old) \in 1..bytes_read[i]
              BY <5>1, <3>2
        <5>3. new[k - Len(old)] = <<i, taken[i] - bytes_read[i] + (k - Len(old))>>
              BY <5>2, <3>2, <2>3 DEF Insert, Fresh
        <5>4. taken[i] - bytes_read[i] + (k - Len(old)) = k
              BY <3>3
        <5> QED BY <5>1, <5>3, <5>4
      <4> QED BY <4>1, <4>2, <3>2, <3>3
    <3>6. Own' BY <3>4, <3>5 DEF Own
    <3>7. Fresh' BY <2>3 DEF Insert, Fresh
    <3> QED BY <3>6, <3>7
  <2>4. ASSUME NEW i \in Interfaces, Search(i) PROVE Fresh' /\ Own'
        BY <2>4 DEF Search, Fresh, Own
  <2>5. CASE UNCHANGED vars
        BY <2>5 DEF vars, Fresh, Own
  <2> QED BY <2>1, <2>2, <2>3, <2>4, <2>5 DEF Next
<1>3. TypeOK /\ Own => OwnBytesInOrder
  <2> SUFFICES ASSUME TypeOK, Own, NEW i \in Interfaces
               PROVE  received[i] = [k \in 1..Len(received[i]) |-> <<i, k>>]
      BY DEF OwnBytesInOrder
  <2>1. received[i] = [k \in 1..Len(received[i]) |-> received[i][k]]
        BY LenProperties
  <2> QED BY <2>1 DEF Own
<1> QED BY <1>1, <1>2, <1>3, TypeCorrect, CountedInvariant, PTL DEF Spec
=============================================================================
