-------------------------- MODULE AlgorithmsProofs --------------------------
(***************************************************************************)
(* Proofs about the pure algorithms of Algorithms: the invariants of its   *)
(* runs, for every input there is and every width of the encodings.        *)
(*                                                                         *)
(* The algorithms are folds and recursive functions, which TLA+ defines by *)
(* CHOOSE.  Each proof about one of them first shows that the function     *)
(* exists, by induction in the form of a least counterexample (WFMin of    *)
(* WellFoundedInduction), and then reasons about it step by step.          *)
(***************************************************************************)
EXTENDS Algorithms, WellFoundedInduction, SequenceTheorems, FiniteSetTheorems,
        TLAPS

-----------------------------------------------------------------------------
(* A set that holds 0, and n + 1 with every n, holds every natural number:  *)
(* there is no least one it lacks.                                          *)
LEMMA Induction ==
    ASSUME NEW S, 0 \in S, \A n \in Nat : n \in S => n + 1 \in S
    PROVE  Nat \subseteq S
<1> DEFINE T == Nat \ S
           R == OpToRel(<, Nat)
<1> SUFFICES ASSUME T # {} PROVE FALSE
    OBVIOUS
<1>1. PICK x \in T : \A y \in T : <<y, x>> \notin R
  <2>1. IsWellFoundedOn(R, Nat)
        BY NatLessThanWellFounded
  <2>2. T \subseteq Nat
        OBVIOUS
  <2> HIDE DEF T, R
  <2> QED BY <2>1, <2>2, WFMin
<1>2. x \in Nat /\ x \notin S /\ x # 0
      OBVIOUS
<1>3. x - 1 \in Nat /\ x - 1 < x /\ (x - 1) + 1 = x
      BY <1>2
<1>4. x - 1 \in S
  <2> SUFFICES ASSUME x - 1 \in T PROVE FALSE
      BY <1>3
  <2>1. <<x - 1, x>> \in R
        BY <1>2, <1>3 DEF OpToRel
  <2> QED BY <1>1, <2>1
<1> QED BY <1>2, <1>3, <1>4

(* The same between two bounds.                                             *)
LEMMA InductionUpTo ==
    ASSUME NEW a \in Int, NEW n \in Int, NEW S, a \in S,
           \A k \in a..n - 1 : k \in S => k + 1 \in S
    PROVE  a..n \subseteq S
<1> DEFINE T == {i \in Nat : a + i <= n => a + i \in S}
<1>1. 0 \in T
      OBVIOUS
<1>2. \A i \in Nat : i \in T => i + 1 \in T
  <2> SUFFICES ASSUME NEW i \in Nat, i \in T, a + (i + 1) <= n
               PROVE  a + (i + 1) \in S
      OBVIOUS
  <2>1. a + i \in a..n - 1 /\ a + i \in S
        OBVIOUS
  <2>2. (a + i) + 1 \in S
        BY <2>1
  <2> QED BY <2>2
<1>3. Nat \subseteq T
  <2> HIDE DEF T
  <2> QED BY <1>1, <1>2, Induction
<1> SUFFICES ASSUME NEW k \in a..n PROVE k \in S
    OBVIOUS
<1>4. k - a \in T
      BY <1>3
<1>5. a + (k - a) = k
      OBVIOUS
<1> QED BY <1>4, <1>5

-----------------------------------------------------------------------------
(* FoldLeft of the community modules.                                       *)

(* The largest member of a set of indices that holds the last one.          *)
LEMMA MaxOfSet ==
    ASSUME NEW k \in Nat, NEW s \in SUBSET (1..k), k \in s
    PROVE  Max(s) = k
<1>1. \A x \in s : (\A y \in s : x >= y) => x = k
      OBVIOUS
<1>2. \A y \in s : k >= y
      OBVIOUS
<1> QED BY <1>1, <1>2 DEF Max

(* The largest member of a finite set of indices is one of its members.     *)
LEMMA MaxIsMember ==
    ASSUME NEW n \in Nat, NEW s \in SUBSET (1..n), s # {}
    PROVE  Max(s) \in s
<1> DEFINE HasMax(t) == \E x \in t : \A y \in t : x >= y
           S == {k \in 0..n : \A t \in SUBSET (1..k) : t # {} => HasMax(t)}
<1>1. 0 \in S
  <2> HIDE DEF HasMax
  <2>1. \A t \in SUBSET (1..0) : t = {}
        OBVIOUS
  <2>2. \A t \in SUBSET (1..0) : t # {} => HasMax(t)
        BY <2>1
  <2>3. 0 \in 0..n
        OBVIOUS
  <2> QED BY <2>2, <2>3
<1>2. \A k \in 0..n - 1 : k \in S => k + 1 \in S
  <2> SUFFICES ASSUME NEW k \in 0..n - 1, k \in S,
                      NEW t \in SUBSET (1..k + 1), t # {}
               PROVE  HasMax(t)
    <3> HIDE DEF HasMax
    <3> QED OBVIOUS
  <2>1. CASE k + 1 \in t
        BY <2>1
  <2>2. CASE k + 1 \notin t
    <3>1. t \in SUBSET (1..k)
          BY <2>2
    <3> QED BY <3>1
  <2> QED BY <2>1, <2>2
<1>3. n \in S
  <2> HIDE DEF S
  <2>1. 0..n \subseteq S
        BY <1>1, <1>2, InductionUpTo
  <2> QED BY <2>1
<1>4. HasMax(s)
      BY <1>3
<1> QED BY <1>4 DEF Max

(* The function that a fold over 1..n computes, and that there is one.      *)
StepsOn(V, n) == [1..n -> [V -> V]]
IsFold(g, V, n, v, next) ==
    /\ g \in [SUBSET (1..n) -> V]
    /\ \A s \in SUBSET (1..n) :
           g[s] = IF s = {} THEN v ELSE next[Max(s)][g[s \ {Max(s)}]]

(* There is such a function for every base and every sequence of steps.     *)
LEMMA FoldExists ==
    ASSUME NEW V, NEW n \in Nat, NEW v \in V, NEW next \in StepsOn(V, n)
    PROVE  \E g : IsFold(g, V, n, v, next)
<1> DEFINE Is(g, k) == \A s \in SUBSET (1..k) :
               g[s] = IF s = {} THEN v ELSE next[Max(s)][g[s \ {Max(s)}]]
           S == {k \in 0..n : \E g \in [SUBSET (1..k) -> V] : Is(g, k)}
<1>1. 0 \in S
  <2>1. 1..0 = {}
        OBVIOUS
  <2>2. [s \in SUBSET (1..0) |-> v] \in [SUBSET (1..0) -> V]
        OBVIOUS
  <2>3. Is([s \in SUBSET (1..0) |-> v], 0)
        BY <2>1
  <2> HIDE DEF Is
  <2> QED BY <2>2, <2>3
<1> HIDE DEF Is
<1>2. \A k \in 0..n - 1 : k \in S => k + 1 \in S
  <2> SUFFICES ASSUME NEW k \in 0..n - 1, k \in S
               PROVE  \E g \in [SUBSET (1..k + 1) -> V] : Is(g, k + 1)
    <3>1. \A k \in 0..n - 1 : k + 1 \in 0..n
          OBVIOUS
    <3> QED BY <3>1
  <2>1. PICK g \in [SUBSET (1..k) -> V] : Is(g, k)
        OBVIOUS
  <2> DEFINE h == [s \in SUBSET (1..k + 1) |->
                      IF k + 1 \in s THEN next[k + 1][g[s \ {k + 1}]] ELSE g[s]]
  <2>2. \A s \in SUBSET (1..k + 1) : s \ {k + 1} \in SUBSET (1..k)
        OBVIOUS
  <2>3. k + 1 \in 1..n
        OBVIOUS
  <2>4. h \in [SUBSET (1..k + 1) -> V]
    <3> SUFFICES ASSUME NEW s \in SUBSET (1..k + 1) PROVE h[s] \in V
        OBVIOUS
    <3>1. CASE k + 1 \in s
      <4>1. g[s \ {k + 1}] \in V
            BY <2>2
      <4>2. next[k + 1] \in [V -> V]
            BY <2>3 DEF StepsOn
      <4>3. next[k + 1][g[s \ {k + 1}]] \in V
            BY <4>1, <4>2
      <4> QED BY <3>1, <4>3
    <3>2. CASE k + 1 \notin s
      <4>1. s = s \ {k + 1}
            BY <3>2
      <4>2. g[s] \in V
            BY <4>1, <2>2
      <4> QED BY <3>2, <4>2
    <3> QED BY <3>1, <3>2
  <2>5. Is(h, k + 1)
    <3> USE DEF Is
    <3> SUFFICES ASSUME NEW s \in SUBSET (1..k + 1)
                 PROVE  h[s] = IF s = {} THEN v ELSE next[Max(s)][h[s \ {Max(s)}]]
        OBVIOUS
    <3>1. CASE k + 1 \in s
      <4>1. Max(s) = k + 1
            BY <3>1, MaxOfSet
      <4>2. s \ {k + 1} \in SUBSET (1..k + 1) /\ k + 1 \notin s \ {k + 1}
            OBVIOUS
      <4>3. h[s \ {k + 1}] = g[s \ {k + 1}]
            BY <4>2
      <4>4. h[s] = next[k + 1][g[s \ {k + 1}]]
            BY <3>1
      <4> QED BY <3>1, <4>1, <4>3, <4>4
    <3>2. CASE k + 1 \notin s
      <4>1. s \in SUBSET (1..k) /\ h[s] = g[s]
            BY <3>2
      <4>2. s \ {Max(s)} \in SUBSET (1..k + 1) /\ k + 1 \notin s \ {Max(s)}
            BY <3>2
      <4>3. h[s \ {Max(s)}] = g[s \ {Max(s)}]
            BY <4>2
      <4>4. g[s] = IF s = {} THEN v ELSE next[Max(s)][g[s \ {Max(s)}]]
            BY <2>1, <4>1
      <4> QED BY <4>1, <4>3, <4>4
    <3> QED BY <3>1, <3>2
  <2> HIDE DEF h
  <2> QED BY <2>4, <2>5
<1>3. n \in S
  <2> HIDE DEF S
  <2>1. 0..n \subseteq S
        BY <1>1, <1>2, InductionUpTo
  <2> QED BY <2>1
<1> QED BY <1>3 DEF Is, IsFold

(* What such a fold passes through, from its base to its result.            *)
IsRun(f, V, n, v, next) ==
    /\ f \in [0..n -> V]
    /\ f[0] = v
    /\ \A k \in 1..n : f[k] = next[k][f[k - 1]]

(* The recursive function of a fold passes through a run of the steps.      *)
LEMMA FoldRuns ==
    ASSUME NEW V, NEW n \in Nat, NEW v \in V, NEW next \in StepsOn(V, n), NEW c,
           c[{}] = v,
           \A s \in SUBSET (1..n) : s # {} /\ c[s \ {Max(s)}] \in V =>
               c[s] = next[Max(s)][c[s \ {Max(s)}]]
    PROVE  \E f : IsRun(f, V, n, v, next) /\ f[n] = c[1..n]
<1> DEFINE f == [k \in 0..n |-> c[1..k]]
           S == {k \in 0..n : f[k] \in V}
<1>1. f[0] = v
  <2>1. 1..0 = {}
        OBVIOUS
  <2> QED BY <2>1
<1>2. ASSUME NEW k \in 1..n, f[k - 1] \in V
      PROVE  f[k] = next[k][f[k - 1]] /\ f[k] \in V
  <2>1. Max(1..k) = k
        BY MaxOfSet
  <2>2. (1..k) \ {k} = 1..k - 1 /\ 1..k # {} /\ 1..k \in SUBSET (1..n)
        OBVIOUS
  <2>3. f[k - 1] = c[1..k - 1] /\ f[k] = c[1..k]
        OBVIOUS
  <2>4. c[1..k] = next[k][c[1..k - 1]]
        BY <1>2, <2>1, <2>2, <2>3
  <2>5. next[k] \in [V -> V]
        BY DEF StepsOn
  <2> QED BY <1>2, <2>3, <2>4, <2>5
<1>3. 0 \in S
      BY <1>1
<1>4. ASSUME NEW k \in 0..n - 1, k \in S PROVE k + 1 \in S
  <2>1. k + 1 \in 1..n /\ k + 1 \in 0..n /\ (k + 1) - 1 = k
        OBVIOUS
  <2> HIDE DEF f
  <2>2. f[k + 1] \in V
        BY <1>2, <1>4, <2>1
  <2> QED BY <2>1, <2>2
<1>5. \A k \in 0..n : f[k] \in V
  <2> HIDE DEF f
  <2>1. 0..n \subseteq S
    <3> HIDE DEF S
    <3> QED BY <1>3, <1>4, InductionUpTo
  <2> QED BY <2>1
<1>6. \A k \in 1..n : f[k] = next[k][f[k - 1]]
  <2> HIDE DEF f
  <2>1. \A k \in 1..n : k - 1 \in 0..n
        OBVIOUS
  <2> QED BY <1>2, <1>5, <2>1
<1>7. f \in [0..n -> V] /\ f[n] = c[1..n]
      BY <1>5
<1> HIDE DEF f
<1> QED BY <1>1, <1>6, <1>7 DEF IsRun

-----------------------------------------------------------------------------
(* on_init of VescHardware: what marking the interfaces of a description    *)
(* finds (FoldLeft over MarkState, MarkCommand and MarkComponent).          *)

(* What ProcessorInterfaces holds while it marks names.                     *)
Marks == [ok : BOOLEAN, states : SUBSET state_interfaces_,
          commands : SUBSET command_interfaces_]

(* The groups have no interface in common, and each has one.                *)
LEMMA GroupsApart ==
    /\ \A x \in get_state_interface_groups : Named(x) # {}
    /\ \A x, y \in get_state_interface_groups : Named(x) \cap Named(y) # {} => x = y
<1>1. \A x \in get_state_interface_groups :
          \E n \in state_interfaces_ : x = <<n[1]>> /\ Len(x) = 1 /\ x[1] = n[1]
      BY DEF get_state_interface_groups
<1>2. \A x \in get_state_interface_groups : \A n \in Named(x) : n[1] = x[1]
      BY <1>1 DEF Named
<1>3. \A x \in get_state_interface_groups : Named(x) # {}
      BY <1>1 DEF Named
<1>4. ASSUME NEW x \in get_state_interface_groups, NEW y \in get_state_interface_groups,
             Named(x) \cap Named(y) # {}
      PROVE  x = y
  <2>1. x[1] = y[1]
        BY <1>2, <1>4
  <2>2. x = <<x[1]>> /\ y = <<y[1]>>
        BY <1>1
  <2> QED BY <2>1, <2>2
<1> QED BY <1>3, <1>4

(* One state interface marked: only a group nobody asked for is found.      *)
LEMMA MarkStateType ==
    ASSUME NEW m \in Marks, NEW name
    PROVE  /\ MarkState(m, name) \in Marks
           /\ MarkState(m, name).commands = m.commands
           /\ MarkState(m, name).ok <=>
                  /\ m.ok
                  /\ name \in get_state_interface_groups
                  /\ Named(name) \cap m.states = {}
           /\ MarkState(m, name).ok => MarkState(m, name).states = m.states \cup Named(name)
<1>1. Named(name) \subseteq state_interfaces_
      BY DEF Named
<1> QED BY <1>1 DEF MarkState, Marks

(* One command interface marked: only one nobody asked for is found.        *)
LEMMA MarkCommandType ==
    ASSUME NEW m \in Marks, NEW name
    PROVE  /\ MarkCommand(m, name) \in Marks
           /\ MarkCommand(m, name).states = m.states
           /\ MarkCommand(m, name).ok <=> m.ok /\ name \in command_interfaces_ \ m.commands
           /\ MarkCommand(m, name).ok => MarkCommand(m, name).commands = m.commands \cup {name}
BY DEF MarkCommand, Marks

(* What MarkState passes through.                                           *)
StatesRun(f, m, n, names) ==
    /\ f \in [0..n -> Marks]
    /\ f[0] = m
    /\ \A k \in 1..n : f[k] = MarkState(f[k - 1], names[k])
    /\ FoldLeft(MarkState, m, names) = f[n]

(* FoldLeft(MarkState, ...) is such a run.                                  *)
LEMMA StatesFold ==
    ASSUME NEW m \in Marks, NEW n \in Nat, NEW names, DOMAIN names = 1..n
    PROVE  \E f : StatesRun(f, m, n, names)
<1> DEFINE next == [k \in 1..n |-> [x \in Marks |-> MarkState(x, names[k])]]
           c == CHOOSE g : g = [s \in SUBSET (1..n) |->
                    IF s = {} THEN m ELSE MarkState(g[s \ {Max(s)}], names[Max(s)])]
<1>1. next \in StepsOn(Marks, n)
      BY MarkStateType DEF StepsOn
<1>2. PICK g : IsFold(g, Marks, n, m, next)
  <2> HIDE DEF next
  <2> QED BY <1>1, FoldExists
<1>3. g = [s \in SUBSET (1..n) |->
              IF s = {} THEN m ELSE MarkState(g[s \ {Max(s)}], names[Max(s)])]
  <2>1. ASSUME NEW s \in SUBSET (1..n), s # {}
        PROVE  g[s] = MarkState(g[s \ {Max(s)}], names[Max(s)])
    <3>1. Max(s) \in 1..n
          BY <2>1, MaxIsMember
    <3>2. g[s \ {Max(s)}] \in Marks
          BY <1>2 DEF IsFold
    <3>3. g[s] = next[Max(s)][g[s \ {Max(s)}]]
          BY <1>2, <2>1 DEF IsFold
    <3> QED BY <3>1, <3>2, <3>3
  <2>2. g[{}] = m
        BY <1>2 DEF IsFold
  <2> HIDE DEF next
  <2>3. g = [s \in SUBSET (1..n) |-> g[s]]
        BY <1>2 DEF IsFold
  <2> QED BY <2>1, <2>2, <2>3
<1>4. c = [s \in SUBSET (1..n) |->
              IF s = {} THEN m ELSE MarkState(c[s \ {Max(s)}], names[Max(s)])]
  <2> HIDE DEF next
  <2> QED BY <1>3
<1>5. FoldLeft(MarkState, m, names) = c[1..n]
      BY DEF FoldLeft, MapThenFoldSet
<1>6. ASSUME NEW s \in SUBSET (1..n), s # {}, c[s \ {Max(s)}] \in Marks
      PROVE  c[s] = next[Max(s)][c[s \ {Max(s)}]]
  <2>1. Max(s) \in 1..n
        BY <1>6, MaxIsMember
  <2>2. c[s] = MarkState(c[s \ {Max(s)}], names[Max(s)])
        BY <1>4, <1>6
  <2> HIDE DEF c
  <2> QED BY <1>6, <2>1, <2>2
<1>7. c[{}] = m
      BY <1>4
<1>8. PICK f : IsRun(f, Marks, n, m, next) /\ f[n] = c[1..n]
  <2> HIDE DEF next, c
  <2> QED BY <1>1, <1>6, <1>7, FoldRuns
<1>9. ASSUME NEW k \in 1..n PROVE f[k] = MarkState(f[k - 1], names[k])
  <2>1. f[k - 1] \in Marks /\ f[k] = next[k][f[k - 1]]
        BY <1>8 DEF IsRun
  <2> QED BY <2>1
<1> HIDE DEF next, c
<1>10. f \in [0..n -> Marks] /\ f[0] = m
       BY <1>8 DEF IsRun
<1> QED BY <1>5, <1>8, <1>9, <1>10 DEF StatesRun

(* What MarkCommand passes through.                                           *)
CommandsRun(f, m, n, names) ==
    /\ f \in [0..n -> Marks]
    /\ f[0] = m
    /\ \A k \in 1..n : f[k] = MarkCommand(f[k - 1], names[k])
    /\ FoldLeft(MarkCommand, m, names) = f[n]

(* FoldLeft(MarkCommand, ...) is such a run.                                *)
LEMMA CommandsFold ==
    ASSUME NEW m \in Marks, NEW n \in Nat, NEW names, DOMAIN names = 1..n
    PROVE  \E f : CommandsRun(f, m, n, names)
<1> DEFINE next == [k \in 1..n |-> [x \in Marks |-> MarkCommand(x, names[k])]]
           c == CHOOSE g : g = [s \in SUBSET (1..n) |->
                    IF s = {} THEN m ELSE MarkCommand(g[s \ {Max(s)}], names[Max(s)])]
<1>1. next \in StepsOn(Marks, n)
      BY MarkCommandType DEF StepsOn
<1>2. PICK g : IsFold(g, Marks, n, m, next)
  <2> HIDE DEF next
  <2> QED BY <1>1, FoldExists
<1>3. g = [s \in SUBSET (1..n) |->
              IF s = {} THEN m ELSE MarkCommand(g[s \ {Max(s)}], names[Max(s)])]
  <2>1. ASSUME NEW s \in SUBSET (1..n), s # {}
        PROVE  g[s] = MarkCommand(g[s \ {Max(s)}], names[Max(s)])
    <3>1. Max(s) \in 1..n
          BY <2>1, MaxIsMember
    <3>2. g[s \ {Max(s)}] \in Marks
          BY <1>2 DEF IsFold
    <3>3. g[s] = next[Max(s)][g[s \ {Max(s)}]]
          BY <1>2, <2>1 DEF IsFold
    <3> QED BY <3>1, <3>2, <3>3
  <2>2. g[{}] = m
        BY <1>2 DEF IsFold
  <2> HIDE DEF next
  <2>3. g = [s \in SUBSET (1..n) |-> g[s]]
        BY <1>2 DEF IsFold
  <2> QED BY <2>1, <2>2, <2>3
<1>4. c = [s \in SUBSET (1..n) |->
              IF s = {} THEN m ELSE MarkCommand(c[s \ {Max(s)}], names[Max(s)])]
  <2> HIDE DEF next
  <2> QED BY <1>3
<1>5. FoldLeft(MarkCommand, m, names) = c[1..n]
      BY DEF FoldLeft, MapThenFoldSet
<1>6. ASSUME NEW s \in SUBSET (1..n), s # {}, c[s \ {Max(s)}] \in Marks
      PROVE  c[s] = next[Max(s)][c[s \ {Max(s)}]]
  <2>1. Max(s) \in 1..n
        BY <1>6, MaxIsMember
  <2>2. c[s] = MarkCommand(c[s \ {Max(s)}], names[Max(s)])
        BY <1>4, <1>6
  <2> HIDE DEF c
  <2> QED BY <1>6, <2>1, <2>2
<1>7. c[{}] = m
      BY <1>4
<1>8. PICK f : IsRun(f, Marks, n, m, next) /\ f[n] = c[1..n]
  <2> HIDE DEF next, c
  <2> QED BY <1>1, <1>6, <1>7, FoldRuns
<1>9. ASSUME NEW k \in 1..n PROVE f[k] = MarkCommand(f[k - 1], names[k])
  <2>1. f[k - 1] \in Marks /\ f[k] = next[k][f[k - 1]]
        BY <1>8 DEF IsRun
  <2> QED BY <2>1
<1> HIDE DEF next, c
<1>10. f \in [0..n -> Marks] /\ f[0] = m
       BY <1>8 DEF IsRun
<1> QED BY <1>5, <1>8, <1>9, <1>10 DEF CommandsRun

(* All the state interfaces of a component are found exactly when each is a *)
(* group, no two are the same and none was marked before.                   *)
LEMMA MarkingStates ==
    ASSUME NEW m \in Marks, NEW names \in Seq(Seq(STRING))
    PROVE  LET r == FoldLeft(MarkState, m, names) IN
           /\ r \in Marks
           /\ r.commands = m.commands
           /\ r.ok <=>
                 /\ m.ok
                 /\ ToSet(names) \subseteq get_state_interface_groups
                 /\ IsInjective(names)
                 /\ \A name \in ToSet(names) : Named(name) \cap m.states = {}
           /\ r.ok => r.states = m.states \cup UNION {Named(name) : name \in ToSet(names)}
<1> DEFINE n == Len(names)
           Groups == get_state_interface_groups
<1>1. n \in Nat /\ DOMAIN names = 1..n
      BY LenProperties
<1> HIDE DEF n
<1>2. PICK f : StatesRun(f, m, n, names)
      BY <1>1, StatesFold
<1> USE <1>2 DEF StatesRun
<1> DEFINE Fine(i) == /\ names[i] \in Groups
                      /\ Named(names[i]) \cap m.states = {}
                      /\ \A j \in 1..i - 1 : names[j] # names[i]
           Asked(k) == UNION {Named(names[i]) : i \in 1..k}
           Good(k) == /\ f[k].commands = m.commands
                      /\ f[k].ok <=> m.ok /\ \A i \in 1..k : Fine(i)
                      /\ f[k].ok => f[k].states = m.states \cup Asked(k)
           S == {k \in 0..n : Good(k)}
<1>3. 0 \in S
  <2>1. 1..0 = {}
        OBVIOUS
  <2> QED BY <1>1, <1>2, <2>1 DEF Marks
<1>4. ASSUME NEW k \in 0..n - 1, k \in S PROVE k + 1 \in S
  <2> DEFINE x == names[k + 1]
  <2>1. k \in 0..n /\ k + 1 \in 1..n /\ k + 1 \in 0..n /\ (k + 1) - 1 = k
        BY <1>1
  <2>2. f[k + 1] = MarkState(f[k], x) /\ f[k] \in Marks
        BY <1>2, <2>1
  <2>3. Good(k)
        BY <1>4
  <2>4. /\ f[k + 1].commands = f[k].commands
        /\ f[k + 1].ok <=> f[k].ok /\ x \in Groups /\ Named(x) \cap f[k].states = {}
        /\ f[k + 1].ok => f[k + 1].states = f[k].states \cup Named(x)
        BY <2>2, MarkStateType
  <2>5. 1..k + 1 = (1..k) \cup {k + 1}
        BY <2>1
  <2>6. Asked(k + 1) = Asked(k) \cup Named(x)
        BY <2>5
  <2>7. ASSUME f[k].ok, x \in Groups
        PROVE  Named(x) \cap f[k].states = {} <=> Fine(k + 1)
    <3>1. \A i \in 1..k : names[i] \in Groups
          BY <2>3, <2>7
    <3>2. \A i \in 1..k : Named(x) \cap Named(names[i]) = {} <=> names[i] # x
          BY <2>7, <3>1, GroupsApart
    <3>3. f[k].states = m.states \cup Asked(k)
          BY <2>3, <2>7
    <3>4. Named(x) \cap f[k].states = {} <=>
              Named(x) \cap m.states = {} /\ \A i \in 1..k : names[i] # x
          BY <3>2, <3>3
    <3> QED BY <2>1, <2>7, <3>4
  <2>8. (\A i \in 1..k + 1 : Fine(i)) <=> (\A i \in 1..k : Fine(i)) /\ Fine(k + 1)
    <3> HIDE DEF Fine
    <3> QED BY <2>5
  <2>9. Fine(k + 1) => x \in Groups
        OBVIOUS
  <2> HIDE DEF Fine, Asked, x
  <2>10. f[k + 1].ok <=> m.ok /\ \A i \in 1..k + 1 : Fine(i)
         BY <2>3, <2>4, <2>7, <2>8, <2>9
  <2>11. f[k + 1].ok => f[k + 1].states = m.states \cup Asked(k + 1)
         BY <2>3, <2>4, <2>6
  <2> QED BY <2>1, <2>3, <2>4, <2>10, <2>11
<1>5. Good(n)
  <2> HIDE DEF Good
  <2>1. 0..n \subseteq S
    <3> HIDE DEF S
    <3>1. n \in Int /\ 0 \in Int
          BY <1>1
    <3> QED BY <1>3, <1>4, <3>1, InductionUpTo
  <2> QED BY <1>1, <2>1
<1>6. ToSet(names) = {names[i] : i \in 1..n}
      BY <1>1 DEF ToSet
<1>7. Asked(n) = UNION {Named(name) : name \in ToSet(names)}
      BY <1>6
<1>8. (\A i \in 1..n : Fine(i)) <=>
          /\ ToSet(names) \subseteq Groups
          /\ IsInjective(names)
          /\ \A name \in ToSet(names) : Named(name) \cap m.states = {}
  <2>1. (\A i \in 1..n : \A j \in 1..i - 1 : names[j] # names[i]) <=> IsInjective(names)
    <3>1. IsInjective(names) <=> \A a, b \in 1..n : names[a] = names[b] => a = b
          BY <1>1 DEF IsInjective
    <3> QED BY <1>1, <3>1
  <2> QED BY <1>6, <2>1
<1>9. f[n] \in Marks
      BY <1>1, <1>2
<1> HIDE DEF Fine, Asked, Groups
<1>10. Good(n) /\ FoldLeft(MarkState, m, names) = f[n]
       BY <1>2, <1>5
<1> QED BY <1>7, <1>8, <1>9, <1>10 DEF Groups

(* All its command interfaces are found exactly when each is one of the     *)
(* command interfaces, no two are the same and none was marked before.      *)
LEMMA MarkingCommands ==
    ASSUME NEW m \in Marks, NEW names \in Seq(Seq(STRING))
    PROVE  LET r == FoldLeft(MarkCommand, m, names) IN
           /\ r \in Marks
           /\ r.states = m.states
           /\ r.ok <=>
                 /\ m.ok
                 /\ ToSet(names) \subseteq command_interfaces_
                 /\ IsInjective(names)
                 /\ ToSet(names) \cap m.commands = {}
           /\ r.ok => r.commands = m.commands \cup ToSet(names)
<1> DEFINE n == Len(names)
<1>1. n \in Nat /\ DOMAIN names = 1..n
      BY LenProperties
<1> HIDE DEF n
<1>2. PICK f : CommandsRun(f, m, n, names)
      BY <1>1, CommandsFold
<1> USE <1>2 DEF CommandsRun
<1> DEFINE Fine(i) == /\ names[i] \in command_interfaces_ \ m.commands
                      /\ \A j \in 1..i - 1 : names[j] # names[i]
           Asked(k) == {names[i] : i \in 1..k}
           Good(k) == /\ f[k].states = m.states
                      /\ f[k].ok <=> m.ok /\ \A i \in 1..k : Fine(i)
                      /\ f[k].ok => f[k].commands = m.commands \cup Asked(k)
           S == {k \in 0..n : Good(k)}
<1>3. 0 \in S
  <2>1. 1..0 = {}
        OBVIOUS
  <2> QED BY <1>1, <1>2, <2>1 DEF Marks
<1>4. ASSUME NEW k \in 0..n - 1, k \in S PROVE k + 1 \in S
  <2> DEFINE x == names[k + 1]
  <2>1. k \in 0..n /\ k + 1 \in 1..n /\ k + 1 \in 0..n /\ (k + 1) - 1 = k
        BY <1>1
  <2>2. f[k + 1] = MarkCommand(f[k], x) /\ f[k] \in Marks
        BY <1>2, <2>1
  <2>3. Good(k)
        BY <1>4
  <2>4. /\ f[k + 1].states = f[k].states
        /\ f[k + 1].ok <=> f[k].ok /\ x \in command_interfaces_ \ f[k].commands
        /\ f[k + 1].ok => f[k + 1].commands = f[k].commands \cup {x}
        BY <2>2, MarkCommandType
  <2>5. 1..k + 1 = (1..k) \cup {k + 1}
        BY <2>1
  <2>6. Asked(k + 1) = Asked(k) \cup {x}
        BY <2>5
  <2>7. ASSUME f[k].ok
        PROVE  x \in command_interfaces_ \ f[k].commands <=> Fine(k + 1)
    <3>1. f[k].commands = m.commands \cup Asked(k)
          BY <2>3, <2>7
    <3> QED BY <2>1, <3>1
  <2>8. (\A i \in 1..k + 1 : Fine(i)) <=> (\A i \in 1..k : Fine(i)) /\ Fine(k + 1)
    <3> HIDE DEF Fine
    <3> QED BY <2>5
  <2> HIDE DEF Fine, Asked, x
  <2>9. f[k + 1].ok <=> m.ok /\ \A i \in 1..k + 1 : Fine(i)
        BY <2>3, <2>4, <2>7, <2>8
  <2>10. f[k + 1].ok => f[k + 1].commands = m.commands \cup Asked(k + 1)
         BY <2>3, <2>4, <2>6
  <2> QED BY <2>1, <2>3, <2>4, <2>9, <2>10
<1>5. Good(n)
  <2> HIDE DEF Good
  <2>1. 0..n \subseteq S
    <3> HIDE DEF S
    <3>1. n \in Int /\ 0 \in Int
          BY <1>1
    <3> QED BY <1>3, <1>4, <3>1, InductionUpTo
  <2> QED BY <1>1, <2>1
<1>6. ToSet(names) = Asked(n)
      BY <1>1 DEF ToSet
<1>7. (\A i \in 1..n : Fine(i)) <=>
          /\ ToSet(names) \subseteq command_interfaces_
          /\ IsInjective(names)
          /\ ToSet(names) \cap m.commands = {}
  <2>1. (\A i \in 1..n : \A j \in 1..i - 1 : names[j] # names[i]) <=> IsInjective(names)
    <3>1. IsInjective(names) <=> \A a, b \in 1..n : names[a] = names[b] => a = b
          BY <1>1 DEF IsInjective
    <3> QED BY <1>1, <3>1
  <2> QED BY <1>6, <2>1
<1>8. f[n] \in Marks
      BY <1>1, <1>2
<1> HIDE DEF Fine, Asked
<1>9. Good(n) /\ FoldLeft(MarkCommand, m, names) = f[n]
      BY <1>2, <1>5
<1> QED BY <1>6, <1>7, <1>8, <1>9

(* The names of a component are fit for it, and each is there once.         *)
Fit(c) ==
    /\ ToSet(c.states) \subseteq get_state_interface_groups
    /\ ToSet(c.commands) \subseteq command_interfaces_
    /\ IsInjective(c.states)
    /\ IsInjective(c.commands)

(* A component is found when its names are fit for it and nobody has them.  *)
LEMMA MarkingComponent ==
    ASSUME NEW m \in Marks, NEW c \in Component
    PROVE  LET r == MarkComponent(m, c) IN
           /\ r \in Marks
           /\ r.ok <=>
                 /\ m.ok
                 /\ Fit(c)
                 /\ States(c) \cap m.states = {}
                 /\ ToSet(c.commands) \cap m.commands = {}
           /\ r.ok => /\ r.states = m.states \cup States(c)
                      /\ r.commands = m.commands \cup ToSet(c.commands)
<1> DEFINE s == FoldLeft(MarkState, m, c.states)
           r == FoldLeft(MarkCommand, s, c.commands)
<1>1. c.states \in Seq(Seq(STRING)) /\ c.commands \in Seq(Seq(STRING))
      BY DEF Component
<1>2. /\ s \in Marks
      /\ s.commands = m.commands
      /\ s.ok <=>
            /\ m.ok
            /\ ToSet(c.states) \subseteq get_state_interface_groups
            /\ IsInjective(c.states)
            /\ \A name \in ToSet(c.states) : Named(name) \cap m.states = {}
      /\ s.ok => s.states = m.states \cup UNION {Named(name) : name \in ToSet(c.states)}
      BY <1>1, MarkingStates
<1> HIDE DEF s
<1>3. /\ r \in Marks
      /\ r.states = s.states
      /\ r.ok <=>
            /\ s.ok
            /\ ToSet(c.commands) \subseteq command_interfaces_
            /\ IsInjective(c.commands)
            /\ ToSet(c.commands) \cap s.commands = {}
      /\ r.ok => r.commands = s.commands \cup ToSet(c.commands)
      BY <1>1, <1>2, MarkingCommands
<1> HIDE DEF r
<1>4. r = MarkComponent(m, c)
      BY DEF MarkComponent, r, s
<1>5. States(c) \cap m.states = {} <=>
          \A name \in ToSet(c.states) : Named(name) \cap m.states = {}
      BY DEF States
<1>6. UNION {Named(name) : name \in ToSet(c.states)} = States(c)
      BY DEF States
<1> QED BY <1>2, <1>3, <1>4, <1>5, <1>6 DEF Fit

(* What MarkComponent passes through.                                       *)
ComponentsRun(f, m, n, cs) ==
    /\ f \in [0..n -> Marks]
    /\ f[0] = m
    /\ \A k \in 1..n : f[k] = MarkComponent(f[k - 1], cs[k])
    /\ FoldLeft(MarkComponent, m, cs) = f[n]

(* FoldLeft(MarkComponent, ...) is such a run.                              *)
LEMMA ComponentsFold ==
    ASSUME NEW m \in Marks, NEW n \in Nat, NEW cs \in [1..n -> Component]
    PROVE  \E f : ComponentsRun(f, m, n, cs)
<1> DEFINE next == [k \in 1..n |-> [x \in Marks |-> MarkComponent(x, cs[k])]]
           c == CHOOSE g : g = [s \in SUBSET (1..n) |->
                    IF s = {} THEN m ELSE MarkComponent(g[s \ {Max(s)}], cs[Max(s)])]
<1>1. next \in StepsOn(Marks, n)
      BY MarkingComponent DEF StepsOn
<1>2. PICK g : IsFold(g, Marks, n, m, next)
  <2> HIDE DEF next
  <2> QED BY <1>1, FoldExists
<1>3. g = [s \in SUBSET (1..n) |->
              IF s = {} THEN m ELSE MarkComponent(g[s \ {Max(s)}], cs[Max(s)])]
  <2>1. ASSUME NEW s \in SUBSET (1..n), s # {}
        PROVE  g[s] = MarkComponent(g[s \ {Max(s)}], cs[Max(s)])
    <3>1. Max(s) \in 1..n
          BY <2>1, MaxIsMember
    <3>2. g[s \ {Max(s)}] \in Marks
          BY <1>2 DEF IsFold
    <3>3. g[s] = next[Max(s)][g[s \ {Max(s)}]]
          BY <1>2, <2>1 DEF IsFold
    <3> QED BY <3>1, <3>2, <3>3
  <2>2. g[{}] = m
        BY <1>2 DEF IsFold
  <2> HIDE DEF next
  <2>3. g = [s \in SUBSET (1..n) |-> g[s]]
        BY <1>2 DEF IsFold
  <2> QED BY <2>1, <2>2, <2>3
<1>4. c = [s \in SUBSET (1..n) |->
              IF s = {} THEN m ELSE MarkComponent(c[s \ {Max(s)}], cs[Max(s)])]
  <2> HIDE DEF next
  <2> QED BY <1>3
<1>5. FoldLeft(MarkComponent, m, cs) = c[1..n]
      BY DEF FoldLeft, MapThenFoldSet
<1>6. ASSUME NEW s \in SUBSET (1..n), s # {}, c[s \ {Max(s)}] \in Marks
      PROVE  c[s] = next[Max(s)][c[s \ {Max(s)}]]
  <2>1. Max(s) \in 1..n
        BY <1>6, MaxIsMember
  <2>2. c[s] = MarkComponent(c[s \ {Max(s)}], cs[Max(s)])
        BY <1>4, <1>6
  <2> HIDE DEF c
  <2> QED BY <1>6, <2>1, <2>2
<1>7. c[{}] = m
      BY <1>4
<1>8. PICK f : IsRun(f, Marks, n, m, next) /\ f[n] = c[1..n]
  <2> HIDE DEF next, c
  <2> QED BY <1>1, <1>6, <1>7, FoldRuns, SMTT(60)
<1>9. ASSUME NEW k \in 1..n PROVE f[k] = MarkComponent(f[k - 1], cs[k])
  <2>1. f[k - 1] \in Marks /\ f[k] = next[k][f[k - 1]]
        BY <1>8 DEF IsRun
  <2> QED BY <2>1
<1> HIDE DEF next, c
<1>10. f \in [0..n -> Marks] /\ f[0] = m
       BY <1>8 DEF IsRun
<1> QED BY <1>5, <1>8, <1>9, <1>10 DEF ComponentsRun

(* All components are found exactly when each is fit and no two of them     *)
(* share an interface.                                                      *)
LEMMA MarkingAll ==
    ASSUME NEW n \in Nat, NEW cs \in [1..n -> Component]
    PROVE  FoldLeft(MarkComponent, NoMarks, cs).ok <=>
               /\ \A i \in 1..n : Fit(cs[i])
               /\ \A i, j \in 1..n : i # j => Disjoint(cs[i], cs[j])
<1> DEFINE Cmds(i) == ToSet(cs[i].commands)
           Sts(i) == States(cs[i])
<1>1. NoMarks \in Marks
      BY DEF NoMarks, Marks
<1>2. PICK f : ComponentsRun(f, NoMarks, n, cs)
      BY <1>1, ComponentsFold
<1> DEFINE Fine(i) == /\ Fit(cs[i])
                      /\ \A j \in 1..i - 1 : Disjoint(cs[i], cs[j])
           AskedS(k) == UNION {Sts(i) : i \in 1..k}
           AskedC(k) == UNION {Cmds(i) : i \in 1..k}
           Good(k) == /\ f[k].ok <=> \A i \in 1..k : Fine(i)
                      /\ f[k].ok => f[k].states = AskedS(k) /\ f[k].commands = AskedC(k)
           S == {k \in 0..n : Good(k)}
<1>3. 0 \in S
  <2>1. 1..0 = {}
        OBVIOUS
  <2>2. f[0].ok /\ f[0].states = {} /\ f[0].commands = {}
        BY <1>2 DEF NoMarks, ComponentsRun
  <2> QED BY <2>1, <2>2
<1>4. ASSUME NEW k \in 0..n - 1, k \in S PROVE k + 1 \in S
  <2> DEFINE c == cs[k + 1]
  <2>1. k \in 0..n /\ k + 1 \in 1..n /\ k + 1 \in 0..n /\ (k + 1) - 1 = k
        OBVIOUS
  <2>2. f[k + 1] = MarkComponent(f[k], c) /\ f[k] \in Marks /\ c \in Component
        BY <1>2, <2>1 DEF ComponentsRun
  <2>3. Good(k)
        BY <1>4
  <2> HIDE DEF c
  <2>4. /\ f[k + 1].ok <=> /\ f[k].ok
                           /\ Fit(c)
                           /\ States(c) \cap f[k].states = {}
                           /\ ToSet(c.commands) \cap f[k].commands = {}
        /\ f[k + 1].ok => /\ f[k + 1].states = f[k].states \cup States(c)
                          /\ f[k + 1].commands = f[k].commands \cup ToSet(c.commands)
    <3>1. LET r == MarkComponent(f[k], c) IN
          /\ r.ok <=> /\ f[k].ok
                     /\ Fit(c)
                     /\ States(c) \cap f[k].states = {}
                     /\ ToSet(c.commands) \cap f[k].commands = {}
          /\ r.ok => /\ r.states = f[k].states \cup States(c)
                    /\ r.commands = f[k].commands \cup ToSet(c.commands)
          BY <2>2, MarkingComponent
    <3> QED BY <2>2, <3>1
  <2>5. 1..k + 1 = (1..k) \cup {k + 1}
        BY <2>1
  <2>6. /\ AskedS(k + 1) = AskedS(k) \cup States(c)
        /\ AskedC(k + 1) = AskedC(k) \cup ToSet(c.commands)
        BY <2>5 DEF c
  <2>7. ASSUME f[k].ok
        PROVE  /\ Fit(c)
               /\ States(c) \cap f[k].states = {}
               /\ ToSet(c.commands) \cap f[k].commands = {}
               <=> Fine(k + 1)
    <3>1. f[k].states = AskedS(k) /\ f[k].commands = AskedC(k)
          BY <2>3, <2>7
    <3>2. States(c) \cap AskedS(k) = {} <=> \A j \in 1..k : States(c) \cap Sts(j) = {}
          OBVIOUS
    <3>3. ToSet(c.commands) \cap AskedC(k) = {}
              <=> \A j \in 1..k : ToSet(c.commands) \cap Cmds(j) = {}
          OBVIOUS
    <3>4. (\A j \in 1..k : Disjoint(c, cs[j])) <=>
              /\ \A j \in 1..k : States(c) \cap Sts(j) = {}
              /\ \A j \in 1..k : ToSet(c.commands) \cap Cmds(j) = {}
          BY DEF Disjoint
    <3>5. Fine(k + 1) <=> Fit(c) /\ \A j \in 1..k : Disjoint(c, cs[j])
          BY <2>1 DEF c
    <3> QED BY <3>1, <3>2, <3>3, <3>4, <3>5
  <2>8. (\A i \in 1..k + 1 : Fine(i)) <=> (\A i \in 1..k : Fine(i)) /\ Fine(k + 1)
    <3> HIDE DEF Fine
    <3> QED BY <2>5
  <2> HIDE DEF Fine, AskedS, AskedC
  <2> QED BY <2>1, <2>3, <2>4, <2>6, <2>7, <2>8
<1>5. Good(n)
  <2> HIDE DEF Good
  <2>1. 0..n \subseteq S
    <3> HIDE DEF S
    <3> QED BY <1>3, <1>4, InductionUpTo
  <2> QED BY <2>1
<1>6. (\A i \in 1..n : Fine(i)) <=>
          /\ \A i \in 1..n : Fit(cs[i])
          /\ \A i, j \in 1..n : i # j => Disjoint(cs[i], cs[j])
  <2>1. \A i, j \in 1..n : Disjoint(cs[i], cs[j]) <=> Disjoint(cs[j], cs[i])
        BY DEF Disjoint
  <2>2. \A i, j \in 1..n : i # j => i \in 1..j - 1 \/ j \in 1..i - 1
        OBVIOUS
  <2>3. \A i \in 1..n : \A j \in 1..i - 1 : j \in 1..n /\ i # j
        OBVIOUS
  <2> QED BY <2>1, <2>2, <2>3
<1>7. FoldLeft(MarkComponent, NoMarks, cs) = f[n]
      BY <1>2 DEF ComponentsRun
<1> HIDE DEF Fine, AskedS, AskedC
<1> QED BY <1>5, <1>6, <1>7

-----------------------------------------------------------------------------
(* What on_init accepts.                                                    *)

(* Any description at all.                                                  *)
Descr == [device : BOOLEAN, joints : Seq(Component), sensors : Seq(Component)]

(* Its joint comes first among its components.                              *)
LEMMA ComponentsOf ==
    ASSUME NEW d \in Descr
    PROVE  LET n == Len(Components(d)) IN
           /\ n \in Nat
           /\ Components(d) \in [1..n -> Component]
           /\ DOMAIN Components(d) = 1..n
           /\ n = Len(d.joints) + Len(d.sensors)
           /\ Len(d.joints) = 1 => n >= 1 /\ Components(d)[1] = d.joints[1]
<1> DEFINE joints == d.joints
           sensors == d.sensors
           cs == joints \o sensors
<1>1. joints \in Seq(Component) /\ sensors \in Seq(Component)
      BY DEF Descr
<1>2. Len(joints) \in Nat /\ Len(sensors) \in Nat
      BY <1>1, LenProperties
<1> HIDE DEF joints, sensors
<1>3. /\ cs \in Seq(Component)
      /\ Len(cs) = Len(joints) + Len(sensors)
      /\ Len(joints) = 1 => cs[1] = joints[1]
      BY <1>1, <1>2, ConcatProperties
<1>4. cs = Components(d)
      BY DEF Components, joints, sensors
<1> HIDE DEF cs
<1>5. Len(cs) \in Nat /\ cs \in [1..Len(cs) -> Component] /\ DOMAIN cs = 1..Len(cs)
      BY <1>3, LenProperties
<1>6. Len(joints) = 1 => Len(cs) >= 1
      BY <1>2, <1>3
<1> QED BY <1>3, <1>4, <1>5, <1>6 DEF joints, sensors

(* MarkingAll for the components of a description.                          *)
LEMMA Marking ==
    ASSUME NEW d \in Descr
    PROVE  FoldLeft(MarkComponent, NoMarks, Components(d)).ok <=>
               /\ \A i \in DOMAIN Components(d) : Fit(Components(d)[i])
               /\ \A i, j \in DOMAIN Components(d) :
                      i # j => Disjoint(Components(d)[i], Components(d)[j])
<1> DEFINE n == Len(Components(d))
<1>1. n \in Nat /\ Components(d) \in [1..n -> Component] /\ DOMAIN Components(d) = 1..n
      BY ComponentsOf
<1> HIDE DEF n
<1> DEFINE cs == Components(d)
<1>2. cs \in [1..n -> Component] /\ DOMAIN cs = 1..n
      BY <1>1
<1> HIDE DEF cs
<1>3. FoldLeft(MarkComponent, NoMarks, cs).ok <=>
               /\ \A i \in 1..n : Fit(cs[i])
               /\ \A i, j \in 1..n : i # j => Disjoint(cs[i], cs[j])
      BY <1>1, <1>2, MarkingAll
<1> QED BY <1>2, <1>3 DEF cs

(* What on_init has found out when it accepts a description.                *)
LEMMA AcceptedDescription ==
    ASSUME NEW d \in Descr, Accepted(d)
    PROVE  /\ Len(d.joints) = 1
           /\ \A i \in DOMAIN Components(d) :
                 /\ Fit(Components(d)[i])
                 /\ TRUE \in ValidMix(Components(d)[i], Tag(d, i))
           /\ \A i, j \in DOMAIN Components(d) :
                 i # j => Disjoint(Components(d)[i], Components(d)[j])
<1>1. /\ d.device /\ Len(d.joints) = 1
      /\ FoldLeft(MarkComponent, NoMarks, Components(d)).ok
      BY DEF Accepted, on_init
<1>2. \A i \in DOMAIN Components(d) : TRUE \in ValidMix(Components(d)[i], Tag(d, i))
      BY DEF Accepted, on_init
<1> QED BY <1>1, <1>2, Marking

(* No name is there twice in an accepted description.                       *)
LEMMA OnceIfAccepted ==
    ASSUME NEW d \in Descr, Accepted(d)
    PROVE  EveryInterfaceOnce(d)
BY AcceptedDescription DEF EveryInterfaceOnce, Fit

(* An interface that has a name of its own is asked for by it only.         *)
LEMMA OwnName ==
    ASSUME NEW c, ToSet(c.states) \subseteq get_state_interface_groups,
           NEW n \in RotorStates \cup {<<"servo">>}, n \in States(c)
    PROVE  n \in ToSet(c.states) /\ n \in state_interfaces_
<1>1. PICK name \in ToSet(c.states) : n \in Named(name)
      BY DEF States
<1>2. PICK m \in state_interfaces_ : name = <<m[1]>>
      BY <1>1 DEF get_state_interface_groups
<1>3. n = name \/ n[1] = name[1]
      BY <1>1 DEF Named
<1>4. n = <<n[1]>>
      BY DEF RotorStates
<1>5. n = name
      BY <1>2, <1>3, <1>4
<1> QED BY <1>1, <1>5 DEF state_interfaces_

(* An interface of the rotor is in the group of the rotor.                  *)
LEMMA RotorIsRotor ==
    ASSUME NEW n \in RotorStates \cup RotorCommands
    PROVE  ComponentGroup(n) = "ROTOR"
<1>1. n # <<"servo">>
      BY DEF RotorStates, RotorCommands
<1>2. Len(n) = 1
      BY DEF RotorStates, RotorCommands
<1>3. \A m \in ImuStates : Len(m) = 2
      BY DEF ImuStates
<1> QED BY <1>1, <1>2, <1>3 DEF ComponentGroup

(* A component that passes validate_mixing names one group of interfaces.   *)
LEMMA OneGroup ==
    ASSUME NEW c, NEW tag, TRUE \in ValidMix(c, tag)
    PROVE  \A m, n \in Seen(c) : ComponentGroup(m) = ComponentGroup(n)
<1> DEFINE G == {ComponentGroup(n) : n \in Seen(c)}
<1>1. Cardinality(G) <= 1
      BY DEF ValidMix
<1> SUFFICES ASSUME NEW m \in Seen(c), NEW n \in Seen(c),
                    ComponentGroup(m) # ComponentGroup(n)
             PROVE  FALSE
    OBVIOUS
<1> DEFINE P == {ComponentGroup(m), ComponentGroup(n)}
<1>2. IsFiniteSet({ComponentGroup(m)}) /\ Cardinality({ComponentGroup(m)}) = 1
      BY FS_Singleton
<1>3. /\ P = {ComponentGroup(m)} \cup {ComponentGroup(n)}
      /\ ComponentGroup(n) \notin {ComponentGroup(m)}
      OBVIOUS
<1>4. Cardinality(P) = 2
      BY <1>2, <1>3, FS_AddElement
<1>5. G \subseteq {"SERVO", "IMU", "ROTOR"}
      BY DEF ComponentGroup
<1>6. IsFiniteSet({"SERVO", "IMU", "ROTOR"})
  <2>1. IsFiniteSet({"SERVO"}) /\ IsFiniteSet({"SERVO"} \cup {"IMU"})
        BY FS_Singleton, FS_AddElement
  <2>2. IsFiniteSet(({"SERVO"} \cup {"IMU"}) \cup {"ROTOR"})
        BY <2>1, FS_AddElement
  <2>3. ({"SERVO"} \cup {"IMU"}) \cup {"ROTOR"} = {"SERVO", "IMU", "ROTOR"}
        OBVIOUS
  <2> QED BY <2>2, <2>3
<1>7. IsFiniteSet(G) /\ P \subseteq G
      BY <1>5, <1>6, FS_Subset
<1>8. Cardinality(P) <= Cardinality(G) /\ Cardinality(G) \in Nat
      BY <1>7, FS_Subset, FS_CardinalityType
<1> HIDE DEF P, G
<1> QED BY <1>1, <1>4, <1>8

(* The joint of an accepted description is a rotor or a servo, never both.  *)
LEMMA RotorOrServoIfAccepted ==
    ASSUME NEW d \in Descr, Accepted(d)
    PROVE  MotorOrServo(d)
<1> DEFINE joint == d.joints[1]
<1>1. Fit(joint) /\ \E tag : TRUE \in ValidMix(joint, tag)
  <2>1. 1 \in DOMAIN Components(d) /\ Components(d)[1] = joint
    <3>1. Len(d.joints) = 1
          BY AcceptedDescription
    <3>2. LET n == Len(Components(d)) IN
          /\ n \in Nat /\ n >= 1 /\ DOMAIN Components(d) = 1..n
          /\ Components(d)[1] = d.joints[1]
          BY <3>1, ComponentsOf
    <3> QED BY <3>2
  <2> HIDE DEF joint
  <2> QED BY <2>1, AcceptedDescription
<1> HIDE DEF joint
<1>2. \A m, n \in Seen(joint) : ComponentGroup(m) = ComponentGroup(n)
      BY <1>1, OneGroup
<1> SUFFICES ASSUME <<"servo">> \in States(joint) \cup ToSet(joint.commands),
                    NEW n, n \in (RotorStates \cap States(joint))
                                  \cup (RotorCommands \cap ToSet(joint.commands))
             PROVE  FALSE
    BY DEF MotorOrServo, joint
<1>3. <<"servo">> \in Seen(joint)
  <2>1. CASE <<"servo">> \in States(joint)
        BY <1>1, <2>1, OwnName DEF Fit, Seen
  <2>2. CASE <<"servo">> \in ToSet(joint.commands)
        BY <2>2 DEF Seen, command_interfaces_
  <2> QED BY <2>1, <2>2
<1>4. n \in Seen(joint)
  <2>1. CASE n \in RotorStates \cap States(joint)
        BY <1>1, <2>1, OwnName DEF Fit, Seen
  <2>2. CASE n \in RotorCommands \cap ToSet(joint.commands)
        BY <2>2 DEF Seen, command_interfaces_
  <2> QED BY <2>1, <2>2
<1>5. ComponentGroup(n) = "ROTOR" /\ ComponentGroup(<<"servo">>) = "SERVO"
      BY RotorIsRotor DEF ComponentGroup
<1> QED BY <1>2, <1>3, <1>4, <1>5

(* A component whose interfaces are all of the group of its tag passes.     *)
LEMMA MatchingMix ==
    ASSUME NEW c, NEW tag, MatchesTag(c, tag), Seen(c) # {}
    PROVE  ValidMix(c, tag) = {TRUE}
<1> DEFINE types == {ComponentType(n) : n \in Seen(c)}
           groups == {ComponentGroup(n) : n \in Seen(c)}
<1>1. Seen(c) \subseteq States(c) \cup ToSet(c.commands)
      BY DEF Seen, States, Named
<1>2. PICK n \in Seen(c) : TRUE
      OBVIOUS
<1>3. types = {tag}
      BY <1>1, <1>2 DEF MatchesTag
<1>4. groups = {ComponentGroup(n)}
      BY <1>1, <1>2 DEF MatchesTag
<1> HIDE DEF types, groups
<1>5. Cardinality(types) <= 1 /\ Cardinality(groups) <= 1
  <2>1. \A x : Cardinality({x}) = 1
        BY FS_Singleton
  <2>2. Cardinality(types) = 1 /\ Cardinality(groups) = 1
        BY <1>3, <1>4, <2>1
  <2> QED BY <2>2
<1>6. FirstType(types) = {tag}
      BY <1>3 DEF FirstType
<1>7. ValidMix(c, tag) = {/\ Cardinality(groups) <= 1
                          /\ Cardinality(types) <= 1
                          /\ first = tag : first \in FirstType(types)}
      BY DEF ValidMix, types, groups
<1>8. \A first \in {tag} : (/\ Cardinality(groups) <= 1
                            /\ Cardinality(types) <= 1
                            /\ first = tag) = TRUE
      BY <1>5
<1> QED BY <1>6, <1>7, <1>8, Zenon

(* A sensor without a fault has no interface that validate_mixing finds:    *)
(* the type it compares is that of no interface.                            *)
LEMMA SensorMix ==
    ASSUME NEW c, ToSet(c.states) \subseteq get_state_interface_groups,
           ToSet(c.commands) \subseteq command_interfaces_, MatchesTag(c, "SENSOR")
    PROVE  ValidMix(c, "SENSOR") = {TRUE, FALSE}
<1>1. \A n : ComponentType(n) = "SENSOR" => n \in ImuStates
      BY DEF ComponentType
<1>2. \A n \in ImuStates : Len(n) = 2
      BY DEF ImuStates
<1>3. \A n \in get_state_interface_groups \cup command_interfaces_ : Len(n) = 1
      BY DEF get_state_interface_groups, command_interfaces_, RotorCommands
<1>4. Seen(c) \subseteq States(c) \cup ToSet(c.commands)
      BY DEF Seen, States, Named
<1>5. Seen(c) \subseteq get_state_interface_groups \cup command_interfaces_
      BY DEF Seen
<1>6. \A n \in Seen(c) : FALSE
      BY <1>1, <1>2, <1>3, <1>4, <1>5 DEF MatchesTag
<1> DEFINE types == {ComponentType(n) : n \in Seen(c)}
           groups == {ComponentGroup(n) : n \in Seen(c)}
<1>7. types = {} /\ groups = {}
      BY <1>6
<1>8. ValidMix(c, "SENSOR") = {/\ Cardinality(groups) <= 1
                               /\ Cardinality(types) <= 1
                               /\ first = "SENSOR" : first \in FirstType(types)}
      BY DEF ValidMix
<1> HIDE DEF types, groups
<1>9. Cardinality(types) <= 1 /\ Cardinality(groups) <= 1
      BY <1>7, FS_EmptySet
<1>10. FirstType(types) = {"JOINT", "SENSOR", "neither"}
      BY <1>7 DEF FirstType
<1>11. \A first : (/\ Cardinality(groups) <= 1
                   /\ Cardinality(types) <= 1
                   /\ first = "SENSOR") = (first = "SENSOR")
      BY <1>9
<1>12. ValidMix(c, "SENSOR") = {first = "SENSOR" : first \in {"JOINT", "SENSOR", "neither"}}
      BY <1>8, <1>10, <1>11, Zenon
<1>13. /\ ("JOINT" = "SENSOR") = FALSE /\ ("neither" = "SENSOR") = FALSE
       /\ ("SENSOR" = "SENSOR") = TRUE
      OBVIOUS
<1> QED BY <1>12, <1>13, Zenon

(* on_init has nothing to object to in a faultless joint, and may object to *)
(* any sensor.                                                              *)
LEMMA AcceptedIfFaultless ==
    ASSUME NEW d \in Descr, Faultless(d)
    PROVE  on_init(d) = IF d.sensors = <<>> THEN {"SUCCESS"} ELSE {"SUCCESS", "ERROR"}
<1>1. \A i \in DOMAIN Components(d) : Fit(Components(d)[i])
      BY DEF Faultless, EveryInterfaceOnce, Fit
<1>2. \A i, j \in DOMAIN Components(d) :
          i # j => Disjoint(Components(d)[i], Components(d)[j])
      BY DEF Faultless, EveryInterfaceOnce
<1>3. FoldLeft(MarkComponent, NoMarks, Components(d)).ok
      BY <1>1, <1>2, Marking
<1>4. d.device /\ Len(d.joints) = 1 /\ Seen(d.joints[1]) # {}
      BY DEF Faultless
<1> DEFINE n == Len(Components(d))
<1>5. /\ n \in Nat /\ n = 1 + Len(d.sensors)
      /\ DOMAIN Components(d) = 1..n
      /\ Components(d)[1] = d.joints[1]
      /\ Len(d.sensors) \in Nat /\ (Len(d.sensors) = 0 <=> d.sensors = <<>>)
  <2>1. d.sensors \in Seq(Component)
        BY DEF Descr
  <2>2. Len(d.sensors) \in Nat /\ (Len(d.sensors) = 0 <=> d.sensors = <<>>)
        BY <2>1, EmptySeq, LenProperties
  <2> QED BY <1>4, <2>2, ComponentsOf
<1> HIDE DEF n
<1>6. ValidMix(Components(d)[1], Tag(d, 1)) = {TRUE}
  <2>1. MatchesTag(Components(d)[1], Tag(d, 1))
        BY <1>5 DEF Faultless
  <2> QED BY <1>4, <1>5, <2>1, MatchingMix
<1>7. \A i \in 2..n : ValidMix(Components(d)[i], Tag(d, i)) = {TRUE, FALSE}
  <2> SUFFICES ASSUME NEW i \in 2..n
               PROVE  ValidMix(Components(d)[i], Tag(d, i)) = {TRUE, FALSE}
      OBVIOUS
  <2>1. i \in DOMAIN Components(d) /\ i > 1
        BY <1>5
  <2>2. Tag(d, i) = "SENSOR"
        BY <1>4, <2>1 DEF Tag
  <2>3. /\ ToSet(Components(d)[i].states) \subseteq get_state_interface_groups
        /\ ToSet(Components(d)[i].commands) \subseteq command_interfaces_
        /\ MatchesTag(Components(d)[i], "SENSOR")
        BY <2>1, <2>2 DEF Faultless
  <2> QED BY <2>2, <2>3, SensorMix
<1> DEFINE mix(i) == ValidMix(Components(d)[i], Tag(d, i))
           answers == {r \in {"SUCCESS", "ERROR"} :
                          IF r = "SUCCESS" THEN \A i \in DOMAIN Components(d) : TRUE \in mix(i)
                          ELSE \E i \in DOMAIN Components(d) : FALSE \in mix(i)}
<1>8. on_init(d) = answers
      BY <1>3, <1>4 DEF on_init
<1>9. mix(1) = {TRUE} /\ \A i \in 2..n : mix(i) = {TRUE, FALSE}
      BY <1>6, <1>7
<1> HIDE DEF mix
<1>10. \A i \in 1..n : i = 1 \/ i \in 2..n
      BY <1>5
<1>11. \A i \in DOMAIN Components(d) : TRUE \in mix(i)
      BY <1>5, <1>9, <1>10
<1>12. CASE d.sensors = <<>>
  <2>1. \A i \in DOMAIN Components(d) : i = 1
        BY <1>5, <1>12
  <2>2. \A i \in DOMAIN Components(d) : FALSE \notin mix(i)
        BY <1>9, <2>1
  <2> QED BY <1>8, <1>11, <1>12, <2>2
<1>13. CASE d.sensors # <<>>
  <2>1. 2 \in DOMAIN Components(d) /\ 2 \in 2..n
        BY <1>5, <1>13
  <2>2. FALSE \in mix(2)
        BY <1>9, <2>1
  <2> QED BY <1>8, <1>11, <1>13, <2>1, <2>2
<1> QED BY <1>12, <1>13

-----------------------------------------------------------------------------
(* The limits of the topics, and the type of the input.                     *)

(* A limit from the parameters lies in the range the limit is for.          *)
LEMMA FeasibleIsInRange ==
    ASSUME NEW p \in Optional, NEW range \in Ranges
    PROVE  LET v == Feasible(declare_parameter(p), range[1], range[2]) IN
           v \in Double /\ IsFeasible(range[1], v, range[2])
<1> DEFINE low == range[1]
           high == range[2]
<1>1. low \in Bounds /\ high \in Bounds /\ (low # None /\ high # None => low <= high)
      BY TopicAssumption
<1> HIDE DEF low, high
<1>2. declare_parameter(p) \in Double
      BY DEF declare_parameter, Optional, Double
<1>3. /\ Feasible(declare_parameter(p), low, high) \in Double
      /\ IsFeasible(low, Feasible(declare_parameter(p), low, high), high)
      BY <1>1, <1>2, CommandLimitAssumption DEF Feasible, IsFeasible, Less, Double, Bounds
<1> QED BY <1>3 DEF low, high

(* The two limits of a topic are in order, and within that range.           *)
LEMMA TopicLimitsAreSound ==
    ASSUME NEW t \in Topics
    PROVE  /\ ~Less(TopicLimits(t).upper, TopicLimits(t).lower)
           /\ IsFeasible(t.range[1], TopicLimits(t).lower, t.range[2])
           /\ IsFeasible(t.range[1], TopicLimits(t).upper, t.range[2])
<1> DEFINE a == Feasible(declare_parameter(t.min), t.range[1], t.range[2])
           b == Feasible(declare_parameter(t.max), t.range[1], t.range[2])
<1>1. /\ a \in Double /\ IsFeasible(t.range[1], a, t.range[2])
      /\ b \in Double /\ IsFeasible(t.range[1], b, t.range[2])
      BY FeasibleIsInRange, TopicAssumption DEF Topics
<1>2. TopicLimits(t) = InOrder(a, b)
      BY DEF TopicLimits, Limits
<1> HIDE DEF a, b
<1>3. Less(b, a) => ~Less(a, b)
      BY <1>1, CommandLimitAssumption DEF Less, Double
<1> QED BY <1>1, <1>2, <1>3 DEF InOrder

(* Every action chooses an input of the type its operation takes.           *)
LEMMA TypeIsKept == TypeOK /\ [Next]_input => TypeOK'
<1> SUFFICES ASSUME [Next]_input, TypeOK PROVE TypeOK'
    OBVIOUS
<1>1. CASE Topic
      BY <1>1 DEF Topic, TypeOK
<1>2. CASE Command
      BY <1>2 DEF Command, TypeOK
<1>3. CASE Values
      BY <1>3 DEF Values, TypeOK
<1>4. CASE Imu
      BY <1>4 DEF Imu, TypeOK
<1>5. CASE Float
      BY <1>5 DEF Float, TypeOK
<1>6. CASE Version
      BY <1>6 DEF Version, TypeOK
<1>7. CASE Description
      BY <1>7 DEF Description, TypeOK
<1>8. CASE NextInput
      BY <1>8 DEF NextInput, TypeOK
<1>9. CASE UNCHANGED input
      BY <1>9 DEF TypeOK
<1> QED BY <1>1, <1>2, <1>3, <1>4, <1>5, <1>6, <1>7, <1>8, <1>9 DEF Next

(* Whatever the constants are, input is an input of one of the operations.  *)
THEOREM InputTypeCorrect == Spec => []TypeOK
<1>1. Init => TypeOK
      BY DEF Init, TypeOK
<1> QED BY <1>1, TypeIsKept, PTL DEF Spec

(* What input is, by its kind.                                              *)
LEMMA Inputs ==
    ASSUME TypeOK
    PROVE  /\ input.kind = "topic" => input.topic \in Topics
           /\ input.kind = "command" => input.name \in Commands /\ input.x \in Doubles
           /\ input.kind = "values" => input.values \in Telemetry
           /\ input.kind = "imu" => input.mask \in Masks /\ input.words \in ImuData
           /\ input.kind = "float" => input.word \in Words
           /\ input.kind = "version" =>
                  input.name \in Names /\ input.uuid \in Uuids /\ input.paired \in {0, 1}
           /\ input.kind = "description" => input.description \in Descriptions
BY DEF TypeOK, Nothing

(* The limits the driver applies to a topic (vesc_driver.cpp, CommandLimit) *)
(* are in order and feasible, whichever of the two parameters are set and   *)
(* whatever they are set to.                                                *)
THEOREM TopicsAreLimited == Spec => []LimitsSound
<1>1. TypeOK => LimitsSound
      BY Inputs, TopicLimitsAreSound DEF LimitsSound
<1> QED BY <1>1, InputTypeCorrect, PTL

-----------------------------------------------------------------------------
(* What on_init accepts, for every description.                             *)

(* However an accepted description is built, no name is there twice in it    *)
(* and no interface belongs to two components: AcceptedOnce.                 *)
THEOREM InterfacesAreAcceptedOnce == Spec => []AcceptedOnce
<1>1. TypeOK => AcceptedOnce
      BY Inputs, OnceIfAccepted, DescriptionAssumption DEF AcceptedOnce, Descr
<1> QED BY <1>1, InputTypeCorrect, PTL

(* on_init accepts no joint that mixes the interfaces of the motor with     *)
(* those of the servo (vesc_hardware.cpp, on_init).                         *)
THEOREM AcceptedJointIsOneDevice == Spec => []RotorOrServo
<1>1. TypeOK => RotorOrServo
      BY Inputs, RotorOrServoIfAccepted, DescriptionAssumption DEF RotorOrServo, Descr
<1> QED BY <1>1, InputTypeCorrect, PTL

(* on_init returns SUCCESS for every joint without a fault, in whatever     *)
(* order it names its interfaces.  With sensors, however many and without   *)
(* any fault, it may return SUCCESS or ERROR: validate_mixing compares the  *)
(* type of each with the first element of an empty set.                     *)
THEOREM FaultlessIsAccepted == Spec => []ValidIsAccepted
<1>1. TypeOK => ValidIsAccepted
      BY Inputs, AcceptedIfFaultless, DescriptionAssumption DEF ValidIsAccepted, Descr
<1> QED BY <1>1, InputTypeCorrect, PTL

(* The divisors.                                                            *)
Positive == Nat \ {0}

-----------------------------------------------------------------------------
(* Division.                                                                *)

(* What div and % mean.                                                     *)
LEMMA QuotientAndRest ==
    ASSUME NEW a \in Int, NEW b \in Positive
    PROVE  /\ a \div b \in Int /\ a % b \in Int
           /\ a = b * (a \div b) + (a % b)
           /\ 0 <= a % b /\ a % b < b
BY DEF Positive

(* A product of divisors is one.                                            *)
LEMMA ProductIsPositive ==
    ASSUME NEW b \in Positive, NEW c \in Positive
    PROVE  b * c \in Positive
BY DEF Positive

(* A multiple of b that is not 0 is at least b away from it.                *)
LEMMA Multiples ==
    ASSUME NEW b \in Positive, NEW k \in Int, k >= 1
    PROVE  b * k >= b
<1>1. b * k = b + b * (k - 1) /\ b * (k - 1) >= 0
      BY DEF Positive
<1> QED BY <1>1 DEF Positive

(* The quotient is the only one with a rest below the divisor.              *)
LEMMA QuotientIsUnique ==
    ASSUME NEW a \in Int, NEW b \in Positive, NEW q \in Int, NEW r \in Int,
           a = b * q + r, 0 <= r, r < b
    PROVE  a \div b = q /\ a % b = r
<1> DEFINE p == a \div b
           s == a % b
<1>1. /\ p \in Int /\ s \in Int /\ 0 <= s /\ s < b
      /\ a = b * p + s
      BY QuotientAndRest
<1> HIDE DEF p, s
<1>2. b * (p - q) = r - s /\ b * (q - p) = s - r
      BY <1>1 DEF Positive
<1>3. ~(p - q >= 1)
      BY <1>1, <1>2, Multiples DEF Positive
<1>4. ~(q - p >= 1)
      BY <1>1, <1>2, Multiples DEF Positive
<1>5. p = q
      BY <1>1, <1>3, <1>4
<1>6. s = r
      BY <1>1, <1>5 DEF Positive
<1> QED BY <1>5, <1>6 DEF p, s

(* Dividing twice is dividing by the product.                               *)
LEMMA QuotientOfQuotient ==
    ASSUME NEW a \in Int, NEW b \in Positive, NEW c \in Positive
    PROVE  a \div (b * c) = (a \div b) \div c
<1> DEFINE q == a \div b
           r == a % b
           p == q \div c
           s == q % c
<1>1. q \in Int /\ r \in Int /\ a = b * q + r /\ 0 <= r /\ r < b
      BY QuotientAndRest
<1>2. p \in Int /\ s \in Int /\ q = c * p + s /\ 0 <= s /\ s < c
      BY <1>1, QuotientAndRest
<1> HIDE DEF q, r, p, s
<1>3. a = (b * c) * p + (b * s + r)
  <2>1. b * (c * p + s) = (b * c) * p + b * s
        BY <1>2 DEF Positive
  <2>2. b * s \in Int /\ (b * c) * p \in Int
        BY <1>2 DEF Positive
  <2> QED BY <1>1, <1>2, <2>1, <2>2
<1>4. b * s + r \in Int /\ 0 <= b * s + r /\ b * s + r < b * c
  <2>1. b * s \in Int /\ 0 <= b * s
        BY <1>2 DEF Positive
  <2>2. b * (c - s) >= b
        BY <1>2, Multiples DEF Positive
  <2>3. b * (c - s) = b * c - b * s
        BY <1>2 DEF Positive
  <2> QED BY <1>1, <2>1, <2>2, <2>3 DEF Positive
<1>5. b * c \in Positive
      BY ProductIsPositive
<1>6. a \div (b * c) = p
      BY <1>2, <1>3, <1>4, <1>5, QuotientIsUnique
<1> QED BY <1>6 DEF p, q

-----------------------------------------------------------------------------
(* The powers of Base that the encodings divide by.                         *)
LEMMA BaseIsPositive ==
    /\ Base \in Positive
    /\ Base * Base \in Positive
    /\ Base * Base * Base \in Positive
    /\ Base * Base * Base * Base \in Positive
<1>1. Base \in Positive
      BY CodecAssumption DEF Positive
<1> QED BY <1>1, ProductIsPositive

(* The two halves of the unsigned integers are those of the signed ones.    *)
LEMMA SignedAndUnsigned ==
    ASSUME NEW m \in Positive, NEW v \in -(m \div 2)..m \div 2 - 1
    PROVE  /\ v % m \in 0..m - 1
           /\ v % m = IF v >= 0 THEN v ELSE v + m
           /\ v % m \in -(m \div 2)..m \div 2 - 1 <=> v >= 0
<1>1. /\ m \div 2 \in Int /\ 0 <= m \div 2 /\ m \div 2 <= m - m \div 2
      /\ m \div 2 - 1 < m
      BY DEF Positive
<1>2. v \in Int /\ m \in Int /\ m >= 1
      BY <1>1 DEF Positive
<1>3. CASE v >= 0
  <2>1. v = m * 0 + v /\ v < m
        BY <1>1, <1>2, <1>3
  <2>2. v % m = v
        BY <2>1, <1>2, <1>3, QuotientIsUnique
  <2> QED BY <2>1, <2>2, <1>1, <1>2, <1>3
<1>4. CASE v < 0
  <2>1. v = m * (-1) + (v + m) /\ 0 <= v + m /\ v + m < m
        BY <1>1, <1>2, <1>4
  <2>2. v % m = v + m
        BY <2>1, <1>2, <1>4, QuotientIsUnique
  <2> QED BY <2>1, <2>2, <1>1, <1>2, <1>4
<1> QED BY <1>2, <1>3, <1>4

(* The digits of an unsigned integer add up to it.                          *)
LEMMA TwoDigits ==
    ASSUME NEW u \in Int
    PROVE  Base * (u \div Base) + (u % Base) = u
BY BaseIsPositive, QuotientAndRest

(* A number is the sum of its four digits to Base.                          *)
LEMMA FourDigits ==
    ASSUME NEW u \in Int
    PROVE  Base * Base * Base * (u \div (Base * Base * Base))
              + Base * Base * ((u \div (Base * Base)) % Base)
              + Base * ((u \div Base) % Base) + (u % Base) = u
<1> DEFINE q1 == u \div Base
           q2 == q1 \div Base
           q3 == q2 \div Base
           r0 == u % Base
           r1 == q1 % Base
           r2 == q2 % Base
<1>1. q1 \in Int /\ r0 \in Int /\ u = Base * q1 + r0
      BY BaseIsPositive, QuotientAndRest
<1>2. q2 \in Int /\ r1 \in Int /\ q1 = Base * q2 + r1
      BY <1>1, BaseIsPositive, QuotientAndRest
<1>3. q3 \in Int /\ r2 \in Int /\ q2 = Base * q3 + r2
      BY <1>2, BaseIsPositive, QuotientAndRest
<1>4. u \div (Base * Base) = q2
      BY BaseIsPositive, QuotientOfQuotient
<1>5. u \div (Base * Base * Base) = q3
      BY <1>4, BaseIsPositive, QuotientOfQuotient
<1> HIDE DEF q1, q2, q3, r0, r1, r2
<1>6. Base * Base * Base * q3 + Base * Base * r2 + Base * r1 + r0 = u
  <2>1. Base \in Int
        BY BaseIsPositive DEF Positive
  <2>2. Base * q2 = Base * Base * q3 + Base * r2
        BY <2>1, <1>3
  <2>3. Base * Base * q2 = Base * Base * Base * q3 + Base * Base * r2
        BY <2>1, <1>3
  <2>4. Base * q1 = Base * Base * q2 + Base * r1
        BY <2>1, <1>2, <1>3
  <2>5. /\ Base * Base * Base * q3 \in Int /\ Base * Base * r2 \in Int /\ Base * r1 \in Int
        /\ Base * Base * q2 \in Int /\ Base * q1 \in Int
        BY <2>1, <1>1, <1>2, <1>3
  <2> QED BY <1>1, <2>3, <2>4, <2>5
<1> QED BY <1>4, <1>5, <1>6 DEF q1, q2, r0, r1, r2

-----------------------------------------------------------------------------
(* The bytes of a number, and the number behind one byte.                   *)
LEMMA PutTwo ==
    ASSUME NEW v
    PROVE  LET u == v % Modulus(2) IN PutInt(v, 2) = <<u \div Base, u % Base>>
BY DEF PutInt

(* The four bytes of a number.                                              *)
LEMMA PutFour ==
    ASSUME NEW v
    PROVE  LET u == v % Modulus(4) IN
           PutInt(v, 4) = <<u \div (Base * Base * Base), (u \div (Base * Base)) % Base,
                            (u \div Base) % Base, u % Base>>
BY DEF PutInt

(* The number that two bytes behind an id hold.                             *)
LEMMA GetTwo ==
    ASSUME NEW id, NEW a, NEW b
    PROVE  LET p == <<id>> \o <<a, b>> IN
           Len(p) = 3 /\ GetUnsigned(p, 1, 2) = Base * a + b
<1> DEFINE p == <<id>> \o <<a, b>>
<1>1. Len(p) = 3 /\ p[2] = a /\ p[3] = b
      OBVIOUS
<1> HIDE DEF p
<1>2. GetUnsigned(p, 1, 2) = Base * p[2] + p[3]
      BY DEF GetUnsigned
<1> QED BY <1>1, <1>2 DEF p

(* The number that four bytes behind an id hold.                            *)
LEMMA GetFour ==
    ASSUME NEW id, NEW a, NEW b, NEW c, NEW d
    PROVE  LET p == <<id>> \o <<a, b, c, d>> IN
           /\ Len(p) = 5
           /\ GetUnsigned(p, 1, 4) = Base * Base * Base * a + Base * Base * b + Base * c + d
<1> DEFINE p == <<id>> \o <<a, b, c, d>>
<1>1. Len(p) = 5 /\ p[2] = a /\ p[3] = b /\ p[4] = c /\ p[5] = d
      OBVIOUS
<1> HIDE DEF p
<1>2. GetUnsigned(p, 1, 4)
          = Base * Base * Base * p[2] + Base * Base * p[3] + Base * p[4] + p[5]
      BY DEF GetUnsigned
<1> QED BY <1>1, <1>2 DEF p

(* What is read of a number that was put behind `id` is that number, and it *)
(* has taken as many bytes as it is wide (vesc_packet.cpp:417-525).         *)
LEMMA ReadBack ==
    ASSUME NEW width \in {2, 4}, NEW v \in Integer(width), NEW id
    PROVE  /\ GetInt(<<id>> \o PutInt(v, width), 1, width) = v
           /\ Len(<<id>> \o PutInt(v, width)) = width + 1
<1> DEFINE m == Modulus(width)
           u == v % m
           p == <<id>> \o PutInt(v, width)
<1>1. m \in Positive
      BY BaseIsPositive DEF Modulus
<1>2. Integer(width) = -(m \div 2)..m \div 2 - 1
      BY DEF Integer
<1>3. m \div 2 \in Int
      BY <1>1 DEF Positive
<1>4. /\ u \in Int
      /\ u = IF v >= 0 THEN v ELSE v + m
      /\ u \in Integer(width) <=> v >= 0
      BY <1>1, <1>2, <1>3, SignedAndUnsigned
<1>5. GetUnsigned(p, 1, width) = u /\ Len(p) = width + 1
  <2>1. CASE width = 2
    <3>1. p = <<id>> \o <<u \div Base, u % Base>>
          BY <2>1, PutTwo
    <3> HIDE DEF u, p
    <3> QED BY <2>1, <3>1, <1>4, GetTwo, TwoDigits
  <2>2. CASE width = 4
    <3>1. p = <<id>> \o <<u \div (Base * Base * Base), (u \div (Base * Base)) % Base,
                          (u \div Base) % Base, u % Base>>
          BY <2>2, PutFour
    <3> HIDE DEF u, p
    <3> QED BY <2>2, <3>1, <1>4, GetFour, FourDigits
  <2> QED BY <2>1, <2>2
<1>6. GetInt(p, 1, width) = IF u \in Integer(width) THEN u ELSE u - m
      BY <1>5 DEF GetInt
<1>7. v \in Int /\ m \in Int
      BY <1>1, <1>2, <1>3 DEF Positive
<1> HIDE DEF m, u, p
<1>8. GetInt(p, 1, width) = v
      BY <1>4, <1>6, <1>7
<1> QED BY <1>5, <1>8 DEF p

(* static_cast rounds towards zero.                                         *)
LEMMA TruncateRounds ==
    ASSUME NEW x \in Int, NEW n \in Positive
    PROVE  LET v == Truncate(x, n) IN
           IF x >= 0 THEN v * n <= x /\ x < (v + 1) * n
           ELSE x <= v * n /\ (v - 1) * n < x
<1>1. CASE x >= 0
  <2>1. Truncate(x, n) = x \div n
        BY <1>1 DEF Truncate
  <2>2. /\ x \div n \in Int /\ x % n \in Int
        /\ x = n * (x \div n) + (x % n) /\ 0 <= x % n /\ x % n < n
        BY QuotientAndRest
  <2>3. (x \div n) * n = n * (x \div n) /\ (x \div n + 1) * n = n * (x \div n) + n
        BY <2>2 DEF Positive
  <2>4. n * (x \div n) \in Int /\ n \in Int
        BY <2>2 DEF Positive
  <2> QED BY <1>1, <2>1, <2>2, <2>3, <2>4
<1>2. CASE x < 0
  <2> DEFINE q == (-x) \div n
             r == (-x) % n
  <2>1. Truncate(x, n) = -q
        BY <1>2 DEF Truncate
  <2>2. q \in Int /\ r \in Int /\ -x = n * q + r /\ 0 <= r /\ r < n
        BY QuotientAndRest
  <2> HIDE DEF q, r
  <2>3. (-q) * n = -(n * q) /\ (-q - 1) * n = -(n * q) - n
        BY <2>2 DEF Positive
  <2>4. n * q \in Int /\ n \in Int
        BY <2>2 DEF Positive
  <2> QED BY <1>2, <2>1, <2>2, <2>3, <2>4
<1> QED BY <1>1, <1>2

(* Whatever a command and the resolution of its field are, the VESC reads   *)
(* the command up to the resolution, with its sign and at both ends of the  *)
(* integer's range (the constructors of the Set packets, and               *)
(* CommandTransmitted for every input).                                     *)
THEOREM CommandIsTransmitted ==
    ASSUME NEW name \in Commands, NEW x \in Int, NEW n \in Nat \ {0}
    PROVE  Transmitted(name, x, n)
<1> DEFINE width == CommandWidth(name)
           v == Truncate(x, n)
<1> SUFFICES ASSUME v \in Integer(width), NEW p \in SetPacket(name, x, n)
             PROVE  LET w == GetInt(p, 1, width) IN
                    /\ Len(p) = width + 1
                    /\ IF x >= 0 THEN w * n <= x /\ x < (w + 1) * n
                       ELSE x <= w * n /\ (w - 1) * n < x
    BY DEF Transmitted
<1>1. width \in {2, 4}
      BY DEF CommandWidth
<1>2. p = <<CommandId(name)>> \o PutInt(v, width)
      BY DEF SetPacket, Cast
<1> HIDE DEF width
<1>3. GetInt(p, 1, width) = v /\ Len(p) = width + 1
      BY <1>1, <1>2, ReadBack
<1>4. n \in Positive
      BY DEF Positive
<1>5. IF x >= 0 THEN v * n <= x /\ x < (v + 1) * n
      ELSE x <= v * n /\ (v - 1) * n < x
      BY <1>4, TruncateRounds
<1> QED BY <1>3, <1>5

(* The command of the state is transmitted.                                 *)
THEOREM CommandsAreTransmitted == Spec => []CommandTransmitted
<1>1. TypeOK => CommandTransmitted
      BY Inputs, CommandIsTransmitted, CommandAssumption DEF CommandTransmitted
<1> QED BY <1>1, InputTypeCorrect, PTL

-----------------------------------------------------------------------------
(* A payload that holds the bytes of v behind its first `at` bytes.         *)
Holds(p, at, v, width) == \A k \in 1..width : p[at + k] = PutInt(v, width)[k]

(* Tuples of numbers are sequences of them.                                 *)
LEMMA Tuples ==
    /\ \A a \in Int : <<a>> \in Seq(Int) /\ Len(<<a>>) = 1
    /\ \A a, b \in Int : <<a, b>> \in Seq(Int) /\ Len(<<a, b>>) = 2
    /\ \A a, b, c, d \in Int : <<a, b, c, d>> \in Seq(Int) /\ Len(<<a, b, c, d>>) = 4
OBVIOUS

(* PutInt writes as many bytes as it is told to.                            *)
LEMMA PutLength ==
    ASSUME NEW width \in {1, 2, 4}, NEW v \in Int
    PROVE  /\ PutInt(v, width) \in Seq(Int)
           /\ Len(PutInt(v, width)) = width
<1> DEFINE u == v % Modulus(width)
<1>1. Modulus(width) \in Positive
      BY BaseIsPositive DEF Modulus
<1>2. u \in Int
      BY <1>1, QuotientAndRest
<1> HIDE DEF u
<1>3. CASE width = 1
  <2>1. PutInt(v, width) = <<u>>
        BY <1>3 DEF PutInt, u
  <2> QED BY <1>2, <1>3, <2>1, Tuples, Zenon
<1>4. CASE width = 2
  <2>1. PutInt(v, width) = <<u \div Base, u % Base>>
        BY <1>4 DEF PutInt, u
  <2>2. u \div Base \in Int /\ u % Base \in Int
        BY <1>2, BaseIsPositive, QuotientAndRest
  <2> HIDE DEF Positive
  <2> QED BY <1>4, <2>1, <2>2, Tuples, Zenon
<1>5. CASE width = 4
  <2> DEFINE a == u \div (Base * Base * Base)
             b == (u \div (Base * Base)) % Base
             c == (u \div Base) % Base
             d == u % Base
  <2>1. PutInt(v, width) = <<a, b, c, d>>
        BY <1>5 DEF PutInt, u
  <2>2. a \in Int /\ d \in Int
        BY <1>2, BaseIsPositive, QuotientAndRest
  <2>3. u \div (Base * Base) \in Int /\ u \div Base \in Int
        BY <1>2, BaseIsPositive, QuotientAndRest
  <2>4. b \in Int /\ c \in Int
        BY <2>3, BaseIsPositive, QuotientAndRest
  <2> HIDE DEF a, b, c, d
  <2>5. <<a, b, c, d>> \in Seq(Int) /\ Len(<<a, b, c, d>>) = 4
        BY <2>2, <2>4
  <2> QED BY <1>5, <2>1, <2>5, Zenon
<1> QED BY <1>3, <1>4, <1>5

(* Where the bytes of a number are, GetUnsigned reads it modulo its width.  *)
LEMMA ReadUnsigned ==
    ASSUME NEW width \in {1, 2, 4}, NEW v \in Int, NEW p, NEW at \in Nat,
           Holds(p, at, v, width)
    PROVE  GetUnsigned(p, at, width) = v % Modulus(width)
<1> DEFINE u == v % Modulus(width)
<1>1. Modulus(width) \in Positive
      BY BaseIsPositive DEF Modulus
<1>2. u \in Int
      BY <1>1, QuotientAndRest
<1>3. CASE width = 1
  <2>1. PutInt(v, 1) = <<u>>
        BY <1>3 DEF PutInt
  <2>2. p[at + 1] = PutInt(v, 1)[1]
        BY <1>3 DEF Holds
  <2>3. GetUnsigned(p, at, 1) = p[at + 1]
        BY DEF GetUnsigned
  <2> HIDE DEF u
  <2>4. PutInt(v, 1)[1] = u
        BY <2>1
  <2> QED BY <1>3, <2>2, <2>3, <2>4 DEF u
<1>4. CASE width = 2
  <2>1. PutInt(v, 2) = <<u \div Base, u % Base>>
        BY <1>4, PutTwo
  <2>2. p[at + 1] = PutInt(v, 2)[1] /\ p[at + 2] = PutInt(v, 2)[2]
        BY <1>4 DEF Holds
  <2>3. GetUnsigned(p, at, 2) = Base * p[at + 1] + p[at + 2]
        BY DEF GetUnsigned
  <2>4. Base * (u \div Base) + (u % Base) = u
        BY <1>2, TwoDigits
  <2> HIDE DEF u
  <2>5. PutInt(v, 2)[1] = u \div Base /\ PutInt(v, 2)[2] = u % Base
        BY <2>1
  <2>6. GetUnsigned(p, at, 2) = Base * (u \div Base) + (u % Base)
        BY <2>2, <2>3, <2>5
  <2> QED BY <1>4, <2>4, <2>6 DEF u
<1>5. CASE width = 4
  <2> DEFINE a == u \div (Base * Base * Base)
             b == (u \div (Base * Base)) % Base
             c == (u \div Base) % Base
             d == u % Base
  <2>1. PutInt(v, 4) = <<a, b, c, d>>
        BY <1>5, PutFour
  <2>2. /\ p[at + 1] = PutInt(v, 4)[1] /\ p[at + 2] = PutInt(v, 4)[2]
        /\ p[at + 3] = PutInt(v, 4)[3] /\ p[at + 4] = PutInt(v, 4)[4]
        BY <1>5 DEF Holds
  <2>3. GetUnsigned(p, at, 4) = Base * Base * Base * p[at + 1] + Base * Base * p[at + 2]
                                + Base * p[at + 3] + p[at + 4]
        BY DEF GetUnsigned
  <2>4. Base * Base * Base * a + Base * Base * b + Base * c + d = u
        BY <1>2, FourDigits
  <2> HIDE DEF u, a, b, c, d
  <2>5. PutInt(v, 4)[1] = a /\ PutInt(v, 4)[2] = b /\ PutInt(v, 4)[3] = c /\ PutInt(v, 4)[4] = d
        BY <2>1
  <2>6. GetUnsigned(p, at, 4) = Base * Base * Base * a + Base * Base * b + Base * c + d
        BY <2>2, <2>3, <2>5
  <2> QED BY <1>5, <2>4, <2>6 DEF u
<1> QED BY <1>3, <1>4, <1>5

(* Where the bytes of a number that fits are, GetInt reads that number.     *)
LEMMA ReadInt ==
    ASSUME NEW width \in {1, 2, 4}, NEW v \in Integer(width), NEW p, NEW at \in Nat,
           Holds(p, at, v, width)
    PROVE  GetInt(p, at, width) = v
<1> DEFINE m == Modulus(width)
           u == v % m
<1>1. m \in Positive
      BY BaseIsPositive DEF Modulus
<1>2. m \div 2 \in Int /\ m \in Int
      BY <1>1 DEF Positive
<1>3. CASE width = 1
  <2>1. m = Base /\ Integer(width) = 0..Base - 1
        BY <1>3 DEF Modulus, Integer
  <2>2. v \in Int /\ v >= 0 /\ v < m /\ Base \in Int
        BY <2>1, BaseIsPositive DEF Positive
  <2>3. v = m * 0 + v
        BY <1>2, <2>2
  <2>4. u = v
        BY <1>1, <2>2, <2>3, QuotientIsUnique
  <2>5. GetUnsigned(p, at, width) = v
        BY <2>2, <2>4, ReadUnsigned
  <2> QED BY <2>5 DEF GetInt
<1>4. CASE width # 1
  <2>1. Integer(width) = -(m \div 2)..m \div 2 - 1
        BY <1>4 DEF Integer
  <2>2. v \in Int
        BY <1>2, <2>1
  <2>3. /\ u \in Int
        /\ u = IF v >= 0 THEN v ELSE v + m
        /\ u \in Integer(width) <=> v >= 0
        BY <1>1, <1>2, <2>1, SignedAndUnsigned
  <2>4. GetUnsigned(p, at, width) = u
        BY <2>2, ReadUnsigned
  <2>5. GetInt(p, at, width) = IF u \in Integer(width) THEN u ELSE u - m
        BY <2>4 DEF GetInt
  <2> HIDE DEF u, m
  <2> QED BY <1>2, <2>2, <2>3, <2>5
<1> QED BY <1>3, <1>4

-----------------------------------------------------------------------------
(* FlattenSeq of the community modules: the payload of a Values packet is   *)
(* its fields one behind the other.                                         *)

(* A sequence that holds pieces one behind the other, the i-th one behind    *)
(* its first at[i] elements.                                                *)
InPieces(s, pieces, at, n) ==
    /\ s \in Seq(Int)
    /\ Len(s) = at[n + 1]
    /\ \A i \in 1..n : /\ at[i] + Len(pieces[i]) <= Len(s)
                       /\ \A k \in 1..Len(pieces[i]) : s[at[i] + k] = pieces[i][k]

(* Where the pieces begin.                                                  *)
Starts(at, pieces, n) ==
    /\ at \in [1..n + 1 -> Nat]
    /\ at[1] = 0
    /\ \A i \in 1..n : at[i + 1] = at[i] + Len(pieces[i])

(* What FlattenSeq computes on its way.                                     *)
IsJoin(f, pieces, n) ==
    f = [i \in 1..n |-> IF i = 1 THEN pieces[i] ELSE f[i - 1] \o pieces[i]]

(* There is such a function for every sequence of pieces.                   *)
LEMMA JoinExists ==
    ASSUME NEW n \in Nat \ {0}, NEW pieces
    PROVE  \E g : IsJoin(g, pieces, n)
<1> DEFINE S == {k \in 1..n : \E g : IsJoin(g, pieces, k)}
<1>1. 1 \in S
  <2> DEFINE g == [i \in 1..1 |-> pieces[1]]
  <2>1. IsJoin(g, pieces, 1)
        BY DEF IsJoin
  <2>2. 1 \in 1..n
        OBVIOUS
  <2> HIDE DEF g
  <2> QED BY <2>1, <2>2
<1>2. \A k \in 1..n - 1 : k \in S => k + 1 \in S
  <2> SUFFICES ASSUME NEW k \in 1..n - 1, k \in S
               PROVE  \E h : IsJoin(h, pieces, k + 1)
    <3>1. \A k \in 1..n - 1 : k + 1 \in 1..n
          OBVIOUS
    <3> QED BY <3>1
  <2>1. PICK g : IsJoin(g, pieces, k)
        OBVIOUS
  <2>2. g = [i \in 1..k |-> IF i = 1 THEN pieces[i] ELSE g[i - 1] \o pieces[i]]
        BY <2>1 DEF IsJoin
  <2>3. \A i \in 1..k : g[i] = IF i = 1 THEN pieces[i] ELSE g[i - 1] \o pieces[i]
    <3> SUFFICES ASSUME NEW i \in 1..k
                 PROVE  g[i] = IF i = 1 THEN pieces[i] ELSE g[i - 1] \o pieces[i]
        OBVIOUS
    <3> QED BY <2>2
  <2> DEFINE h == [i \in 1..k + 1 |-> IF i = k + 1 THEN g[k] \o pieces[k + 1] ELSE g[i]]
  <2>4. ASSUME NEW i \in 1..k + 1
        PROVE  h[i] = IF i = 1 THEN pieces[i] ELSE h[i - 1] \o pieces[i]
    <3>1. CASE i = k + 1
      <4>1. i # 1 /\ i - 1 = k /\ k \in 1..k + 1 /\ k # k + 1
            BY <3>1
      <4>2. h[k] = g[k]
            BY <4>1
      <4>3. h[i] = g[k] \o pieces[k + 1]
            BY <3>1
      <4> HIDE DEF h
      <4> QED BY <3>1, <4>1, <4>2, <4>3
    <3>2. CASE i # k + 1
      <4>1. i \in 1..k
            BY <3>2
      <4>2. h[i] = g[i]
            BY <3>2
      <4>3. i # 1 => h[i - 1] = g[i - 1]
            BY <4>1
      <4> HIDE DEF h
      <4> QED BY <2>3, <4>1, <4>2, <4>3
    <3> QED BY <3>1, <3>2
  <2>5. h = [i \in 1..k + 1 |-> h[i]]
        OBVIOUS
  <2> HIDE DEF h
  <2>6. IsJoin(h, pieces, k + 1)
        BY <2>4, <2>5 DEF IsJoin
  <2> QED BY <2>6
<1>3. 1..n \subseteq S
  <2> HIDE DEF S
  <2> QED BY <1>1, <1>2, InductionUpTo
<1> QED BY <1>3

(* FlattenSeq puts every piece where it starts.                             *)
LEMMA FlattenedPieces ==
    ASSUME NEW n \in Nat \ {0}, NEW pieces \in [1..n -> Seq(Int)], NEW at,
           Starts(at, pieces, n)
    PROVE  InPieces(FlattenSeq(pieces), pieces, at, n)
<1> DEFINE c == CHOOSE g : IsJoin(g, pieces, n)
           S == {m \in 1..n : InPieces(c[m], pieces, at, m)}
<1>1. IsJoin(c, pieces, n)
      BY JoinExists
<1>2. FlattenSeq(pieces) = c[n]
  <2>1. Len(pieces) = n
        OBVIOUS
  <2> QED BY <2>1 DEF FlattenSeq, IsJoin
<1> HIDE DEF c
<1>3. ASSUME NEW i \in 1..n
      PROVE  c[i] = IF i = 1 THEN pieces[i] ELSE c[i - 1] \o pieces[i]
      BY <1>1 DEF IsJoin
<1>4. 1 \in S
  <2>1. 1 \in 1..n
        OBVIOUS
  <2>2. c[1] = pieces[1]
        BY <1>3, <2>1
  <2>3. pieces[1] \in Seq(Int) /\ at[1] = 0 /\ at[1 + 1] = at[1] + Len(pieces[1])
        BY <2>1 DEF Starts
  <2>4. Len(pieces[1]) \in Nat
        BY <2>3, LenProperties
  <2>5. Len(c[1]) = at[1 + 1]
        BY <2>2, <2>3, <2>4
  <2>6. \A k \in 1..Len(pieces[1]) : c[1][at[1] + k] = pieces[1][k]
        BY <2>2, <2>3
  <2>7. at[1] + Len(pieces[1]) <= Len(c[1])
        BY <2>2, <2>3, <2>4
  <2> QED BY <2>1, <2>2, <2>3, <2>5, <2>6, <2>7 DEF InPieces
<1>5. \A m \in 1..n - 1 : m \in S => m + 1 \in S
  <2> SUFFICES ASSUME NEW m \in 1..n - 1, m \in S
               PROVE  InPieces(c[m + 1], pieces, at, m + 1)
    <3>1. \A m \in 1..n - 1 : m + 1 \in 1..n
          OBVIOUS
    <3> QED BY <3>1
  <2> DEFINE s == c[m]
             t == pieces[m + 1]
             u == c[m + 1]
  <2>1. m + 1 \in 1..n /\ m \in 1..n /\ m + 1 # 1 /\ (m + 1) - 1 = m
        OBVIOUS
  <2>2. u = s \o t
        BY <1>3, <2>1
  <2>3. s \in Seq(Int) /\ Len(s) = at[m + 1]
        BY DEF InPieces
  <2>4. t \in Seq(Int) /\ at[(m + 1) + 1] = at[m + 1] + Len(t)
        BY <2>1 DEF Starts
  <2>5. \A i \in 1..m : at[i] + Len(pieces[i]) <= Len(s)
                       /\ \A k \in 1..Len(pieces[i]) : s[at[i] + k] = pieces[i][k]
        BY DEF InPieces
  <2>6. Len(s) \in Nat /\ Len(t) \in Nat
        BY <2>3, <2>4, LenProperties
  <2>7. /\ u \in Seq(Int) /\ Len(u) = Len(s) + Len(t)
        /\ \A k \in 1..Len(s) : u[k] = s[k]
        /\ \A k \in 1..Len(t) : u[Len(s) + k] = t[k]
    <3> HIDE DEF s, t, u
    <3>1. s \in Seq(Int) /\ t \in Seq(Int)
          BY <2>3, <2>4
    <3>2. /\ s \o t \in Seq(Int) /\ Len(s \o t) = Len(s) + Len(t)
          /\ \A i \in 1..Len(s) + Len(t) :
                 (s \o t)[i] = IF i <= Len(s) THEN s[i] ELSE t[i - Len(s)]
          BY <3>1, ConcatProperties
    <3>3. /\ \A k \in 1..Len(s) : k \in 1..Len(s) + Len(t) /\ k <= Len(s)
          /\ \A k \in 1..Len(t) : /\ Len(s) + k \in 1..Len(s) + Len(t)
                                  /\ ~(Len(s) + k <= Len(s))
                                  /\ (Len(s) + k) - Len(s) = k
          BY <2>6
    <3> QED BY <2>2, <3>2, <3>3
  <2>8. ASSUME NEW i \in 1..m + 1
        PROVE  /\ at[i] \in Nat /\ Len(pieces[i]) \in Nat
               /\ at[i] + Len(pieces[i]) <= Len(u)
    <3>1. i \in 1..n /\ i \in 1..n + 1
          OBVIOUS
    <3>2. at[i] \in Nat /\ Len(pieces[i]) \in Nat
          BY <3>1, LenProperties DEF Starts
    <3> HIDE DEF s, u
    <3>3. CASE i = m + 1
          BY <3>2, <3>3, <2>3, <2>6, <2>7
    <3>4. CASE i # m + 1
          BY <3>2, <3>4, <2>5, <2>6, <2>7
    <3> QED BY <3>2, <3>3, <3>4
  <2>9. ASSUME NEW i \in 1..m + 1, NEW k \in 1..Len(pieces[i])
        PROVE  u[at[i] + k] = pieces[i][k]
    <3> HIDE DEF s, u
    <3>1. CASE i = m + 1
          BY <3>1, <2>3, <2>7
    <3>2. CASE i # m + 1
      <4>1. i \in 1..m
            BY <3>2
      <4>2. at[i] \in Nat /\ Len(pieces[i]) \in Nat /\ at[i] + Len(pieces[i]) <= Len(s)
            BY <2>5, <2>8, <4>1
      <4>3. at[i] + k \in 1..Len(s)
            BY <2>6, <4>2
      <4> QED BY <2>5, <2>7, <4>1, <4>3
    <3> QED BY <3>1, <3>2
  <2> HIDE DEF u, s, t
  <2>10. Len(u) = at[(m + 1) + 1]
        BY <2>3, <2>4, <2>7
  <2>11. InPieces(u, pieces, at, m + 1)
        BY <2>7, <2>8, <2>9, <2>10 DEF InPieces
  <2> QED BY <2>11 DEF u
<1>6. 1..n \subseteq S
  <2> HIDE DEF S
  <2>1. 1 \in Int /\ n \in Int
        OBVIOUS
  <2> QED BY <2>1, <1>4, <1>5, InductionUpTo
<1>7. n \in S
      BY <1>6
<1> QED BY <1>2, <1>7

(* A number among the pieces, with something in front of them.              *)
LEMMA PieceBehind ==
    ASSUME NEW n \in Nat \ {0}, NEW pieces \in [1..n -> Seq(Int)], NEW at,
           Starts(at, pieces, n), NEW head \in Seq(Int),
           NEW i \in 1..n, NEW width \in {1, 2, 4}, NEW v \in Int,
           pieces[i] = PutInt(v, width)
    PROVE  Holds(head \o FlattenSeq(pieces), Len(head) + at[i], v, width)
<1> DEFINE s == FlattenSeq(pieces)
           p == head \o s
           h == Len(head)
<1>1. InPieces(s, pieces, at, n)
      BY FlattenedPieces
<1>2. Len(pieces[i]) = width
      BY PutLength
<1>3. at[i] \in Nat /\ h \in Nat
  <2>1. i \in 1..n + 1
        OBVIOUS
  <2> QED BY <2>1, LenProperties DEF Starts
<1> HIDE DEF s, p, h
<1>4. /\ s \in Seq(Int) /\ Len(s) \in Nat
      /\ at[i] + width <= Len(s)
      /\ \A k \in 1..width : s[at[i] + k] = PutInt(v, width)[k]
      BY <1>1, <1>2, LenProperties DEF InPieces
<1>5. \A j \in 1..Len(head) + Len(s) :
          (head \o s)[j] = IF j <= Len(head) THEN head[j] ELSE s[j - Len(head)]
      BY <1>4, ConcatProperties
<1>6. \A j \in 1..h + Len(s) : p[j] = IF j <= h THEN head[j] ELSE s[j - h]
      BY <1>5 DEF p, h
<1>7. ASSUME NEW k \in 1..width PROVE p[(h + at[i]) + k] = PutInt(v, width)[k]
  <2>1. /\ (h + at[i]) + k \in 1..h + Len(s)
        /\ ~((h + at[i]) + k <= h)
        /\ ((h + at[i]) + k) - h = at[i] + k
    <3>1. k \in Nat /\ 1 <= k /\ at[i] + k <= Len(s)
          BY <1>3, <1>4
    <3>2. at[i] \in Nat /\ h \in Nat /\ Len(s) \in Nat
          BY <1>3, <1>4
    <3>3. (h + at[i]) + k \in 1..h + Len(s)
          BY <3>1, <3>2
    <3>4. ~((h + at[i]) + k <= h)
          BY <3>1, <3>2
    <3>5. ((h + at[i]) + k) - h = at[i] + k
          BY <3>1, <3>2
    <3> QED BY <3>3, <3>4, <3>5
  <2> QED BY <1>4, <1>6, <2>1
<1> QED BY <1>7 DEF Holds, p, h, s

-----------------------------------------------------------------------------
(* The accessors of VescPacketValues.                                       *)

(* Where the fields of a Values packet begin, from the end of its id.       *)
LayoutStart == <<0, 2, 4, 8, 12, 16, 20, 22, 26, 28, 32, 36,
                 40, 44, 48, 52, 53, 57, 58, 60, 62, 64, 68, 72>>

(* The tables of vesc_packet.cpp have each field where the firmware puts it. *)
LEMMA Domains ==
    /\ DOMAIN Int16Offset = {"temp_fet", "temp_motor", "duty_cycle_now", "v_in",
                             "temp_mos1", "temp_mos2", "temp_mos3"}
    /\ DOMAIN CurrentOffset =
           {"avg_motor_current", "avg_input_current", "avg_id", "avg_iq", "rpm"}
    /\ DOMAIN EnergyOffset = {"amp_hours", "amp_hours_charged", "watt_hours",
                              "watt_hours_charged", "tachometer", "tachometer_abs"}
    /\ DOMAIN StatusOffset = {"fault_code", "controller_id"}
    /\ DOMAIN PositionOffset = {"pid_pos_now", "avg_vd", "avg_vq"}
BY DEF Int16Offset, CurrentOffset, EnergyOffset, StatusOffset, PositionOffset

(* Each field of a Values packet is read from where the firmware puts it:   *)
(* the offsets of the accessors are the sums of the widths before them.     *)
LEMMA FieldsLaidOut ==
    ASSUME NEW i \in 1..23
    PROVE  /\ Layout[i] \in ValuesFields
           /\ LayoutWidth[i] \in {1, 2, 4}
           /\ LayoutWidth[i] = ValuesWidth(Layout[i])
           /\ ValuesOffset(Layout[i]) = LayoutStart[i] + 1
           /\ LayoutStart[i] \in Nat
           /\ LayoutStart[i + 1] = LayoutStart[i] + LayoutWidth[i]
BY Domains DEF Layout, LayoutWidth, LayoutStart, ValuesFields, ValuesWidth, ValuesOffset,
   Int16Offset, CurrentOffset, EnergyOffset, StatusOffset, PositionOffset

(* No accessor reads a field the firmware does not send.                    *)
LEMMA EveryFieldLaidOut ==
    ASSUME NEW f \in ValuesFields
    PROVE  \E i \in 1..23 : Layout[i] = f
BY DEF Layout, ValuesFields

(* An accessor of VescPacketValues returns the number its field was sent    *)
(* with.                                                                    *)
LEMMA TelemetryIsRead ==
    ASSUME NEW values \in Telemetry, NEW f \in ValuesFields
    PROVE  ReadValue(ValuesPayload(values), f) = values[f]
<1> DEFINE pieces == [j \in 1..23 |-> PutInt(values[Layout[j]], LayoutWidth[j])]
           s == FlattenSeq(pieces)
           p == ValuesPayload(values)
<1>1. DOMAIN Layout = 1..23
      BY DEF Layout
<1>2. p = <<4>> \o s
      BY <1>1 DEF ValuesPayload
<1>3. ASSUME NEW j \in 1..23
      PROVE  /\ values[Layout[j]] \in Int
             /\ pieces[j] \in Seq(Int)
             /\ Len(pieces[j]) = LayoutWidth[j]
  <2>1. values[Layout[j]] \in Int
        BY FieldsLaidOut, TelemetryAssumption
  <2>2. LayoutWidth[j] \in {1, 2, 4}
        BY FieldsLaidOut
  <2>3. pieces[j] = PutInt(values[Layout[j]], LayoutWidth[j])
        OBVIOUS
  <2> HIDE DEF pieces
  <2> QED BY <2>1, <2>2, <2>3, PutLength
<1> HIDE DEF p
<1>4. pieces \in [1..23 -> Seq(Int)]
      BY <1>3
<1>5. Starts(LayoutStart, pieces, 23)
  <2>1. LayoutStart \in [1..23 + 1 -> Nat] /\ LayoutStart[1] = 0
        BY DEF LayoutStart
  <2> HIDE DEF pieces
  <2>2. \A j \in 1..23 : LayoutStart[j + 1] = LayoutStart[j] + Len(pieces[j])
        BY <1>3, FieldsLaidOut
  <2> QED BY <2>1, <2>2 DEF Starts
<1>6. PICK i \in 1..23 : Layout[i] = f
      BY EveryFieldLaidOut
<1> DEFINE at == LayoutStart[i]
           width == LayoutWidth[i]
           head == <<4>>
<1>7. /\ at \in Nat /\ width \in {1, 2, 4}
      /\ ValuesOffset(f) = at + 1 /\ ValuesWidth(f) = width
      BY <1>6, FieldsLaidOut
<1>8. pieces[i] = PutInt(values[f], width)
      BY <1>6
<1>9. head \in Seq(Int) /\ Len(head) = 1
      OBVIOUS
<1>10. Holds(head \o FlattenSeq(pieces), Len(head) + LayoutStart[i], values[f], width)
  <2>1. values[f] \in Int /\ 23 \in Nat \ {0}
        BY TelemetryAssumption
  <2> HIDE DEF pieces, head, width
  <2> QED BY <2>1, <1>4, <1>5, <1>7, <1>8, <1>9, PieceBehind
<1>11. Holds(p, at + 1, values[f], width)
  <2>1. Len(head) + at = at + 1
        BY <1>7, <1>9
  <2> HIDE DEF s, at, width
  <2> QED BY <1>2, <1>10, <2>1 DEF at, s
<1> HIDE DEF at, width
<1>12. values[f] \in Integer(width)
      BY <1>7, TelemetryAssumption
<1>13. GetInt(p, at + 1, width) = values[f]
  <2>1. at + 1 \in Nat
        BY <1>7
  <2> QED BY <1>7, <1>11, <1>12, <2>1, ReadInt
<1> QED BY <1>7, <1>13 DEF ReadValue, p

(* Every accessor of VescPacketValues reads the field that the firmware     *)
(* wrote: ValuesRead.                                                       *)
THEOREM AccessorsReadTheirFields == Spec => []ValuesRead
<1>1. TypeOK => ValuesRead
      BY Inputs, TelemetryIsRead DEF ValuesRead
<1> QED BY <1>1, InputTypeCorrect, PTL

-----------------------------------------------------------------------------
(* The accessors of VescPacketImu.                                          *)

(* The bits of a mask that are before field i.                              *)
LEMMA BitsBefore ==
    ASSUME NEW mask \in SUBSET (1..16)
    PROVE  /\ \A i \in 1..17 : Cardinality(mask \cap 1..i - 1) \in Nat
           /\ Cardinality(mask \cap 1..1 - 1) = 0
           /\ \A i \in 1..16 : Cardinality(mask \cap 1..(i + 1) - 1)
                  = Cardinality(mask \cap 1..i - 1) + (IF i \in mask THEN 1 ELSE 0)
<1>1. ASSUME NEW i \in 1..17
      PROVE  IsFiniteSet(mask \cap 1..i - 1)
  <2>1. IsFiniteSet(1..16)
    <3>1. \A b \in Int : IsFiniteSet(1..b)
          BY FS_Interval
    <3>2. 16 \in Int
          OBVIOUS
    <3> QED BY <3>1, <3>2, Zenon
  <2>2. mask \cap 1..i - 1 \subseteq 1..16
        OBVIOUS
  <2> QED BY <2>1, <2>2, FS_Subset
<1>2. mask \cap 1..1 - 1 = {}
      OBVIOUS
<1>3. ASSUME NEW i \in 1..16
      PROVE  Cardinality(mask \cap 1..(i + 1) - 1)
                 = Cardinality(mask \cap 1..i - 1) + (IF i \in mask THEN 1 ELSE 0)
  <2> DEFINE before == mask \cap 1..i - 1
             after == mask \cap 1..(i + 1) - 1
  <2>1. IsFiniteSet(before) /\ Cardinality(before) \in Nat
    <3>1. i \in 1..17
          OBVIOUS
    <3> QED BY <1>1, <3>1, FS_CardinalityType
  <2>2. i \notin before /\ after = IF i \in mask THEN before \cup {i} ELSE before
        OBVIOUS
  <2> HIDE DEF before, after
  <2>3. Cardinality(after) = Cardinality(before) + (IF i \in mask THEN 1 ELSE 0)
    <3>1. CASE i \in mask
      <4>1. after = before \cup {i}
            BY <2>2, <3>1
      <4>2. Cardinality(after) = Cardinality(before) + 1
            BY <2>1, <2>2, <4>1, FS_AddElement
      <4> QED BY <3>1, <4>2
    <3>2. CASE i \notin mask
          BY <2>1, <2>2, <3>2
    <3> QED BY <3>1, <3>2
  <2> QED BY <2>3 DEF before, after
<1> QED BY <1>1, <1>2, <1>3, FS_CardinalityType, FS_EmptySet

(* A member that the packet holds gets the float of its own field.          *)
LEMMA FieldIsRead ==
    ASSUME NEW mask \in Masks, NEW words \in ImuData, NEW i \in mask
    PROVE  /\ i \in 1..16 /\ words[i] \in 0..Modulus(4) - 1
           /\ GetUnsigned(ImuPayload(mask, words), ImuOffset(mask, i), 4) = words[i]
<1> DEFINE pieces == [j \in 1..16 |-> IF j \in mask THEN PutInt(words[j], 4) ELSE <<>>]
           at == [j \in 1..17 |-> 4 * Cardinality(mask \cap 1..j - 1)]
           head == <<1, 0, 0>>
           p == ImuPayload(mask, words)
<1>1. DOMAIN ImuFields = 1..16
      BY DEF ImuFields
<1>2. mask \in SUBSET (1..16) /\ words \in [1..16 -> 0..Modulus(4) - 1]
      BY <1>1, ImuAssumption
<1>3. Modulus(4) \in Positive /\ Modulus(4) \in Int
      BY BaseIsPositive DEF Modulus, Positive
<1>4. \A j \in 1..16 : words[j] \in Int /\ words[j] \in 0..Modulus(4) - 1
      BY <1>2, <1>3
<1>5. p = head \o FlattenSeq(pieces)
      BY <1>1 DEF ImuPayload
<1> HIDE DEF p
<1>6. ASSUME NEW j \in 1..16
      PROVE  /\ pieces[j] \in Seq(Int)
             /\ Len(pieces[j]) = IF j \in mask THEN 4 ELSE 0
  <2>1. CASE j \in mask
    <3>1. pieces[j] = PutInt(words[j], 4)
          BY <2>1
    <3> HIDE DEF pieces
    <3> QED BY <1>4, <2>1, <3>1, PutLength
  <2>2. CASE j \notin mask
        BY <2>2
  <2> QED BY <2>1, <2>2
<1>7. pieces \in [1..16 -> Seq(Int)]
      BY <1>6
<1>8. Starts(at, pieces, 16)
  <2>1. /\ \A j \in 1..17 : Cardinality(mask \cap 1..j - 1) \in Nat
        /\ Cardinality(mask \cap 1..1 - 1) = 0
        /\ \A j \in 1..16 : Cardinality(mask \cap 1..(j + 1) - 1)
               = Cardinality(mask \cap 1..j - 1) + (IF j \in mask THEN 1 ELSE 0)
        BY <1>2, BitsBefore
  <2>2. at \in [1..16 + 1 -> Nat]
    <3>1. ASSUME NEW j \in 1..17 PROVE 4 * Cardinality(mask \cap 1..j - 1) \in Nat
      <4>1. Cardinality(mask \cap 1..j - 1) \in Nat
            BY <2>1
      <4>2. \A c \in Nat : 4 * c \in Nat
            OBVIOUS
      <4> QED BY <4>1, <4>2
    <3>2. 16 + 1 = 17
          OBVIOUS
    <3> QED BY <3>1, <3>2
  <2>3. at[1] = 0
        BY <2>1
  <2>4. ASSUME NEW j \in 1..16 PROVE at[j + 1] = at[j] + Len(pieces[j])
    <3> DEFINE c == Cardinality(mask \cap 1..j - 1)
               d == Cardinality(mask \cap 1..(j + 1) - 1)
    <3>1. j \in 1..17 /\ j + 1 \in 1..17
          OBVIOUS
    <3>2. at[j] = 4 * c /\ at[j + 1] = 4 * d
          BY <3>1
    <3>3. c \in Nat /\ d = c + (IF j \in mask THEN 1 ELSE 0)
          BY <2>1, <3>1
    <3>4. Len(pieces[j]) = IF j \in mask THEN 4 ELSE 0
          BY <1>6
    <3> HIDE DEF at, pieces, c, d
    <3>5. CASE j \in mask
          BY <3>2, <3>3, <3>4, <3>5
    <3>6. CASE j \notin mask
          BY <3>2, <3>3, <3>4, <3>6
    <3> QED BY <3>5, <3>6
  <2> HIDE DEF at, pieces
  <2> QED BY <2>2, <2>3, <2>4 DEF Starts
<1>9. i \in 1..16 /\ pieces[i] = PutInt(words[i], 4)
      BY <1>2
<1>10. head \in Seq(Int) /\ Len(head) = 3
       OBVIOUS
<1>11. Holds(head \o FlattenSeq(pieces), Len(head) + at[i], words[i], 4)
  <2>1. 16 \in Nat \ {0} /\ 4 \in {1, 2, 4}
        OBVIOUS
  <2>2. words[i] \in Int
        BY <1>4, <1>9
  <2> HIDE DEF pieces, head, at
  <2> QED BY <2>1, <2>2, <1>7, <1>8, <1>9, <1>10, PieceBehind
<1>12. ImuOffset(mask, i) = Len(head) + at[i] /\ ImuOffset(mask, i) \in Nat
  <2>1. at[i] = 4 * Cardinality(mask \cap 1..i - 1) /\ at[i] \in Nat
    <3>1. i \in 1..17
          BY <1>9
    <3>2. Cardinality(mask \cap 1..i - 1) \in Nat
          BY <1>2, <3>1, BitsBefore
    <3>3. \A c \in Nat : 4 * c \in Nat
          OBVIOUS
    <3> QED BY <3>1, <3>2, <3>3
  <2> HIDE DEF at
  <2> QED BY <1>10, <2>1 DEF ImuOffset
<1>13. GetUnsigned(p, ImuOffset(mask, i), 4) = words[i] % Modulus(4)
  <2>1. Holds(p, ImuOffset(mask, i), words[i], 4)
        BY <1>5, <1>11, <1>12
  <2> QED BY <1>4, <1>9, <1>12, <2>1, ReadUnsigned
<1>14. words[i] % Modulus(4) = words[i]
  <2> DEFINE m == Modulus(4)
             w == words[i]
  <2>1. w \in Int /\ w \in 0..m - 1 /\ m \in Int
        BY <1>3, <1>4, <1>9, Zenon
  <2>2. m \in Positive
        BY <1>3
  <2> HIDE DEF m, w
  <2>3. w = m * 0 + w
        BY <2>1, <2>2 DEF Positive
  <2>4. w % m = w
        BY <2>1, <2>2, <2>3, QuotientIsUnique
  <2> QED BY <2>4 DEF m, w
<1> QED BY <1>4, <1>9, <1>13, <1>14 DEF p

(* getFloat32Auto needs the bytes only for the unsigned integer they are,    *)
(* and sets its result whatever they are.                                   *)
LEMMA FloatOfWord ==
    ASSUME NEW p, NEW at, NEW q, NEW k, GetUnsigned(p, at, 4) = GetUnsigned(q, k, 4)
    PROVE  getFloat32Auto(p, at) = getFloat32Auto(q, k)
BY DEF getFloat32Auto

(* The word of a float is read as it was written.                           *)
LEMMA WordIsRead ==
    ASSUME NEW w \in 0..Modulus(4) - 1
    PROVE  GetUnsigned(PutInt(w, 4), 0, 4) = w
<1>1. Modulus(4) \in Positive /\ Modulus(4) \in Int
      BY BaseIsPositive DEF Modulus, Positive
<1>2. w \in Int /\ 0 <= w /\ w < Modulus(4)
      BY <1>1
<1>3. GetUnsigned(PutInt(w, 4), 0, 4) = w % Modulus(4)
  <2>1. Holds(PutInt(w, 4), 0, w, 4)
        BY DEF Holds
  <2>2. 0 \in Nat /\ 4 \in {1, 2, 4}
        OBVIOUS
  <2> QED BY <1>2, <2>1, <2>2, ReadUnsigned
<1>4. w = Modulus(4) * 0 + w
      BY <1>1, <1>2
<1>5. w % Modulus(4) = w
      BY <1>1, <1>2, <1>4, QuotientIsUnique
<1> QED BY <1>3, <1>5

-----------------------------------------------------------------------------
(* Power2 and the parts of a float.                                         *)

(* The powers of two.                                                       *)
IsPowers(g, n) == g = [e \in 0..n |-> IF e = 0 THEN 1 ELSE 2 * g[e - 1]]

(* There is such a function.                                                *)
LEMMA PowersExist ==
    ASSUME NEW n \in Nat
    PROVE  \E g : IsPowers(g, n)
<1> DEFINE S == {k \in 0..n : \E g : IsPowers(g, k)}
<1>1. 0 \in S
  <2> DEFINE g == [e \in 0..0 |-> 1]
  <2>1. IsPowers(g, 0)
        BY DEF IsPowers
  <2>2. 0 \in 0..n
        OBVIOUS
  <2> HIDE DEF g
  <2> QED BY <2>1, <2>2
<1>2. \A k \in 0..n - 1 : k \in S => k + 1 \in S
  <2> SUFFICES ASSUME NEW k \in 0..n - 1, k \in S
               PROVE  \E h : IsPowers(h, k + 1)
    <3>1. \A k \in 0..n - 1 : k + 1 \in 0..n
          OBVIOUS
    <3> QED BY <3>1
  <2>1. PICK g : IsPowers(g, k)
        OBVIOUS
  <2>2. g = [e \in 0..k |-> IF e = 0 THEN 1 ELSE 2 * g[e - 1]]
        BY <2>1 DEF IsPowers
  <2>3. \A e \in 0..k : g[e] = IF e = 0 THEN 1 ELSE 2 * g[e - 1]
    <3> SUFFICES ASSUME NEW e \in 0..k
                 PROVE  g[e] = IF e = 0 THEN 1 ELSE 2 * g[e - 1]
        OBVIOUS
    <3> QED BY <2>2
  <2> DEFINE h == [e \in 0..k + 1 |-> IF e = k + 1 THEN 2 * g[k] ELSE g[e]]
  <2>4. ASSUME NEW e \in 0..k + 1
        PROVE  h[e] = IF e = 0 THEN 1 ELSE 2 * h[e - 1]
    <3>1. CASE e = k + 1
      <4>1. e # 0 /\ e - 1 = k /\ k \in 0..k + 1 /\ k # k + 1
            BY <3>1
      <4>2. h[k] = g[k]
            BY <4>1
      <4>3. h[e] = 2 * g[k]
            BY <3>1
      <4> HIDE DEF h
      <4> QED BY <3>1, <4>1, <4>2, <4>3
    <3>2. CASE e # k + 1
      <4>1. e \in 0..k
            BY <3>2
      <4>2. h[e] = g[e]
            BY <3>2
      <4>3. e # 0 => h[e - 1] = g[e - 1]
            BY <4>1
      <4> HIDE DEF h
      <4> QED BY <2>3, <4>1, <4>2, <4>3
    <3> QED BY <3>1, <3>2
  <2>5. h = [e \in 0..k + 1 |-> h[e]]
        OBVIOUS
  <2> HIDE DEF h
  <2>6. IsPowers(h, k + 1)
        BY <2>4, <2>5 DEF IsPowers
  <2> QED BY <2>6
<1>3. 0..n \subseteq S
  <2> HIDE DEF S
  <2> QED BY <1>1, <1>2, InductionUpTo
<1> QED BY <1>3

(* Power2 is that function, as far as a float needs it.                     *)
LEMMA Powers ==
    /\ Power2[0] = 1
    /\ \A e \in 0..Exponent : Power2[e] \in Positive
    /\ \A e \in 0..Exponent - 1 : Power2[e + 1] = 2 * Power2[e]
<1>1. Exponent \in Nat
      BY CodecAssumption
<1>2. IsPowers(Power2, Exponent)
      BY <1>1, PowersExist DEF Power2, IsPowers
<1>3. ASSUME NEW e \in 0..Exponent
      PROVE  Power2[e] = IF e = 0 THEN 1 ELSE 2 * Power2[e - 1]
      BY <1>2 DEF IsPowers
<1> DEFINE S == {k \in 0..Exponent : Power2[k] \in Positive}
<1>4. 0 \in S
  <2>1. 0 \in 0..Exponent
        BY <1>1
  <2> QED BY <1>3, <2>1 DEF Positive
<1>5. ASSUME NEW k \in 0..Exponent - 1
      PROVE  /\ k + 1 \in 0..Exponent
             /\ Power2[k + 1] = 2 * Power2[k]
  <2>1. k + 1 \in 0..Exponent /\ k + 1 # 0 /\ (k + 1) - 1 = k
        BY <1>1
  <2> QED BY <1>3, <2>1
<1>6. \A k \in 0..Exponent - 1 : k \in S => k + 1 \in S
  <2>1. \A x \in Positive : 2 * x \in Positive
        BY DEF Positive
  <2> QED BY <1>5, <2>1
<1>7. 0..Exponent \subseteq S
  <2> HIDE DEF S
  <2> QED BY <1>1, <1>4, <1>6, InductionUpTo
<1>8. Power2[0] = 1
  <2>1. 0 \in 0..Exponent
        BY <1>1
  <2> QED BY <1>3, <2>1
<1> QED BY <1>5, <1>7, <1>8

-----------------------------------------------------------------------------
(* Sign, exponent and fraction of a word.                                   *)
(* The sign, exponent and fraction of a word.                               *)
SignOf(w) == w \div (Fraction * Exponent)
ExponentOf(w) == (w \div Fraction) % Exponent
FractionOf(w) == w % Fraction

(* A word is a sign, an exponent and a fraction.                            *)
LEMMA FloatConstants ==
    /\ Fraction \in Positive /\ Exponent \in Positive /\ Exponent > 1
    /\ Fraction * Exponent \in Positive
    /\ Modulus(4) = 2 * (Fraction * Exponent)
<1>1. Fraction \in Positive /\ Exponent \in Positive /\ Exponent > 1
      BY CodecAssumption DEF Positive
<1>2. Fraction * Exponent \in Positive
      BY <1>1, ProductIsPositive
<1>3. Modulus(4) = 2 * Exponent * Fraction
      BY CodecAssumption DEF Modulus
<1>4. 2 * Exponent * Fraction = 2 * (Fraction * Exponent)
      BY <1>1 DEF Positive
<1> QED BY <1>1, <1>2, <1>3, <1>4

(* The parts of a word make up the word.                                    *)
LEMMA Parts ==
    ASSUME NEW w \in 0..Modulus(4) - 1
    PROVE  /\ w \in Int
           /\ w = Fraction * (w \div Fraction) + FractionOf(w)
           /\ w \div Fraction = Exponent * SignOf(w) + ExponentOf(w)
           /\ w \div Fraction \in Int
           /\ FractionOf(w) \in 0..Fraction - 1
           /\ ExponentOf(w) \in 0..Exponent - 1
           /\ SignOf(w) \in {0, 1}
           /\ SignOf(w) = 1 <=> w >= Fraction * Exponent
<1> DEFINE q == w \div Fraction
           s == q \div Exponent
           e == q % Exponent
           f == w % Fraction
           b == Fraction * Exponent
           r == w % b
<1>1. /\ Fraction \in Positive /\ Exponent \in Positive /\ b \in Positive
      /\ Modulus(4) = 2 * b
      BY FloatConstants
<1>2. Fraction \in Int /\ Exponent \in Int /\ b \in Int
      BY <1>1 DEF Positive
<1>3. w \in Int /\ 0 <= w /\ w < 2 * b
      BY <1>1, <1>2
<1>4. q \in Int /\ f \in Int /\ w = Fraction * q + f /\ 0 <= f /\ f < Fraction
      BY <1>1, <1>3, QuotientAndRest
<1>5. s \in Int /\ e \in Int /\ q = Exponent * s + e /\ 0 <= e /\ e < Exponent
      BY <1>1, <1>4, QuotientAndRest
<1>6. w \div b = s
      BY <1>1, <1>3, QuotientOfQuotient
<1>7. r \in Int /\ w = b * s + r /\ 0 <= r /\ r < b
      BY <1>1, <1>3, <1>6, QuotientAndRest
<1>8. SignOf(w) = s /\ ExponentOf(w) = e /\ FractionOf(w) = f
      BY <1>6 DEF SignOf, ExponentOf, FractionOf
<1>9. f \in 0..Fraction - 1 /\ e \in 0..Exponent - 1
  <2> HIDE DEF e, f
  <2> QED BY <1>2, <1>4, <1>5
<1>10. s \in {0, 1} /\ (s = 1 <=> w >= b)
  <2> HIDE DEF b, r, s
  <2>1. ~(s >= 2)
    <3> SUFFICES ASSUME s >= 2 PROVE FALSE
        OBVIOUS
    <3>1. b * s = 2 * b + b * (s - 2)
          BY <1>2, <1>5
    <3>2. b * (s - 2) >= 0
          BY <1>1, <1>5 DEF Positive
    <3>3. b * s \in Int /\ b * (s - 2) \in Int
          BY <1>2, <1>5
    <3> QED BY <1>2, <1>3, <1>7, <3>1, <3>2, <3>3
  <2>2. ~(s <= -1)
    <3> SUFFICES ASSUME s <= -1 PROVE FALSE
        OBVIOUS
    <3>1. b * (-s) >= b
          BY <1>1, <1>5, Multiples
    <3>2. b * (-s) = -(b * s) /\ b * s \in Int
          BY <1>2, <1>5
    <3> QED BY <1>2, <1>3, <1>7, <3>1, <3>2
  <2>3. s = 0 \/ s = 1
        BY <1>5, <2>1, <2>2
  <2>4. CASE s = 0
        BY <1>2, <1>3, <1>7, <2>4
  <2>5. CASE s = 1
        BY <1>2, <1>3, <1>7, <2>5
  <2> QED BY <2>3, <2>4, <2>5
<1> HIDE DEF q, s, e, f, b, r
<1> QED BY <1>3, <1>4, <1>5, <1>8, <1>9, <1>10 DEF q, b

-----------------------------------------------------------------------------
(* ldexp.                                                                   *)

(* The float of an exponent and a fraction.                                 *)
Magnitude(e, f) == IF e = 0 /\ f = 0 THEN 0 ELSE Ldexp(f + Fraction, e)

\* A denormal float of a mantissa.
Denormal(m) == 2 * ((m \div 4) * 2 + (IF m % 4 <= 1 THEN 0 ELSE (m % 4) - 1))

(* ldexp of the largest, the smallest and any other exponent.               *)
LEMMA LdexpCases ==
    ASSUME NEW m, NEW e \in 0..Exponent - 1
    PROVE  /\ e = Exponent - 1 => Ldexp(m, e) = Fraction * Power2[e]
           /\ e = 0 => Ldexp(m, e) = Denormal(m)
           /\ e \in 1..Exponent - 2 => Ldexp(m, e) = m * Power2[e]
<1>1. Exponent \in Int /\ Exponent > 1
      BY FloatConstants DEF Positive
<1>2. CASE e = Exponent - 1
      BY <1>1, <1>2 DEF Ldexp
<1>3. CASE e = 0
      BY <1>1, <1>3 DEF Ldexp, Denormal
<1>4. CASE e \in 1..Exponent - 2
  <2>1. e # Exponent - 1 /\ e # 0
        BY <1>1, <1>4
  <2> QED BY <2>1 DEF Ldexp
<1> QED BY <1>1, <1>2, <1>3, <1>4

(* Rounding to the resolution of denormal floats keeps their order, and     *)
(* none exceeds the number it is rounded from by more than one unit.        *)
LEMMA Denormals ==
    ASSUME NEW m \in Nat
    PROVE  /\ Denormal(m) \in Nat
           /\ Denormal(m) <= Denormal(m + 1)
           /\ Denormal(m) <= m + 1
<1> DEFINE q == m \div 4
           r == m % 4
<1>1. q \in Int /\ r \in Int /\ m = 4 * q + r /\ 0 <= r /\ r < 4
  <2>1. 4 \in Positive
        BY DEF Positive
  <2> QED BY <2>1, QuotientAndRest
<1>2. q >= 0
      BY <1>1
<1>3. \A k \in Nat, d \in 0..3 : (4 * k + d) \div 4 = k /\ (4 * k + d) % 4 = d
  <2>1. 4 \in Positive
        BY DEF Positive
  <2> SUFFICES ASSUME NEW k \in Nat, NEW d \in 0..3
               PROVE  (4 * k + d) \div 4 = k /\ (4 * k + d) % 4 = d
      OBVIOUS
  <2>2. 4 * k + d \in Int /\ k \in Int /\ d \in Int /\ 0 <= d /\ d < 4
        OBVIOUS
  <2> QED BY <2>1, <2>2, QuotientIsUnique
<1>4. \A k \in Nat, d \in 0..3 :
          Denormal(4 * k + d) = 2 * (k * 2 + (IF d <= 1 THEN 0 ELSE d - 1))
      BY <1>3 DEF Denormal
<1> HIDE DEF q, r
<1>5. q \in Nat /\ r \in 0..3
      BY <1>1, <1>2
<1>6. Denormal(m) = 2 * (q * 2 + (IF r <= 1 THEN 0 ELSE r - 1))
      BY <1>1, <1>4, <1>5
<1>7. CASE r = 3
  <2>1. m + 1 = 4 * (q + 1) + 0 /\ q + 1 \in Nat /\ 0 \in 0..3
        BY <1>1, <1>5, <1>7
  <2>2. Denormal(m + 1) = 2 * ((q + 1) * 2 + (IF 0 <= 1 THEN 0 ELSE 0 - 1))
        BY <1>4, <2>1
  <2> QED BY <1>1, <1>5, <1>6, <1>7, <2>2
<1>8. CASE r # 3
  <2>1. m + 1 = 4 * q + (r + 1) /\ r + 1 \in 0..3
        BY <1>1, <1>5, <1>8
  <2>2. Denormal(m + 1) = 2 * (q * 2 + (IF r + 1 <= 1 THEN 0 ELSE (r + 1) - 1))
        BY <1>4, <1>5, <2>1
  <2> QED BY <1>1, <1>5, <1>6, <1>8, <2>2
<1> QED BY <1>7, <1>8

(* The value of an exponent and a fraction is a number.                     *)
LEMMA MagnitudeIsNumber ==
    ASSUME NEW e \in 0..Exponent - 1, NEW f \in 0..Fraction - 1
    PROVE  Magnitude(e, f) \in Nat
<1>1. Fraction \in Positive /\ Exponent \in Int /\ Exponent > 1
      BY FloatConstants DEF Positive
<1>2. Power2[e] \in Positive
  <2>1. e \in 0..Exponent
        BY <1>1
  <2> QED BY <2>1, Powers
<1>3. f + Fraction \in Nat
      BY <1>1 DEF Positive
<1>4. Ldexp(f + Fraction, e) \in Nat
  <2>1. CASE e = Exponent - 1
    <3>1. Ldexp(f + Fraction, e) = Fraction * Power2[e]
          BY <2>1, LdexpCases
    <3> QED BY <1>1, <1>2, <3>1 DEF Positive
  <2>2. CASE e = 0
        BY <1>3, <2>2, LdexpCases, Denormals
  <2>3. CASE e \in 1..Exponent - 2
    <3>1. Ldexp(f + Fraction, e) = (f + Fraction) * Power2[e]
          BY <2>3, LdexpCases
    <3> QED BY <1>2, <1>3, <3>1 DEF Positive
  <2> QED BY <1>1, <2>1, <2>2, <2>3
<1> QED BY <1>4 DEF Magnitude

(* The next word with the same exponent, and the first one of the next.     *)
LEMMA NextFraction ==
    ASSUME NEW e \in 0..Exponent - 1, NEW f \in 0..Fraction - 1, f + 1 < Fraction
    PROVE  /\ Magnitude(e, f) <= Magnitude(e, f + 1)
           /\ e \in 1..Exponent - 2 => Magnitude(e, f) < Magnitude(e, f + 1)
<1>1. Fraction \in Positive /\ Fraction \in Int /\ Exponent \in Int /\ Exponent > 1
      BY FloatConstants DEF Positive
<1>2. Power2[e] \in Positive
  <2>1. e \in 0..Exponent
        BY <1>1
  <2> QED BY <2>1, Powers
<1>3. f + 1 \in 0..Fraction - 1 /\ f + 1 # 0
      BY <1>1
<1>4. Magnitude(e, f + 1) \in Nat
      BY <1>3, MagnitudeIsNumber
<1>5. Magnitude(e, f + 1) = Ldexp((f + 1) + Fraction, e)
      BY <1>3 DEF Magnitude
<1>6. CASE e = Exponent - 1
  <2>1. Magnitude(e, f) = Fraction * Power2[e]
        BY <1>1, <1>6, LdexpCases DEF Magnitude
  <2>2. Magnitude(e, f + 1) = Fraction * Power2[e]
        BY <1>5, <1>6, LdexpCases
  <2> QED BY <1>1, <1>4, <1>6, <2>1, <2>2
<1>7. CASE e = 0
  <2>1. CASE f = 0
    <3>1. Magnitude(e, f) = 0
          BY <1>7, <2>1 DEF Magnitude
    <3> QED BY <1>4, <1>7, <3>1
  <2>2. CASE f # 0
    <3>1. f + Fraction \in Nat /\ (f + 1) + Fraction = (f + Fraction) + 1
          BY <1>1 DEF Positive
    <3>2. Magnitude(e, f) = Denormal(f + Fraction)
          BY <1>7, <2>2, LdexpCases DEF Magnitude
    <3>3. Magnitude(e, f + 1) = Denormal((f + Fraction) + 1)
          BY <1>5, <1>7, <3>1, LdexpCases
    <3> QED BY <1>7, <3>1, <3>2, <3>3, Denormals
  <2> QED BY <2>1, <2>2
<1>8. CASE e \in 1..Exponent - 2
  <2> DEFINE x == Power2[e]
  <2>1. e # 0
        BY <1>8
  <2>2. Magnitude(e, f) = (f + Fraction) * x
        BY <1>8, <2>1, LdexpCases DEF Magnitude
  <2>3. Magnitude(e, f + 1) = ((f + 1) + Fraction) * x
        BY <1>5, <1>8, LdexpCases
  <2>4. x \in Positive
        BY <1>2
  <2> HIDE DEF x
  <2>5. ((f + 1) + Fraction) * x = (f + Fraction) * x + x /\ (f + Fraction) * x \in Int
        BY <1>1, <2>4 DEF Positive
  <2> QED BY <2>2, <2>3, <2>4, <2>5 DEF Positive
<1> QED BY <1>1, <1>6, <1>7, <1>8

(* The last fraction of an exponent is below the first one of the next.     *)
LEMMA NextExponent ==
    ASSUME NEW e \in 0..Exponent - 2
    PROVE  /\ Magnitude(e, Fraction - 1) <= Magnitude(e + 1, 0)
           /\ e # 0 => Magnitude(e, Fraction - 1) < Magnitude(e + 1, 0)
<1>1. Fraction \in Positive /\ Fraction \in Int /\ Exponent \in Int /\ Exponent > 1
      BY FloatConstants DEF Positive
<1>2. /\ Power2[e] \in Positive /\ Power2[e + 1] = 2 * Power2[e]
      /\ e = 0 => Power2[e] = 1
  <2>1. e \in 0..Exponent /\ e \in 0..Exponent - 1
        BY <1>1
  <2> QED BY <2>1, Powers
<1>3. e \in 0..Exponent - 1 /\ e + 1 \in 0..Exponent - 1 /\ e + 1 # 0
      BY <1>1
<1>4. Magnitude(e + 1, 0) = Fraction * Power2[e + 1]
  <2>1. Magnitude(e + 1, 0) = Ldexp(0 + Fraction, e + 1)
        BY <1>3 DEF Magnitude
  <2>2. 0 + Fraction = Fraction
        BY <1>1
  <2>3. e + 1 = Exponent - 1 \/ e + 1 \in 1..Exponent - 2
        BY <1>1
  <2> QED BY <1>3, <2>1, <2>2, <2>3, LdexpCases
<1> DEFINE x == Power2[e]
           last == (Fraction - 1) + Fraction
<1>5. last \in Nat
      BY <1>1 DEF Positive
<1>6. CASE e = 0
  <2>1. x = 1
        BY <1>2, <1>6
  <2>2. Magnitude(e + 1, 0) = 2 * Fraction
        BY <1>1, <1>2, <1>4, <2>1
  <2>3. Magnitude(e, Fraction - 1) = 0 \/ Magnitude(e, Fraction - 1) = Denormal(last)
        BY <1>3, <1>6, LdexpCases DEF Magnitude
  <2>4. Denormal(last) \in Nat /\ Denormal(last) <= last + 1
        BY <1>5, Denormals
  <2>5. last + 1 = 2 * Fraction /\ 0 <= 2 * Fraction
        BY <1>1 DEF Positive
  <2> QED BY <1>6, <2>2, <2>3, <2>4, <2>5
<1>7. CASE e # 0
  <2>1. e \in 1..Exponent - 2
        BY <1>1, <1>7
  <2>2. Magnitude(e, Fraction - 1) = last * x
        BY <1>3, <1>7, <2>1, LdexpCases DEF Magnitude
  <2>3. x \in Positive /\ Magnitude(e + 1, 0) = Fraction * (2 * x)
        BY <1>2, <1>4
  <2> HIDE DEF x
  <2>4. Fraction * (2 * x) = last * x + x /\ last * x \in Int
        BY <1>1, <2>3 DEF Positive
  <2> HIDE DEF last
  <2> QED BY <2>2, <2>3, <2>4 DEF Positive
<1> QED BY <1>6, <1>7

-----------------------------------------------------------------------------
(* The order of the floats.                                                 *)

(* The float of a word is the value of its parts, with their sign.          *)
LEMMA WordValue ==
    ASSUME NEW w \in 0..Modulus(4) - 1
    PROVE  LET m == Magnitude(ExponentOf(w), FractionOf(w)) IN
           Word(w) = IF SignOf(w) = 1 THEN -m ELSE m
BY WordIsRead DEF Word, getFloat32Auto, Magnitude, SignOf, ExponentOf, FractionOf

(* The parts of the next word, unless its sign is another one.              *)
LEMMA NextWord ==
    ASSUME NEW w \in 0..Modulus(4) - 2, w + 1 # Fraction * Exponent
    PROVE  LET e == ExponentOf(w)
               f == FractionOf(w)
           IN  /\ SignOf(w + 1) = SignOf(w)
               /\ \/ /\ f + 1 < Fraction
                     /\ ExponentOf(w + 1) = e /\ FractionOf(w + 1) = f + 1
                  \/ /\ f = Fraction - 1 /\ e \in 0..Exponent - 2
                     /\ ExponentOf(w + 1) = e + 1 /\ FractionOf(w + 1) = 0
<1> DEFINE q == w \div Fraction
           s == SignOf(w)
           e == ExponentOf(w)
           f == FractionOf(w)
           b == Fraction * Exponent
<1>1. /\ Fraction \in Positive /\ Exponent \in Positive /\ Exponent > 1 /\ b \in Positive
      /\ Fraction \in Int /\ Exponent \in Int /\ b \in Int
      /\ Modulus(4) = 2 * b
      BY FloatConstants DEF Positive
<1>2. w \in 0..Modulus(4) - 1
      BY <1>1
<1>3. /\ w \in Int /\ w = Fraction * q + f /\ q = Exponent * s + e /\ q \in Int
      /\ f \in 0..Fraction - 1 /\ e \in 0..Exponent - 1 /\ s \in {0, 1}
      BY <1>2, Parts
<1>4. w + 1 # b /\ w + 1 # 2 * b
      BY <1>1, <1>3
<1>5. /\ (w + 1) \div b = ((w + 1) \div Fraction) \div Exponent
      /\ SignOf(w + 1) = (w + 1) \div b
  <2>1. w + 1 \in Int
        BY <1>3
  <2> QED BY <1>1, <2>1, QuotientOfQuotient DEF SignOf
<1>6. /\ ExponentOf(w + 1) = ((w + 1) \div Fraction) % Exponent
      /\ FractionOf(w + 1) = (w + 1) % Fraction
      BY DEF ExponentOf, FractionOf
<1> HIDE DEF q, s, e, f
<1>7. CASE f + 1 < Fraction
  <2>1. w + 1 = Fraction * q + (f + 1)
        BY <1>1, <1>3
  <2>2. f + 1 \in Int /\ 0 <= f + 1 /\ w + 1 \in Int
        BY <1>1, <1>3
  <2>3. (w + 1) \div Fraction = q /\ (w + 1) % Fraction = f + 1
    <3>1. q \in Int /\ Fraction \in Positive
          BY <1>1, <1>3
    <3> QED BY <1>7, <2>1, <2>2, <3>1, QuotientIsUnique
  <2>4. s \in Int /\ e \in Int /\ 0 <= e /\ e < Exponent
        BY <1>1, <1>3
  <2>5. q \div Exponent = s /\ q % Exponent = e
        BY <1>1, <1>3, <2>4, QuotientIsUnique
  <2> QED BY <1>5, <1>6, <1>7, <2>3, <2>5 DEF s, e, f
<1>8. CASE ~(f + 1 < Fraction)
  <2>1. f = Fraction - 1
        BY <1>1, <1>3, <1>8
  <2>2. w + 1 = Fraction * (q + 1) + 0
    <3>1. Fraction * (q + 1) = Fraction * q + Fraction /\ Fraction * q \in Int
          BY <1>1, <1>3
    <3> QED BY <1>1, <1>3, <2>1, <3>1
  <2>3. w + 1 \in Int /\ q + 1 \in Int
        BY <1>3
  <2>4. (w + 1) \div Fraction = q + 1 /\ (w + 1) % Fraction = 0
    <3>1. 0 \in Int /\ 0 <= 0 /\ 0 < Fraction
          BY <1>1 DEF Positive
    <3> QED BY <1>1, <2>2, <2>3, <3>1, QuotientIsUnique
  <2>5. e + 1 # Exponent
    <3> SUFFICES ASSUME e + 1 = Exponent PROVE FALSE
        OBVIOUS
    <3>1. q + 1 = Exponent * (s + 1)
          BY <1>1, <1>3
    <3>2. CASE s = 0
      <4>1. q + 1 = Exponent
            BY <1>1, <3>1, <3>2
      <4>2. w + 1 = Fraction * Exponent
            BY <1>1, <2>2, <4>1
      <4> QED BY <1>4, <4>2
    <3>3. CASE s = 1
      <4>1. q + 1 = Exponent * 2
            BY <1>1, <3>1, <3>3
      <4>2. Fraction * (Exponent * 2) = 2 * (Fraction * Exponent)
            BY <1>1
      <4>3. w + 1 = 2 * (Fraction * Exponent)
            BY <1>1, <2>2, <4>1, <4>2
      <4> QED BY <1>4, <4>3
    <3> QED BY <1>3, <3>2, <3>3
  <2>6. e \in 0..Exponent - 2 /\ e + 1 \in Int /\ 0 <= e + 1 /\ e + 1 < Exponent /\ s \in Int
        BY <1>1, <1>3, <2>5
  <2>7. q + 1 = Exponent * s + (e + 1)
    <3>1. Exponent * s \in Int
          BY <1>1, <2>6
    <3> QED BY <1>3, <2>6, <3>1
  <2>8. (q + 1) \div Exponent = s /\ (q + 1) % Exponent = e + 1
        BY <1>1, <2>3, <2>6, <2>7, QuotientIsUnique
  <2> QED BY <1>5, <1>6, <2>1, <2>4, <2>6, <2>8 DEF s, e, f
<1> QED BY <1>7, <1>8

(* The next word is a float no nearer to zero, and farther from it where    *)
(* the exponent is that of a normal number.                                 *)
LEMMA FloatsInOrder ==
    ASSUME NEW w \in Words
    PROVE  LET sign == Fraction * Exponent
               normal == (w \div Fraction) % Exponent \in 1..Exponent - 2
           IN  IF w >= sign
               THEN /\ Word(w + 1) <= Word(w)
                    /\ normal => Word(w + 1) < Word(w)
               ELSE w + 1 # sign =>
                    /\ Word(w) <= Word(w + 1)
                    /\ normal => Word(w) < Word(w + 1)
<1> DEFINE sign == Fraction * Exponent
           e == ExponentOf(w)
           f == FractionOf(w)
           m == Magnitude(e, f)
           n == Magnitude(ExponentOf(w + 1), FractionOf(w + 1))
           normal == e \in 1..Exponent - 2
<1>1. /\ Exponent \in Int /\ Exponent > 1 /\ Fraction \in Int /\ sign \in Int
      /\ Modulus(4) = 2 * sign
      BY FloatConstants DEF Positive
<1>2. w \in 0..Modulus(4) - 2
      BY WordAssumption
<1>3. w \in 0..Modulus(4) - 1 /\ w + 1 \in 0..Modulus(4) - 1 /\ w \in Int
      BY <1>1, <1>2
<1>4. /\ f \in 0..Fraction - 1 /\ e \in 0..Exponent - 1
      /\ SignOf(w) = 1 <=> w >= sign
      BY <1>3, Parts
<1>5. /\ FractionOf(w + 1) \in 0..Fraction - 1 /\ ExponentOf(w + 1) \in 0..Exponent - 1
      BY <1>3, Parts
<1>6. m \in Nat /\ n \in Nat
      BY <1>4, <1>5, MagnitudeIsNumber
<1>7. normal <=> (w \div Fraction) % Exponent \in 1..Exponent - 2
      BY DEF ExponentOf
<1>8. ASSUME w + 1 # sign
      PROVE  SignOf(w + 1) = SignOf(w) /\ m <= n /\ (normal => m < n)
  <2>1. /\ SignOf(w + 1) = SignOf(w)
        /\ \/ /\ f + 1 < Fraction
              /\ ExponentOf(w + 1) = e /\ FractionOf(w + 1) = f + 1
           \/ /\ f = Fraction - 1 /\ e \in 0..Exponent - 2
              /\ ExponentOf(w + 1) = e + 1 /\ FractionOf(w + 1) = 0
        BY <1>2, <1>8, NextWord
  <2>2. normal => e # 0
        BY <1>1
  <2> HIDE DEF e, f, normal
  <2>3. CASE /\ f + 1 < Fraction
             /\ ExponentOf(w + 1) = e /\ FractionOf(w + 1) = f + 1
    <3>1. /\ Magnitude(e, f) <= Magnitude(e, f + 1)
          /\ normal => Magnitude(e, f) < Magnitude(e, f + 1)
          BY <1>4, <2>3, NextFraction DEF normal
    <3> QED BY <2>1, <2>3, <3>1
  <2>4. CASE /\ f = Fraction - 1 /\ e \in 0..Exponent - 2
             /\ ExponentOf(w + 1) = e + 1 /\ FractionOf(w + 1) = 0
    <3>1. /\ Magnitude(e, Fraction - 1) <= Magnitude(e + 1, 0)
          /\ e # 0 => Magnitude(e, Fraction - 1) < Magnitude(e + 1, 0)
          BY <2>4, NextExponent
    <3> QED BY <2>1, <2>2, <2>4, <3>1
  <2> QED BY <2>1, <2>3, <2>4
<1>9. /\ Word(w) = IF SignOf(w) = 1 THEN -m ELSE m
      /\ Word(w + 1) = IF SignOf(w + 1) = 1 THEN -n ELSE n
      BY <1>3, WordValue
<1>10. w >= sign => w + 1 # sign
       BY <1>1, <1>3
<1> HIDE DEF sign, e, f, m, n, normal
<1>11. CASE w >= sign
  <2>1. Word(w) = -m /\ Word(w + 1) = -n /\ m <= n /\ (normal => m < n)
        BY <1>4, <1>8, <1>9, <1>10, <1>11
  <2>2. Word(w + 1) <= Word(w) /\ (normal => Word(w + 1) < Word(w))
        BY <1>6, <2>1
  <2> QED BY <1>7, <1>11, <2>2 DEF sign
<1>12. CASE ~(w >= sign)
  <2>1. w + 1 # sign => Word(w) = m /\ Word(w + 1) = n /\ m <= n /\ (normal => m < n)
        BY <1>4, <1>8, <1>9, <1>12
  <2> QED BY <1>7, <1>12, <2>1 DEF sign
<1> QED BY <1>11, <1>12

(* Floats have the order of their words: FloatKeepsOrder.                   *)
THEOREM FloatsKeepTheOrderOfWords == Spec => []FloatKeepsOrder
<1>1. TypeOK => FloatKeepsOrder
      BY Inputs, FloatsInOrder DEF FloatKeepsOrder
<1> QED BY <1>1, InputTypeCorrect, PTL

-----------------------------------------------------------------------------
(* Every word is read as a number.                                          *)
LEMMA WordIsNumber ==
    ASSUME NEW w \in 0..Modulus(4) - 1
    PROVE  Word(w) \in Int
<1>1. Magnitude(ExponentOf(w), FractionOf(w)) \in Nat
      BY Parts, MagnitudeIsNumber
<1> QED BY <1>1, WordValue

(* A member of the mask is read from its place among the members sent.      *)
LEMMA MembersAreRead ==
    ASSUME NEW mask \in Masks, NEW words \in ImuData, NEW i \in mask
    PROVE  LET member == ImuMember(ImuPayload(mask, words), mask, i) IN
           member = Word(words[i]) /\ member # Uninitialized
<1> DEFINE p == ImuPayload(mask, words)
           at == ImuOffset(mask, i)
<1>1. words[i] \in 0..Modulus(4) - 1 /\ GetUnsigned(p, at, 4) = words[i]
      BY FieldIsRead
<1>2. GetUnsigned(PutInt(words[i], 4), 0, 4) = words[i]
      BY <1>1, WordIsRead
<1> HIDE DEF p, at
<1>3. getFloat32Auto(p, at) = Word(words[i])
      BY <1>1, <1>2, FloatOfWord DEF Word
<1>4. Word(words[i]) \in Int
      BY <1>1, WordIsNumber
<1> QED BY <1>3, <1>4, CodecAssumption DEF ImuMember, p, at

(* Every member that an IMU packet holds gets the float of its own field,   *)
(* and the answer to a request leaves none unset: ImuRead.                  *)
THEOREM ImuMembersAreRead == Spec => []ImuRead
<1>1. TypeOK => ImuRead
  <2> SUFFICES ASSUME TypeOK, input.kind = "imu"
               PROVE  ImuRead
      BY DEF ImuRead
  <2>1. input.mask \in Masks /\ input.words \in ImuData
        BY Inputs
  <2>2. \A i \in input.mask :
            LET member == ImuMember(ImuPayload(input.mask, input.words), input.mask, i) IN
            member = Word(input.words[i]) /\ member # Uninitialized
        BY <2>1, MembersAreRead
  <2> QED BY <2>2 DEF ImuRead, RequestedImuFields
<1> QED BY <1>1, InputTypeCorrect, PTL

-----------------------------------------------------------------------------
(* The constructor of VescPacketFWVersion.                                  *)

(* The part of a sequence that holds another one is that one.               *)
LEMMA Slice ==
    ASSUME NEW p \in Seq(Int), NEW a \in Nat \ {0}, NEW q \in Seq(Int),
           a + Len(q) - 1 <= Len(p),
           \A j \in 1..Len(q) : p[a + j - 1] = q[j]
    PROVE  SubSeq(p, a, a + Len(q) - 1) = q
<1> DEFINE b == a + Len(q) - 1
           r == SubSeq(p, a, b)
<1>1. Len(q) \in Nat /\ Len(p) \in Nat
      BY LenProperties
<1>2. r = [j \in 1..Len(q) |-> p[a + j - 1]]
      OBVIOUS
<1> QED BY <1>2

(* What a version packet has at each of its places.                         *)
LEMMA Join ==
    ASSUME NEW s \in Seq(Int), NEW t \in Seq(Int)
    PROVE  /\ s \o t \in Seq(Int)
           /\ Len(s) \in Nat /\ Len(t) \in Nat
           /\ Len(s \o t) = Len(s) + Len(t)
           /\ \A j \in 1..Len(s) : (s \o t)[j] = s[j]
           /\ \A j \in 1..Len(t) : (s \o t)[Len(s) + j] = t[j]
<1>1. Len(s) \in Nat /\ Len(t) \in Nat
      BY LenProperties
<1>2. /\ s \o t \in Seq(Int) /\ Len(s \o t) = Len(s) + Len(t)
      /\ \A i \in 1..Len(s) + Len(t) :
             (s \o t)[i] = IF i <= Len(s) THEN s[i] ELSE t[i - Len(s)]
      BY ConcatProperties
<1>3. /\ \A j \in 1..Len(s) : j \in 1..Len(s) + Len(t) /\ j <= Len(s)
      /\ \A j \in 1..Len(t) : /\ Len(s) + j \in 1..Len(s) + Len(t)
                              /\ ~(Len(s) + j <= Len(s))
                              /\ (Len(s) + j) - Len(s) = j
      BY <1>1
<1> QED BY <1>1, <1>2, <1>3

(* Where the firmware puts the name, its end, the uuid and the pairing      *)
(* flag.                                                                    *)
LEMMA VersionLayout ==
    ASSUME NEW name \in Seq(Int), NEW uuid \in Seq(Int), Len(uuid) = 12, NEW paired \in Int
    PROVE  LET p == VersionPayload(name, uuid, paired)
               n == Len(name)
           IN  /\ p \in Seq(Int) /\ n \in Nat /\ Len(p) = n + 20
               /\ \A j \in 1..n : p[3 + j] = name[j]
               /\ p[4 + n] = 0
               /\ \A j \in 1..12 : p[(4 + n) + j] = uuid[j]
               /\ p[17 + n] = paired
<1> DEFINE head == <<0, 5, 2>>
           zero == <<0>>
           tail == <<paired, 7, 9, 0>>
           n == Len(name)
           p1 == head \o name
           p2 == p1 \o zero
           p3 == p2 \o uuid
           p4 == p3 \o tail
<1>1. /\ head \in Seq(Int) /\ Len(head) = 3
      /\ zero \in Seq(Int) /\ Len(zero) = 1 /\ zero[1] = 0
      /\ tail \in Seq(Int) /\ Len(tail) = 4 /\ tail[1] = paired
      OBVIOUS
<1>2. VersionPayload(name, uuid, paired) = p4
      BY DEF VersionPayload
<1> HIDE DEF head, zero, tail
<1>3. /\ p1 \in Seq(Int) /\ n \in Nat /\ Len(p1) = 3 + n
      /\ \A j \in 1..n : p1[3 + j] = name[j]
  <2>1. /\ p1 \in Seq(Int) /\ Len(name) \in Nat /\ Len(p1) = Len(head) + Len(name)
        /\ \A j \in 1..Len(name) : p1[Len(head) + j] = name[j]
        BY <1>1, Join
  <2> HIDE DEF p1
  <2> QED BY <1>1, <2>1
<1> HIDE DEF n, p1
<1>4. /\ p2 \in Seq(Int) /\ Len(p2) = 4 + n
      /\ \A j \in 1..3 + n : p2[j] = p1[j]
      /\ p2[(3 + n) + 1] = 0
  <2>1. /\ p2 \in Seq(Int) /\ Len(p2) = Len(p1) + Len(zero)
        /\ \A j \in 1..Len(p1) : p2[j] = p1[j]
        /\ \A j \in 1..Len(zero) : p2[Len(p1) + j] = zero[j]
        BY <1>1, <1>3, Join
  <2>2. 1 \in 1..1
        OBVIOUS
  <2> HIDE DEF p2
  <2> QED BY <1>1, <1>3, <2>1, <2>2
<1> HIDE DEF p2
<1>5. /\ p3 \in Seq(Int) /\ Len(p3) = 16 + n
      /\ \A j \in 1..4 + n : p3[j] = p2[j]
      /\ \A j \in 1..12 : p3[(4 + n) + j] = uuid[j]
  <2>1. /\ p3 \in Seq(Int) /\ Len(p3) = Len(p2) + Len(uuid)
        /\ \A j \in 1..Len(p2) : p3[j] = p2[j]
        /\ \A j \in 1..Len(uuid) : p3[Len(p2) + j] = uuid[j]
        BY <1>4, Join
  <2> HIDE DEF p3
  <2> QED BY <1>3, <1>4, <2>1
<1> HIDE DEF p3
<1>6. /\ p4 \in Seq(Int) /\ Len(p4) = n + 20
      /\ \A j \in 1..16 + n : p4[j] = p3[j]
      /\ p4[(16 + n) + 1] = paired
  <2>1. /\ p4 \in Seq(Int) /\ Len(p4) = Len(p3) + Len(tail)
        /\ \A j \in 1..Len(p3) : p4[j] = p3[j]
        /\ \A j \in 1..Len(tail) : p4[Len(p3) + j] = tail[j]
        BY <1>1, <1>5, Join
  <2>2. 1 \in 1..4
        OBVIOUS
  <2> HIDE DEF p4
  <2> QED BY <1>1, <1>3, <1>5, <2>1, <2>2
<1> HIDE DEF p4
<1>7. ASSUME NEW j \in 1..n PROVE p4[3 + j] = name[j]
  <2>1. 3 + j \in 1..3 + n /\ 3 + j \in 1..4 + n /\ 3 + j \in 1..16 + n
        BY <1>3
  <2> QED BY <1>3, <1>4, <1>5, <1>6, <2>1
<1>8. p4[4 + n] = 0
  <2>1. 4 + n \in 1..4 + n /\ 4 + n \in 1..16 + n /\ 4 + n = (3 + n) + 1
        BY <1>3
  <2> QED BY <1>4, <1>5, <1>6, <2>1
<1>9. ASSUME NEW j \in 1..12 PROVE p4[(4 + n) + j] = uuid[j]
  <2>1. (4 + n) + j \in 1..16 + n
        BY <1>3
  <2> QED BY <1>5, <1>6, <2>1
<1>10. p4[17 + n] = paired
  <2>1. 17 + n = (16 + n) + 1
        BY <1>3
  <2> QED BY <1>6, <2>1
<1> QED BY <1>2, <1>3, <1>6, <1>7, <1>8, <1>9, <1>10 DEF n

(* The constructor of VescPacketFWVersion reads the three back: the name    *)
(* ends at the first zero, and the uuid begins behind it.                   *)
LEMMA VersionIsRead ==
    ASSUME NEW name \in Names, NEW uuid \in Uuids, NEW paired \in {0, 1}, name # <<>>
    PROVE  LET v == FWVersion(VersionPayload(name, uuid, paired)) IN
           /\ v.hwname = name
           /\ v.uuid = uuid
           /\ v.paired = (paired = 1)
<1> DEFINE p == VersionPayload(name, uuid, paired)
           n == Len(name)
           HasLength(k) == /\ p[4 + k] = 0
                           /\ \A j \in 0..k - 1 : p[4 + j] # 0
<1>1. /\ name \in Seq(Byte \ {0}) /\ uuid \in [1..12 -> Byte]
      /\ Byte \subseteq Int
  <2>1. Byte \subseteq Int
        BY BaseIsPositive DEF Byte, Positive
  <2> QED BY <2>1, VersionAssumption
<1>2. /\ name \in Seq(Int) /\ n \in Nat /\ n # 0
      /\ \A j \in 1..n : name[j] # 0
  <2>1. n \in Nat /\ name \in [1..n -> Byte \ {0}]
        BY <1>1, LenProperties
  <2>2. name \in Seq(Int)
    <3>1. Byte \ {0} \subseteq Int
          BY <1>1
    <3> QED BY <1>1, <3>1, SeqMonotonic
  <2>3. n # 0
        BY <2>2, EmptySeq
  <2> QED BY <2>1, <2>2, <2>3
<1>3. uuid \in Seq(Int) /\ Len(uuid) = 12
  <2>1. uuid \in [1..12 -> Int]
        BY <1>1
  <2>2. \A k \in Nat : [1..k -> Int] \subseteq Seq(Int)
        BY SeqDef
  <2>3. uuid \in Seq(Int)
        BY <2>1, <2>2
  <2>4. Len(uuid) \in Nat /\ 1..Len(uuid) = 1..12
        BY <2>1, <2>3, LenProperties
  <2>5. \A k \in Nat : 1..k = 1..12 => k = 12
    <3> SUFFICES ASSUME NEW k \in Nat, 1..k = 1..12, k # 12 PROVE FALSE
        OBVIOUS
    <3> DEFINE a == 1..k
               b == 1..12
    <3>1. 12 \in b /\ a = b
          OBVIOUS
    <3> HIDE DEF b
    <3>2. 12 \in a
          BY <3>1
    <3>3. k \in a
          BY <3>2
    <3>4. k \in b
          BY <3>1, <3>3
    <3> QED BY <3>2, <3>4 DEF b
  <2> QED BY <2>3, <2>4, <2>5
<1>4. /\ p \in Seq(Int) /\ Len(p) = n + 20
      /\ \A j \in 1..n : p[3 + j] = name[j]
      /\ p[4 + n] = 0
      /\ \A j \in 1..12 : p[(4 + n) + j] = uuid[j]
      /\ p[17 + n] = paired
  <2>1. paired \in Int
        OBVIOUS
  <2>2. LET q == VersionPayload(name, uuid, paired)
            k == Len(name)
        IN  /\ q \in Seq(Int) /\ k \in Nat /\ Len(q) = k + 20
            /\ \A j \in 1..k : q[3 + j] = name[j]
            /\ q[4 + k] = 0
            /\ \A j \in 1..12 : q[(4 + k) + j] = uuid[j]
            /\ q[17 + k] = paired
    <3> HIDE DEF p, n
    <3> QED BY <1>2, <1>3, <2>1, VersionLayout
  <2> QED BY <2>2
<1> HIDE DEF p, n
<1>5. ASSUME NEW k \in 0..n - 1 PROVE p[4 + k] # 0
  <2>1. k + 1 \in 1..n /\ 4 + k = 3 + (k + 1)
        BY <1>2
  <2> QED BY <1>2, <1>4, <2>1
<1>6. \A k \in 0..Len(p) : HasLength(k) <=> k = n
  <2> SUFFICES ASSUME NEW k \in 0..Len(p) PROVE HasLength(k) <=> k = n
      OBVIOUS
  <2>1. k < n => k \in 0..n - 1
        BY <1>2
  <2>2. n < k => n \in 0..k - 1
        BY <1>2
  <2>3. k < n \/ n < k \/ k = n
        BY <1>2, <1>4
  <2> QED BY <1>4, <1>5, <2>1, <2>2, <2>3
<1>7. NameLength(p) = n
  <2>1. n \in 0..Len(p)
        BY <1>2, <1>4
  <2>2. NameLength(p) = CHOOSE k \in 0..Len(p) : HasLength(k)
        BY DEF NameLength
  <2> HIDE DEF HasLength
  <2> QED BY <1>6, <2>1, <2>2
<1>8. NameEnd(p) = n
      BY <1>2, <1>7 DEF NameEnd
<1>9. FWVersion(p).hwname = name
  <2>1. SubSeq(p, 4, 4 + Len(name) - 1) = name
    <3>1. \A j \in 1..Len(name) : p[4 + j - 1] = name[j]
          BY <1>2, <1>4 DEF n
    <3>2. 4 + Len(name) - 1 <= Len(p) /\ 4 \in Nat \ {0}
          BY <1>2, <1>4 DEF n
    <3> QED BY <1>2, <1>4, <3>1, <3>2, Slice
  <2>2. 4 + Len(name) - 1 = 3 + n
        BY <1>2 DEF n
  <2> QED BY <1>7, <2>1, <2>2 DEF FWVersion
<1>10. FWVersion(p).uuid = uuid
  <2> DEFINE a == 5 + n
  <2>1. SubSeq(p, a, a + Len(uuid) - 1) = uuid
    <3>1. ASSUME NEW j \in 1..Len(uuid) PROVE p[a + j - 1] = uuid[j]
      <4>1. a + j - 1 = (4 + n) + j
            BY <1>2, <1>3
      <4> QED BY <1>3, <1>4, <4>1
    <3>2. a + Len(uuid) - 1 <= Len(p) /\ a \in Nat \ {0}
          BY <1>2, <1>3, <1>4
    <3> HIDE DEF a
    <3> QED BY <1>3, <1>4, <3>1, <3>2, Slice
  <2>2. a + Len(uuid) - 1 = a + 11
        BY <1>2, <1>3
  <2> QED BY <1>8, <2>1, <2>2 DEF FWVersion
<1>11. FWVersion(p).paired = (paired = 1)
  <2>1. (5 + n) + 12 = 17 + n
        BY <1>2
  <2> QED BY <1>4, <1>8, <2>1 DEF FWVersion
<1> QED BY <1>9, <1>10, <1>11 DEF p

(* A version packet with a name is parsed as it was meant: VersionRead.     *)
THEOREM VersionsAreRead == Spec => []VersionRead
<1>1. TypeOK => VersionRead
      BY Inputs, VersionIsRead DEF VersionRead
<1> QED BY <1>1, InputTypeCorrect, PTL

-----------------------------------------------------------------------------
(* The messages of the driver and the interfaces of the hardware plugin.    *)

(* The tables of both programs.                                             *)
LEMMA StateTables ==
    /\ DriverState = HardwareState
    /\ {DriverState[f] : f \in DOMAIN DriverState} = ValuesFields
<1>1. DriverState = HardwareState
      BY DEF DriverState, HardwareState
<1>2. {DriverState[f] : f \in DOMAIN DriverState} = ValuesFields
      BY DEF DriverState, ValuesFields
<1> QED BY <1>1, <1>2

(* The sensor tables of the driver and of the hardware interface.           *)
LEMMA ImuTables ==
    /\ \A group \in DOMAIN HardwareImu \ {"ypr"} : DriverImu[group] = HardwareImu[group]
    /\ \A group \in DOMAIN DriverStandardImu :
           /\ DriverStandardImu[group] = HardwareImu[group]
           /\ ImuAtomics[group] = HardwareImu[group]
    /\ ImuAtomics["magnetic_field"] = HardwareImu["compass"]
    /\ HardwareImu["ypr"] = XYZ("yaw", "pitch", "roll")
    /\ ImuAtomics["euler_angles"] = [roll |-> "roll", pitch |-> "pitch", yaw |-> "yaw"]
BY DEF DriverImu, HardwareImu, DriverStandardImu, ImuAtomics

(* The angles of a VescImu of the component are those of the interfaces.    *)
LEMMA Angles ==
    ASSUME NEW packet
    PROVE  LET angles == Fill(ImuAtomics["euler_angles"], packet) IN
           Fill(HardwareImu["ypr"], packet) = XYZ(angles.yaw, angles.pitch, angles.roll)
<1> DEFINE names == [roll |-> "roll", pitch |-> "pitch", yaw |-> "yaw"]
           angles == Fill(names, packet)
<1>1. /\ angles.yaw = packet["yaw"] /\ angles.pitch = packet["pitch"]
      /\ angles.roll = packet["roll"]
      BY DEF Fill
<1> HIDE DEF angles
<1>2. Fill(XYZ("yaw", "pitch", "roll"), packet) =
          XYZ(packet["yaw"], packet["pitch"], packet["roll"])
      BY DEF Fill, XYZ
<1> QED BY <1>1, <1>2, ImuTables DEF angles

(* For every telemetry packet, the state interfaces of the hardware plugin  *)
(* (vesc_hardware.cpp) and the messages of the driver node                  *)
(* (vesc_driver.cpp) hold the same numbers under the same names; nothing is *)
(* said of the driver's yaw, pitch and roll.                                *)
THEOREM MessagesAgree == Spec => []TelemetryAgrees
<1>1. TelemetryAgrees
      BY StateTables, ImuTables, Angles DEF TelemetryAgrees
<1> QED BY <1>1, PTL
=============================================================================
