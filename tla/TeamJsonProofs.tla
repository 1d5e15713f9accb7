--------------------------- MODULE TeamJsonProofs ---------------------------
(***************************************************************************)
(* What TeamStatus::getJson makes of a list of solutions of any length.    *)
(***************************************************************************)
EXTENDS TeamJson, LeastNumber, SequenceTheorems

Kinds == Seq(BOOLEAN)

\* The loop up to turn n: each object is the one before, with a solve added.
IsLoop(f, list, n) ==
    f = [i \in 0 .. n |-> IF i = 0 THEN NoSolves ELSE ShowSolve(f[i - 1], i, list[i])]

\* The equation of the loop has a solution: every turn can be taken.
LEMMA LoopRuns ==
    ASSUME NEW list \in Kinds, NEW n \in Nat
    PROVE  \E f : IsLoop(f, list, n)
<1> DEFINE Stuck == {k \in Nat : ~ \E f : IsLoop(f, list, k)}
<1>1. SUFFICES ASSUME Stuck # {} PROVE FALSE
  OBVIOUS
<1>2. PICK m \in Stuck : \A k \in Stuck : m <= k
  BY <1>1, LeastNumber
<1>3. m # 0
  <2>1. IsLoop([i \in 0 .. 0 |-> NoSolves], list, 0)
    BY DEF IsLoop
  <2> QED BY <2>1
<1>4. m - 1 \in Nat /\ m - 1 \notin Stuck
  BY <1>2, <1>3
<1>5. PICK f : IsLoop(f, list, m - 1)
  BY <1>4
<1> DEFINE g == [i \in 0 .. m |-> IF i = m THEN ShowSolve(f[m - 1], m, list[m]) ELSE f[i]]
<1>6. IsLoop(g, list, m)
  <2>1. \A i \in 0 .. m - 1 :
          f[i] = IF i = 0 THEN NoSolves ELSE ShowSolve(f[i - 1], i, list[i])
    BY <1>5 DEF IsLoop
  <2>2. ASSUME NEW i \in 0 .. m
        PROVE  g[i] = IF i = 0 THEN NoSolves ELSE ShowSolve(g[i - 1], i, list[i])
    <3>1. CASE i = m
      <4>1. m - 1 \in 0 .. m /\ m - 1 # m
        BY <1>4
      <4>2. g[i] = ShowSolve(f[m - 1], m, list[m]) /\ g[m - 1] = f[m - 1]
        BY <3>1, <4>1
      <4> QED BY <3>1, <4>2, <1>3
    <3>2. CASE i # m
      <4>1. i \in 0 .. m - 1 /\ g[i] = f[i]
        BY <3>2, <1>4
      <4>2. i # 0 => i - 1 \in 0 .. m /\ i - 1 # m /\ g[i - 1] = f[i - 1]
        BY <4>1
      <4> QED BY <4>1, <4>2, <2>1
    <3> QED BY <3>1, <3>2
  <2>3. g = [i \in 0 .. m |-> g[i]]
    OBVIOUS
  <2> HIDE DEF g
  <2> QED BY <2>2, <2>3 DEF IsLoop
<1> QED BY <1>2, <1>6

\* So the objects of getJson are those of the loop.
LEMMA TurnsAreLoop ==
    ASSUME NEW list \in Kinds
    PROVE  IsLoop(Turns(list), list, Len(list))
<1>1. Len(list) \in Nat
  BY DEF Kinds
<1>2. \E f : IsLoop(f, list, Len(list))
  BY <1>1, LoopRuns
<1>3. Turns(list) = CHOOSE f : IsLoop(f, list, Len(list))
  BY DEF Turns, IsLoop
<1> QED BY <1>2, <1>3
-----------------------------------------------------------------------------
(* The lists of an object.                                                 *)

\* The length and the elements of an array after an assignment.
LEMMA PutAtGrows ==
    ASSUME NEW array \in Seq(Nat), NEW n \in Nat \ {0}, NEW x \in Nat
    PROVE  /\ PutAt(array, n, x) \in Seq(Nat)
           /\ Len(PutAt(array, n, x)) = IF n > Len(array) THEN n ELSE Len(array)
           /\ \A i \in 1 .. Len(PutAt(array, n, x)) :
                PutAt(array, n, x)[i] =
                    IF i = n THEN x ELSE IF i <= Len(array) THEN array[i] ELSE Hole
<1> DEFINE m == IF n > Len(array) THEN n ELSE Len(array)
           e(i) == IF i = n THEN x ELSE IF i <= Len(array) THEN array[i] ELSE Hole
<1>1. m \in Nat /\ \A i \in 1 .. m : e(i) \in Nat
  BY DEF Hole
<1>2. PutAt(array, n, x) = [i \in 1 .. m |-> e(i)]
  BY DEF PutAt
<1> HIDE DEF m, e
<1>3. [i \in 1 .. m |-> e(i)] \in Seq(Nat) /\ Len([i \in 1 .. m |-> e(i)]) = m
  BY <1>1
<1>4. \A i \in 1 .. m : [j \in 1 .. m |-> e(j)][i] = e(i)
  OBVIOUS
<1> QED BY <1>2, <1>3, <1>4 DEF m, e

\* What the object holds after n solves: an ordinary one at its own index, holes
\* between them, and the flash ones in a row.
Holds(o, list, n) ==
    /\ o \in [solved : Seq(Nat), flashch_solved : Seq(Nat), flashchall_index : Nat]
    /\ o.flashchall_index = Len(o.flashch_solved)
    /\ \A i \in 1 .. Len(o.solved) :
         i <= n /\ o.solved[i] = IF list[i] THEN Hole ELSE i
    /\ \A i \in 1 .. n : ~ list[i] => i <= Len(o.solved)
    /\ Len(o.solved) # 0 => ~ list[Len(o.solved)]
    /\ InOrder(o.flashch_solved, {i \in 1 .. n : list[i]})

\* One turn adds one solve.
LEMMA TurnHolds ==
    ASSUME NEW list \in Kinds, NEW n \in Nat \ {0}, n <= Len(list),
           NEW o, Holds(o, list, n - 1)
    PROVE  Holds(ShowSolve(o, n, list[n]), list, n)
<1> DEFINE s == o.solved
           f == o.flashch_solved
<1>0. /\ s \in Seq(Nat) /\ f \in Seq(Nat) /\ Len(s) \in Nat /\ Len(f) \in Nat
      /\ DOMAIN f = 1 .. Len(f) /\ list[n] \in BOOLEAN
      /\ \A i \in 1 .. Len(list) : list[i] \in BOOLEAN
  BY DEF Holds, Kinds
<1>1. CASE list[n]
  <2> DEFINE g == PutAt(f, Len(f) + 1, n)
  <2>1. ShowSolve(o, n, list[n]) = [solved |-> s, flashch_solved |-> g,
                                    flashchall_index |-> Len(f) + 1]
    BY <1>1, <1>0 DEF ShowSolve, Holds
  <2>2. /\ g \in Seq(Nat) /\ Len(g) = Len(f) + 1 /\ DOMAIN g = 1 .. Len(f) + 1
        /\ \A i \in 1 .. Len(f) : g[i] = f[i]
        /\ g[Len(f) + 1] = n
    <3>1. Len(f) + 1 \in Nat \ {0}
      BY <1>0
    <3>2. n \in Nat /\ f \in Seq(Nat)
      BY <1>0
    <3> HIDE DEF f
    <3>3. /\ g \in Seq(Nat)
          /\ Len(g) = IF Len(f) + 1 > Len(f) THEN Len(f) + 1 ELSE Len(f)
          /\ \A i \in 1 .. Len(g) :
               g[i] = IF i = Len(f) + 1 THEN n ELSE IF i <= Len(f) THEN f[i] ELSE Hole
      BY <3>1, <3>2, PutAtGrows
    <3> HIDE DEF g
    <3>4. Len(f) \in Nat
      BY <1>0
    <3>5. Len(g) = Len(f) + 1 /\ DOMAIN g = 1 .. Len(g)
      BY <3>3, <3>4, LenProperties
    <3> QED BY <3>3, <3>4, <3>5
  <2>3. InOrder(g, {i \in 1 .. n : list[i]})
    <3>1. /\ {f[i] : i \in 1 .. Len(f)} = {i \in 1 .. n - 1 : list[i]}
          /\ \A i, j \in 1 .. Len(f) : i < j => f[i] < f[j]
      BY <1>0 DEF Holds, InOrder
    <3> HIDE DEF f, g
    <3>2. {g[i] : i \in 1 .. Len(f) + 1} = {f[i] : i \in 1 .. Len(f)} \cup {n}
      <4>1. \A i \in 1 .. Len(f) : i \in 1 .. Len(f) + 1 /\ g[i] = f[i]
        BY <1>0, <2>2
      <4>2. \A i \in 1 .. Len(f) + 1 : i \in 1 .. Len(f) \/ g[i] = n
        BY <1>0, <2>2
      <4>3. Len(f) + 1 \in 1 .. Len(f) + 1 /\ g[Len(f) + 1] = n
        BY <1>0, <2>2
      <4> QED BY <4>1, <4>2, <4>3
    <3>3. {i \in 1 .. n : list[i]} = {i \in 1 .. n - 1 : list[i]} \cup {n}
      BY <1>1
    <3>4. \A i \in 1 .. Len(f) : f[i] \in 1 .. n - 1
      BY <3>1
    <3>5. \A i, j \in 1 .. Len(f) + 1 : i < j => g[i] < g[j]
      <4> SUFFICES ASSUME NEW i \in 1 .. Len(f) + 1, NEW j \in 1 .. Len(f) + 1, i < j
                   PROVE  g[i] < g[j]
        OBVIOUS
      <4>1. i \in 1 .. Len(f) /\ g[i] = f[i]
        BY <1>0, <2>2
      <4>2. CASE j = Len(f) + 1
        BY <4>1, <4>2, <2>2, <3>4, <1>0
      <4>3. CASE j # Len(f) + 1
        <5>1. Len(f) \in Nat
          BY <1>0
        <5>2. j \in 1 .. Len(f)
          BY <4>3, <5>1
        <5>3. g[j] = f[j]
          BY <5>2, <2>2
        <5> QED BY <4>1, <5>2, <5>3, <3>1
      <4> QED BY <4>2, <4>3
    <3> QED BY <2>2, <3>1, <3>2, <3>3, <3>5 DEF InOrder
  <2>4. /\ \A i \in 1 .. Len(s) : i <= n /\ s[i] = IF list[i] THEN Hole ELSE i
        /\ \A i \in 1 .. n : ~ list[i] => i <= Len(s)
        /\ Len(s) # 0 => ~ list[Len(s)]
    BY <1>0, <1>1 DEF Holds
  <2> HIDE DEF s, f, g
  <2> QED BY <1>0, <2>1, <2>2, <2>3, <2>4 DEF Holds
<1>2. CASE ~ list[n]
  <2> DEFINE t == PutAt(s, n, n)
  <2>1. ShowSolve(o, n, list[n]) = [solved |-> t, flashch_solved |-> f,
                                    flashchall_index |-> Len(f)]
    BY <1>2, <1>0 DEF ShowSolve, Holds
  <2>2. Len(s) < n
    <3>1. Len(s) \in 1 .. Len(s) \/ Len(s) = 0
      BY <1>0
    <3> QED BY <1>0, <3>1 DEF Holds
  <2>3. /\ t \in Seq(Nat) /\ Len(t) = n
        /\ \A i \in 1 .. n :
             t[i] = IF i = n THEN n ELSE IF i <= Len(s) THEN s[i] ELSE Hole
    <3> HIDE DEF s
    <3> QED BY <1>0, <2>2, PutAtGrows
  <2>4. ASSUME NEW i \in 1 .. n PROVE t[i] = IF list[i] THEN Hole ELSE i
    <3>1. CASE i = n
      BY <3>1, <1>2, <2>3
    <3>2. CASE i # n /\ i <= Len(s)
      BY <3>2, <2>3, <1>0 DEF Holds
    <3>3. CASE i # n /\ ~ (i <= Len(s))
      BY <3>3, <2>3, <1>0 DEF Holds
    <3> QED BY <3>1, <3>2, <3>3
  <2>5. InOrder(f, {i \in 1 .. n : list[i]})
    <3>1. {i \in 1 .. n : list[i]} = {i \in 1 .. n - 1 : list[i]}
      BY <1>2
    <3> QED BY <3>1 DEF Holds
  <2> HIDE DEF s, f, t
  <2> QED BY <1>0, <1>2, <2>1, <2>3, <2>4, <2>5 DEF Holds
<1> QED BY <1>0, <1>1, <1>2

\* After every turn the object holds the solves so far.
LEMMA LoopHolds ==
    ASSUME NEW list \in Kinds
    PROVE  Holds(GetJson(list), list, Len(list))
<1> DEFINE f == Turns(list)
           Bad == {k \in Nat : k <= Len(list) /\ ~ Holds(f[k], list, k)}
<1>0. Len(list) \in Nat
  BY DEF Kinds
<1>1. SUFFICES ASSUME Bad # {} PROVE FALSE
  BY <1>0 DEF GetJson
<1>2. PICK m \in Bad : \A k \in Bad : m <= k
  BY <1>1, LeastNumber
<1>3. \A i \in 0 .. Len(list) :
        f[i] = IF i = 0 THEN NoSolves ELSE ShowSolve(f[i - 1], i, list[i])
  BY TurnsAreLoop DEF IsLoop
<1>4. m # 0
  <2>1. Holds(NoSolves, list, 0)
    BY DEF Holds, NoSolves, InOrder
  <2>2. f[0] = NoSolves
    BY <1>3, <1>0
  <2> HIDE DEF f
  <2> QED BY <2>1, <2>2
<1>5. m - 1 \in Nat /\ m - 1 \notin Bad
  BY <1>2, <1>4
<1>6. Holds(f[m - 1], list, m - 1)
  BY <1>5, <1>2, <1>0
<1>7. Holds(ShowSolve(f[m - 1], m, list[m]), list, m)
  <2>1. m \in Nat \ {0} /\ m <= Len(list)
    BY <1>2, <1>4
  <2> HIDE DEF f
  <2> QED BY <1>6, <2>1, TurnHolds
<1>8. f[m] = ShowSolve(f[m - 1], m, list[m])
  BY <1>3, <1>4, <1>2, <1>0
<1> QED BY <1>7, <1>8, <1>2
-----------------------------------------------------------------------------
(* The page.                                                               *)

\* teamstatus.cpp:43-75.  For a list of any length, there is a page just when no
\* flash challenge precedes an ordinary one.
THEOREM PageWithoutHole ==
    ASSUME NEW list \in Kinds
    PROVE  Saves(GetJson(list)) <=> ~ HasHole(list)
<1> DEFINE o == GetJson(list)
           n == Len(list)
<1>0. Holds(o, list, n) /\ n \in Nat /\ DOMAIN list = 1 .. n
  BY LoopHolds DEF Kinds
<1> HIDE DEF o, n
<1>1. /\ o.solved \in Seq(Nat) /\ o.flashch_solved \in Seq(Nat)
      /\ DOMAIN o.solved = 1 .. Len(o.solved) /\ Len(o.solved) \in Nat
  BY <1>0 DEF Holds
<1>2. \A i \in DOMAIN o.flashch_solved : o.flashch_solved[i] # Hole
  BY <1>0 DEF Holds, InOrder, Hole
<1>3. \A i \in DOMAIN o.solved : o.solved[i] = Hole <=> list[i]
  BY <1>0, <1>1 DEF Holds, Hole
<1>4. ASSUME HasHole(list) PROVE ~ Saves(o)
  <2>1. PICK i, j \in 1 .. n : i < j /\ list[i] /\ ~ list[j]
    BY <1>0, <1>4 DEF HasHole
  <2>2. j <= Len(o.solved)
    BY <2>1, <1>0 DEF Holds
  <2>3. i \in DOMAIN o.solved
    BY <2>1, <2>2, <1>1, <1>0
  <2> QED BY <2>1, <2>3, <1>3 DEF Saves
<1>5. ASSUME ~ Saves(o) PROVE HasHole(list)
  <2>1. PICK i \in DOMAIN o.solved : list[i]
    BY <1>2, <1>3, <1>5 DEF Saves
  <2>2. ~ list[Len(o.solved)] /\ Len(o.solved) \in 1 .. n
    BY <2>1, <1>0, <1>1 DEF Holds
  <2>3. i \in 1 .. n /\ i < Len(o.solved)
    BY <2>1, <2>2, <1>1, <1>0
  <2> QED BY <2>1, <2>2, <2>3, <1>0 DEF HasHole
<1> QED BY <1>4, <1>5 DEF o

\* teamstatus.cpp:43-75.  The page then has every solve once, in order, in the list
\* of its kind.
THEOREM PageIsWhole ==
    ASSUME NEW list \in Kinds, ~ HasHole(list)
    PROVE  /\ InOrder(GetJson(list).solved, OfKind(list, FALSE))
           /\ InOrder(GetJson(list).flashch_solved, OfKind(list, TRUE))
<1> DEFINE o == GetJson(list)
           n == Len(list)
<1>0. /\ Holds(o, list, n) /\ n \in Nat /\ DOMAIN list = 1 .. n
      /\ \A i \in 1 .. n : list[i] \in BOOLEAN
  BY LoopHolds DEF Kinds
<1>1. \A i \in 1 .. Len(o.solved) : o.solved[i] # Hole
  BY PageWithoutHole, <1>0 DEF Saves, Holds
<1> HIDE DEF o, n
<1>2. DOMAIN o.solved = 1 .. Len(o.solved) /\ Len(o.solved) \in Nat
  BY <1>0 DEF Holds
<1>3. \A i \in 1 .. Len(o.solved) : i \in 1 .. n /\ ~ list[i] /\ o.solved[i] = i
  BY <1>0, <1>1, <1>2 DEF Holds
<1>4. \A i \in 1 .. n : ~ list[i] => i \in 1 .. Len(o.solved)
  BY <1>0, <1>2 DEF Holds
<1>5. {o.solved[i] : i \in DOMAIN o.solved} = OfKind(list, FALSE)
  BY <1>0, <1>2, <1>3, <1>4 DEF OfKind
<1>6. InOrder(o.solved, OfKind(list, FALSE))
  BY <1>2, <1>3, <1>5 DEF InOrder
<1>7. {i \in 1 .. n : list[i]} = OfKind(list, TRUE)
  BY <1>0 DEF OfKind
<1>8. InOrder(o.flashch_solved, OfKind(list, TRUE))
  BY <1>0, <1>7 DEF Holds
<1> QED BY <1>6, <1>8 DEF o
=============================================================================
