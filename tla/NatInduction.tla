---------------------------- MODULE NatInduction ----------------------------
(***************************************************************************)
(* Induction on the natural numbers, in a form that first-order provers    *)
(* can use (the induction theorems of the library take the property as an  *)
(* operator), and what it shows of module Slots.                           *)
(***************************************************************************)
EXTENDS Slots, SequenceTheorems, WellFoundedInduction, TLAPS

\* Induction on the natural numbers, over a set and not a predicate: the least
\* number outside the set has a predecessor inside.
LEMMA NatSetInduction ==
  ASSUME NEW S, 0 \in S, \A n \in Nat : n \in S => n + 1 \in S
  PROVE  Nat \subseteq S
<1> SUFFICES ASSUME Nat \ S # {} PROVE FALSE
  OBVIOUS
<1> DEFINE R == OpToRel(<, Nat)
<1>1. IsWellFoundedOn(R, Nat)
  BY NatLessThanWellFounded
<1>2. \A x, y \in Nat : <<y, x>> \in R <=> y < x
  BY DEF OpToRel
<1> HIDE DEF R
<1>3. PICK x \in Nat \ S : \A y \in Nat \ S : ~(<<y, x>> \in R)
  BY <1>1, WFMin
<1>4. x # 0 /\ x - 1 \in Nat /\ x - 1 < x
  BY <1>3
<1>5. x - 1 \in S
  BY <1>2, <1>3, <1>4
<1>6. (x - 1) + 1 \in S
  BY <1>4, <1>5
<1>. QED BY <1>3, <1>6

-----------------------------------------------------------------------------
(* The commands in the slots of a log. *)

IsAmong(slots, empty, f, n) ==
  f = [k \in 0..n |-> IF k = 0 THEN << >>
                      ELSE IF slots[k] = empty THEN f[k - 1] ELSE Append(f[k - 1], slots[k])]

LEMMA AmongExists ==
  ASSUME NEW slots, NEW empty, NEW n \in Nat
  PROVE  \E f : IsAmong(slots, empty, f, n)
<1> DEFINE S == {m \in Nat : \E f : IsAmong(slots, empty, f, m)}
<1>1. 0 \in S
  <2>1. IsAmong(slots, empty, [k \in 0..0 |-> << >>], 0)
    BY DEF IsAmong
  <2>. QED  BY <2>1
<1>2. ASSUME NEW m \in Nat, m \in S
      PROVE  m + 1 \in S
  <2>1. PICK f : IsAmong(slots, empty, f, m)
    BY <1>2
  <2> DEFINE Add(commands, k) == IF slots[k] = empty THEN commands
                                                    ELSE Append(commands, slots[k])
             next == Add(f[m], m + 1)
             g == [k \in 0..(m + 1) |-> IF k = m + 1 THEN next ELSE f[k]]
  <2>2. /\ f[0] = << >>
        /\ \A k \in 1..m : f[k] = Add(f[k - 1], k) /\ k - 1 \in 0..m
    <3>1. \A k \in 0..m : f[k] = IF k = 0 THEN << >> ELSE Add(f[k - 1], k)
      BY <2>1 DEF IsAmong
    <3>2. \A k \in 1..m : k \in 0..m /\ k # 0 /\ k - 1 \in 0..m
      OBVIOUS
    <3> HIDE DEF Add
    <3>. QED  BY <3>1, <3>2
  <2>3. IsAmong(slots, empty, g, m + 1) <=>
          g = [k \in 0..(m + 1) |-> IF k = 0 THEN << >> ELSE Add(g[k - 1], k)]
    BY DEF IsAmong
  <2> HIDE DEF Add, next
  <2>4. g[0] = << >>
    BY <2>2
  <2>5. \A k \in 1..m : g[k] = Add(g[k - 1], k)
    BY <2>2
  <2>6. g[m + 1] = Add(g[m], m + 1)
    BY DEF next
  <2>7. g = [k \in 0..(m + 1) |-> g[k]]
    OBVIOUS
  <2> HIDE DEF g
  <2>8. \A k \in 0..(m + 1) : g[k] = IF k = 0 THEN << >> ELSE Add(g[k - 1], k)
    <3> TAKE k \in 0..(m + 1)
    <3>1. k = 0 \/ k \in 1..m \/ k = m + 1
      OBVIOUS
    <3>2. m + 1 - 1 = m
      OBVIOUS
    <3>. QED  BY <2>4, <2>5, <2>6, <3>1, <3>2
  <2>9. IsAmong(slots, empty, g, m + 1)
    BY <2>3, <2>7, <2>8
  <2>. QED  BY <2>9
<1>. QED  BY <1>1, <1>2, NatSetInduction

LEMMA AmongAgree ==
  ASSUME NEW slots, NEW more, NEW empty, NEW f, NEW g, NEW n \in Nat, NEW m \in Nat,
         IsAmong(slots, empty, f, n), IsAmong(more, empty, g, m), n <= m,
         \A k \in 1..n : slots[k] = more[k]
  PROVE  f[n] = g[n]
<1> DEFINE S == {j \in Nat : j <= n => f[j] = g[j]}
<1>1. /\ f[0] = << >>
      /\ \A j \in Nat : j + 1 <= n =>
           f[j + 1] = IF slots[j + 1] = empty THEN f[j] ELSE Append(f[j], slots[j + 1])
  <2>1. \A k \in 0..n : f[k] = IF k = 0 THEN << >>
               ELSE IF slots[k] = empty THEN f[k - 1] ELSE Append(f[k - 1], slots[k])
    BY DEF IsAmong
  <2>2. \A j \in Nat : j + 1 <= n => j + 1 \in 0..n /\ j + 1 # 0 /\ j + 1 - 1 = j
    OBVIOUS
  <2>. QED  BY <2>1, <2>2
<1>2. /\ g[0] = << >>
      /\ \A j \in Nat : j + 1 <= n =>
           g[j + 1] = IF more[j + 1] = empty THEN g[j] ELSE Append(g[j], more[j + 1])
  <2>1. \A k \in 0..m : g[k] = IF k = 0 THEN << >>
               ELSE IF more[k] = empty THEN g[k - 1] ELSE Append(g[k - 1], more[k])
    BY DEF IsAmong
  <2>2. \A j \in Nat : j + 1 <= n => j + 1 \in 0..m /\ j + 1 # 0 /\ j + 1 - 1 = j
    OBVIOUS
  <2>. QED  BY <2>1, <2>2
<1>3. 0 \in S
  BY <1>1, <1>2
<1>4. ASSUME NEW j \in Nat, j \in S
      PROVE  j + 1 \in S
  <2> SUFFICES ASSUME j + 1 <= n PROVE f[j + 1] = g[j + 1]
    OBVIOUS
  <2>1. f[j] = g[j] /\ slots[j + 1] = more[j + 1]
    BY <1>4
  <2>. QED  BY <1>1, <1>2, <2>1
<1> HIDE DEF S
<1>5. n \in S
  BY <1>3, <1>4, NatSetInduction
<1>. QED  BY <1>5 DEF S

LEMMA CommandsAreAmong ==
  ASSUME NEW slots, NEW empty, NEW n \in Nat
  PROVE  \E f : IsAmong(slots, empty, f, n) /\ CommandsIn(slots, empty, n) = f[n]
<1> DEFINE f == CHOOSE a : IsAmong(slots, empty, a, n)
<1>1. IsAmong(slots, empty, f, n)
  BY AmongExists
<1>2. CommandsIn(slots, empty, n) = f[n]
  BY DEF CommandsIn, IsAmong
<1>. QED  BY <1>1, <1>2

\* Slots after the n-th do not matter.
LEMMA CommandsSame ==
  ASSUME NEW slots, NEW more, NEW empty, NEW n \in Nat, \A k \in 1..n : slots[k] = more[k]
  PROVE  CommandsIn(slots, empty, n) = CommandsIn(more, empty, n)
<1>1. PICK f : IsAmong(slots, empty, f, n) /\ CommandsIn(slots, empty, n) = f[n]
  BY CommandsAreAmong
<1>2. PICK g : IsAmong(more, empty, g, n) /\ CommandsIn(more, empty, n) = g[n]
  BY CommandsAreAmong
<1>3. n <= n
  OBVIOUS
<1>4. ASSUME NEW m \in Nat, IsAmong(more, empty, g, m), n <= m
      PROVE  f[n] = g[n]
  BY <1>1, <1>4, AmongAgree
<1>5. f[n] = g[n]
  BY <1>2, <1>3, <1>4
<1>. QED  BY <1>1, <1>2, <1>5

LEMMA CommandsNone ==
  ASSUME NEW slots, NEW empty
  PROVE  CommandsIn(slots, empty, 0) = << >>
<1>1. PICK f : IsAmong(slots, empty, f, 0) /\ CommandsIn(slots, empty, 0) = f[0]
  BY CommandsAreAmong
<1>. QED  BY <1>1 DEF IsAmong

\* One more slot.
LEMMA CommandsStep ==
  ASSUME NEW slots, NEW empty, NEW n \in Nat
  PROVE  CommandsIn(slots, empty, n + 1)
           = IF slots[n + 1] = empty THEN CommandsIn(slots, empty, n)
             ELSE Append(CommandsIn(slots, empty, n), slots[n + 1])
<1>1. PICK f : IsAmong(slots, empty, f, n) /\ CommandsIn(slots, empty, n) = f[n]
  BY CommandsAreAmong
<1>2. PICK g : IsAmong(slots, empty, g, n + 1) /\ CommandsIn(slots, empty, n + 1) = g[n + 1]
  BY CommandsAreAmong
<1>3. f[n] = g[n]
  BY <1>1, <1>2, AmongAgree
<1>4. g[n + 1] = IF slots[n + 1] = empty THEN g[n] ELSE Append(g[n], slots[n + 1])
  <2>1. \A k \in 0..(n + 1) : g[k] = IF k = 0 THEN << >>
               ELSE IF slots[k] = empty THEN g[k - 1] ELSE Append(g[k - 1], slots[k])
    BY <1>2 DEF IsAmong
  <2>2. n + 1 \in 0..(n + 1) /\ n + 1 # 0 /\ n + 1 - 1 = n
    OBVIOUS
  <2>. QED  BY <2>1, <2>2
<1>. QED  BY <1>1, <1>2, <1>3, <1>4

LEMMA CommandsTyped ==
  ASSUME NEW slots, NEW empty, NEW n \in Nat, NEW E,
         \A k \in 1..n : slots[k] \in E \union {empty}
  PROVE  CommandsIn(slots, empty, n) \in Seq(E)
<1> DEFINE S == {j \in Nat : j <= n => CommandsIn(slots, empty, j) \in Seq(E)}
<1>1. 0 \in S
  <2>1. CommandsIn(slots, empty, 0) = << >>
    BY CommandsNone
  <2>2. << >> \in Seq(E)
    OBVIOUS
  <2>. QED  BY <2>1, <2>2
<1>2. ASSUME NEW j \in Nat, j \in S
      PROVE  j + 1 \in S
  <2> SUFFICES ASSUME j + 1 <= n PROVE CommandsIn(slots, empty, j + 1) \in Seq(E)
    OBVIOUS
  <2>1. CommandsIn(slots, empty, j) \in Seq(E)
    BY <1>2
  <2>2. slots[j + 1] = empty \/ slots[j + 1] \in E
    OBVIOUS
  <2> DEFINE commands == CommandsIn(slots, empty, j)
  <2>3. CommandsIn(slots, empty, j + 1)
          = IF slots[j + 1] = empty THEN commands ELSE Append(commands, slots[j + 1])
    BY CommandsStep
  <2> HIDE DEF commands
  <2>4. commands \in Seq(E)
    BY <2>1 DEF commands
  <2>5. CASE slots[j + 1] = empty
    BY <2>3, <2>4, <2>5
  <2>6. CASE slots[j + 1] # empty
    <3> DEFINE last == slots[j + 1]
    <3>1. last \in E /\ CommandsIn(slots, empty, j + 1) = Append(commands, last)
      BY <2>2, <2>3, <2>6
    <3> HIDE DEF last, S
    <3>. QED  BY <2>4, <3>1, AppendProperties
  <2>. QED  BY <2>5, <2>6
<1> HIDE DEF S
<1>3. n \in S
  BY <1>1, <1>2, NatSetInduction
<1>. QED  BY <1>3 DEF S

\* The command in any of the first n slots is among their commands.
LEMMA CommandsContain ==
  ASSUME NEW slots, NEW empty, NEW n \in Nat, NEW k \in 1..n, slots[k] # empty
  PROVE  \E p \in DOMAIN CommandsIn(slots, empty, n) :
           CommandsIn(slots, empty, n)[p] = slots[k]
<1> DEFINE C(j) == CommandsIn(slots, empty, j)
           E == {slots[j] : j \in 1..n}
           S == {d \in Nat : k + d <= n =>
                  \E p \in DOMAIN C(k + d) : C(k + d)[p] = slots[k]}
<1>1. \A j \in 0..n : C(j) \in Seq(E)
  <2> TAKE j \in 0..n
  <2>1. \A i \in 1..j : slots[i] \in E \union {empty}
    OBVIOUS
  <2> HIDE DEF E
  <2>. QED  BY <2>1, CommandsTyped
<1> HIDE DEF E
<1>2. 0 \in S
  <2> DEFINE j == k - 1
  <2>1. j \in Nat /\ j \in 0..n /\ k + 0 = j + 1 /\ k = j + 1
    OBVIOUS
  <2> HIDE DEF j
  <2>2. C(j + 1) = Append(C(j), slots[k])
    BY <2>1, CommandsStep
  <2>3. C(j) \in Seq(E)
    BY <1>1, <2>1
  <2> HIDE DEF C
  <2>4. /\ Len(C(j)) + 1 \in DOMAIN C(j + 1)
        /\ C(j + 1)[Len(C(j)) + 1] = slots[k]
    BY <2>2, <2>3
  <2>. QED  BY <2>1, <2>4
<1>3. ASSUME NEW d \in Nat, d \in S
      PROVE  d + 1 \in S
  <2> SUFFICES ASSUME k + (d + 1) <= n
               PROVE  \E p \in DOMAIN C(k + (d + 1)) : C(k + (d + 1))[p] = slots[k]
    OBVIOUS
  <2> DEFINE j == k + d
  <2>1. j \in Nat /\ j \in 0..n /\ k + (d + 1) = j + 1
    OBVIOUS
  <2>2. PICK p \in DOMAIN C(j) : C(j)[p] = slots[k]
    BY <1>3
  <2> HIDE DEF j
  <2>3. C(j + 1) = C(j) \/ C(j + 1) = Append(C(j), slots[j + 1])
    BY <2>1, CommandsStep
  <2>4. C(j) \in Seq(E)
    BY <1>1, <2>1
  <2> HIDE DEF C
  <2>5. p \in DOMAIN C(j + 1) /\ C(j + 1)[p] = slots[k]
    BY <2>2, <2>3, <2>4
  <2>. QED  BY <2>1, <2>5
<1> HIDE DEF S
<1>4. n - k \in S
  BY <1>2, <1>3, NatSetInduction
<1>5. k + (n - k) = n
  OBVIOUS
<1>. QED  BY <1>4, <1>5 DEF S
=============================================================================
