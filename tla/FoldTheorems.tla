---------------------------- MODULE FoldTheorems ----------------------------
(***************************************************************************)
(* What is true of the first state and kept by every step is true of what  *)
(* a fold over a sequence returns.                                         *)
(*                                                                         *)
(* The handlers that go through a sequence of jobs or digests are folds of *)
(* one operator, which may have two parameters more, p and o.  A proof     *)
(* about one of them instantiates this module with that operator and with  *)
(* what it keeps.                                                          *)
(*                                                                         *)
(* An instance brings along all that the module extends, which is why this *)
(* one extends little and writes the library's FoldLeft out.  That a set   *)
(* of naturals has a least element is a hypothesis: LeastOf, where the     *)
(* module is instantiated.                                                 *)
(***************************************************************************)
EXTENDS Integers, Sequences

CONSTANTS
  Op(_, _, _, _),  \* the step: from a state and an element, for p and o
  Inv(_, _, _)     \* what is true, for r, of the state after n elements

Greatest(D) == CHOOSE m \in D : \A n \in D : m >= n

\* The library's FoldLeft, which goes from the highest index down, with all it
\* is made of.
Fold(p, o, base, q) ==
  LET iter[D \in SUBSET DOMAIN q] ==
        IF D = {} THEN base
        ELSE LET m == Greatest(D) IN Op(p, o, iter[D \ {m}], q[m])
  IN  iter[DOMAIN q]

\* f gives the states after none, one, two... of the elements.
StatesOf(f, p, o, base, q) ==
  /\ Fold(p, o, base, q) = f[Len(q)] /\ f[0] = base
  /\ \A n \in 1 .. Len(q) : f[n] = Op(p, o, f[n - 1], q[n])

\* The library folds from the highest index down, by a recursive function on
\* sets of indices.
LEMMA GreatestOfSome ==
  ASSUME \A E \in SUBSET Nat : E # {} => \E m \in E : \A k \in E : ~(k < m),
         NEW n \in Nat, NEW D \in SUBSET (1 .. n + 1), D # {}
  PROVE  /\ Greatest(D) \in D /\ D \ {Greatest(D)} \subseteq 1 .. n
         /\ \A x \in D : x <= Greatest(D)
<1> DEFINE Above == {m \in Nat : \A x \in D : x <= m}
<1>1. n + 1 \in Above
  OBVIOUS
<1>2. PICK m \in Above : \A k \in Above : ~(k < m)
  <2>1. Above \in SUBSET Nat /\ Above # {}
    BY <1>1
  <2>2. QED
    BY <2>1
<1>4. m \in D
  <2>1. SUFFICES ASSUME m \notin D PROVE FALSE
    OBVIOUS
  <2>2. ASSUME NEW x \in D
        PROVE  x <= m - 1 /\ 1 <= x
    BY <2>1
  <2>3. m - 1 \in Nat /\ m - 1 < m
    <3>1. PICK x \in D : TRUE
      OBVIOUS
    <3>2. x <= m - 1 /\ 1 <= x /\ x \in Int /\ m \in Int
      BY <2>2
    <3>3. QED
      BY <3>2
  <2>4. m - 1 \in Above
    BY <2>2, <2>3
  <2>5. QED
    BY <1>2, <2>3, <2>4
<1>5. Greatest(D) = m
  <2>1. \A y \in D : (\A x \in D : y >= x) => y = m
    BY <1>4
  <2>2. \A x \in D : m >= x
    OBVIOUS
  <2>3. QED
    BY <1>4, <2>1, <2>2 DEF Greatest
<1>6. QED
  BY <1>4, <1>5

LEMMA FoldSteps ==
  ASSUME \A D \in SUBSET Nat : D # {} => \E m \in D : \A k \in D : ~(k < m),
         NEW p, NEW o, NEW base, NEW S, NEW q \in Seq(S)
  PROVE  \E f : StatesOf(f, p, o, base, q)
<1> DEFINE Step(g, D) == IF D = {} THEN base ELSE Op(p, o, g[D \ {Greatest(D)}], q[Greatest(D)])
           Is(g, n) == g = [D \in SUBSET (1 .. n) |-> Step(g, D)]
           iter == CHOOSE g : g = [D \in SUBSET DOMAIN q |-> Step(g, D)]
<1>1. Fold(p, o, base, q) = iter[DOMAIN q]
  BY DEF Fold
<1>2. \A n \in Nat : \E g : Is(g, n)
  <2> DEFINE Bad == {n \in Nat : ~\E g : Is(g, n)}
  <2>1. SUFFICES ASSUME Bad # {} PROVE FALSE
    OBVIOUS
  <2>2. PICK n \in Bad : \A k \in Bad : ~(k < n)
    BY <2>1
  <2>3. n # 0
    <3>1. Is([D \in SUBSET (1 .. 0) |-> base], 0)
      OBVIOUS
    <3>2. QED
      BY <3>1
  <2>4. PICK g : Is(g, n - 1)
    <3>1. n - 1 \in Nat /\ n - 1 < n
      BY <2>3
    <3>2. n - 1 \notin Bad
      BY <2>2, <3>1
    <3>3. QED
      BY <3>1, <3>2
  <2> DEFINE h == [D \in SUBSET (1 .. n) |-> Step(g, D)]
  <2>5. \A D \in SUBSET (1 .. n - 1) : h[D] = g[D]
    <3>1. 1 .. n - 1 \subseteq 1 .. n
      OBVIOUS
    <3>2. \A D \in SUBSET (1 .. n - 1) : h[D] = Step(g, D)
      BY <3>1
    <3>3. QED
      BY <2>4, <3>2
  <2>6. \A D \in SUBSET (1 .. n) : Step(g, D) = Step(h, D)
    <3>1. ASSUME NEW D \in SUBSET (1 .. n), D # {}
          PROVE  D \ {Greatest(D)} \in SUBSET (1 .. n - 1)
      <4>1. n - 1 \in Nat /\ (n - 1) + 1 = n
        BY <2>3
      <4>2. QED
        BY <3>1, <4>1, GreatestOfSome
    <3>2. QED
      BY <2>5, <3>1
  <2>7. Is(h, n)
    BY <2>6
  <2>8. QED
    BY <2>7
<1>3. iter = [D \in SUBSET DOMAIN q |-> Step(iter, D)]
  <2>1. DOMAIN q = 1 .. Len(q) /\ Len(q) \in Nat
    OBVIOUS
  <2>2. PICK g : g = [D \in SUBSET (1 .. Len(q)) |-> Step(g, D)]
    BY <1>2, <2>1
  <2>3. QED
    BY <2>1, <2>2
<1> DEFINE f == [n \in 0 .. Len(q) |-> iter[1 .. n]]
<1> HIDE DEF iter
<1>4. Fold(p, o, base, q) = f[Len(q)]
  BY <1>1
<1>5. f[0] = base
  <2>1. 1 .. 0 = {} /\ {} \in SUBSET DOMAIN q
    OBVIOUS
  <2>2. iter[{}] = base
    BY <1>3, <2>1
  <2>3. QED
    BY <2>1, <2>2
<1>6. ASSUME NEW n \in 1 .. Len(q)
      PROVE  f[n] = Op(p, o, f[n - 1], q[n])
  <2>1. 1 .. n \in SUBSET DOMAIN q /\ 1 .. n # {}
    <3>1. DOMAIN q = 1 .. Len(q) /\ n \in 1 .. n
      OBVIOUS
    <3>2. \A x \in 1 .. n : x \in 1 .. Len(q)
      OBVIOUS
    <3>3. QED
      BY <3>1, <3>2
  <2>2. Greatest(1 .. n) = n
    <3>1. n - 1 \in Nat /\ 1 .. n \in SUBSET (1 .. (n - 1) + 1) /\ n \in 1 .. n
      OBVIOUS
    <3>2. Greatest(1 .. n) \in 1 .. n /\ n <= Greatest(1 .. n)
      BY <3>1, <2>1, GreatestOfSome
    <3>3. QED
      BY <3>2
  <2>3. (1 .. n) \ {n} = 1 .. n - 1
    <3>1. \A x : x \in (1 .. n) \ {n} <=> x \in 1 .. n - 1
      OBVIOUS
    <3>2. QED
      BY <3>1
  <2>4. iter[1 .. n] = Op(p, o, iter[1 .. n - 1], q[n])
    BY <1>3, <2>1, <2>2, <2>3
  <2>5. QED
    BY <2>4
<1>7. QED
  BY <1>4, <1>5, <1>6 DEF StatesOf

\* What is true at the start, and after an element if it was before it, is true
\* at the end.
THEOREM FoldKeeps ==
  ASSUME \A D \in SUBSET Nat : D # {} => \E m \in D : \A k \in D : ~(k < m),
         NEW p, NEW o, NEW r, NEW base, NEW S, NEW q \in Seq(S),
         Inv(r, 0, base),
         \A a : \A n \in 1 .. Len(q) :
           q[n] \in S /\ Inv(r, n - 1, a) => Inv(r, n, Op(p, o, a, q[n]))
  PROVE  Inv(r, Len(q), Fold(p, o, base, q))
<1>1. PICK f : StatesOf(f, p, o, base, q)
  BY FoldSteps
<1>2. /\ Fold(p, o, base, q) = f[Len(q)] /\ f[0] = base
      /\ \A n \in 1 .. Len(q) : f[n] = Op(p, o, f[n - 1], q[n])
  BY <1>1 DEF StatesOf
<1> DEFINE Bad == {n \in 0 .. Len(q) : ~Inv(r, n, f[n])}
<1>3. SUFFICES ASSUME Bad # {} PROVE FALSE
  <2>1. Len(q) \in 0 .. Len(q)
    OBVIOUS
  <2>2. QED
    BY <1>2, <2>1
<1>4. PICK n \in Bad : \A k \in Bad : ~(k < n)
  <2>1. Bad \subseteq Nat
    OBVIOUS
  <2>2. QED
    BY <1>3, <2>1
<1>5. n # 0
  BY <1>2
<1>6. n \in 1 .. Len(q) /\ Inv(r, n - 1, f[n - 1]) /\ q[n] \in S
  <2>1. n - 1 \in 0 .. Len(q) /\ n \in 1 .. Len(q) /\ n - 1 < n /\ n - 1 \in Nat
    BY <1>5
  <2>2. n - 1 \notin Bad
    BY <1>4, <2>1
  <2>3. QED
    BY <2>1, <2>2
<1>7. Inv(r, n, Op(p, o, f[n - 1], q[n]))
  BY <1>6
<1>8. QED
  BY <1>2, <1>6, <1>7
=============================================================================
