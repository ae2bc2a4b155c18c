------------------------ MODULE SharedLibraryProofs ------------------------
(***************************************************************************)
(* What the loops of the MPI hook compute, for lists of any length.        *)
(***************************************************************************)
EXTENDS SharedLibrary, WellFoundedInduction, TLAPS

-----------------------------------------------------------------------------
(* Induction and iteration, with sets and functions in place of predicates *)
(* and operators.                                                          *)

LEMMA SetInduction ==
  ASSUME NEW S, 0 \in S, \A n \in Nat : n \in S => n + 1 \in S
  PROVE  Nat \subseteq S
<1> DEFINE R == OpToRel(<, Nat)
           Rest == Nat \ S
<1>1. IsWellFoundedOn(R, Nat)
  BY NatLessThanWellFounded, Zenon
<1>2. \A n \in Nat : <<n, n + 1>> \in R
  BY DEF OpToRel
<1> HIDE DEF R
<1> SUFFICES ASSUME Rest # {}
             PROVE  FALSE
  OBVIOUS
<1>3. PICK n \in Rest : \A m \in Rest : <<m, n>> \notin R
  <2>1. Rest \subseteq Nat
    OBVIOUS
  <2> QED
    BY <1>1, <2>1, WFMin, Zenon
<1>4. n - 1 \in Nat /\ (n - 1) + 1 = n
  OBVIOUS
<1>5. <<n - 1, n>> \in R
  BY <1>2, <1>4
<1> QED
  BY <1>3, <1>4, <1>5

(* The same up to a bound.                                                 *)
LEMMA SetInductionUpTo ==
  ASSUME NEW N \in Nat, NEW S, 0 \in S,
         \A n \in 1..N : n - 1 \in S => n \in S
  PROVE  0..N \subseteq S
<1> DEFINE T == {n \in Nat : n <= N => n \in S}
<1>1. 0 \in T
  OBVIOUS
<1>2. \A n \in Nat : n \in T => n + 1 \in T
  <2> SUFFICES ASSUME NEW n \in Nat, n \in T, n + 1 <= N
               PROVE  n + 1 \in S
    OBVIOUS
  <2>1. n \in S /\ n + 1 \in 1..N /\ (n + 1) - 1 = n
    OBVIOUS
  <2> QED
    BY <2>1
<1>3. Nat \subseteq T
  <2> HIDE DEF T
  <2> QED
    BY <1>1, <1>2, SetInduction
<1> QED
  BY <1>3

(* A loop with N iterations has a function of its intermediate results.    *)
Iterates(f, N, X, first, step) ==
  /\ f \in [0..N -> X] /\ f[0] = first
  /\ \A n \in 1..N : f[n] = step[n][f[n - 1]]

LEMMA LoopExists ==
  ASSUME NEW N \in Nat, NEW X, NEW first \in X,
         NEW step \in [1..N -> [X -> X]]
  PROVE  \E f : Iterates(f, N, X, first, step)
<1> DEFINE Run(k, f) == Iterates(f, k, X, first, step)
           S == {k \in 0..N : \E f : Run(k, f)}
<1> USE DEF Iterates
<1>1. 0 \in S
  <2> DEFINE f == [n \in 0..0 |-> first]
  <2>1. Run(0, f)
    OBVIOUS
  <2>2. 0 \in 0..N
    OBVIOUS
  <2> HIDE DEF Run, f, Iterates
  <2> QED
    BY <2>1, <2>2
<1>2. ASSUME NEW k \in 1..N, k - 1 \in S
      PROVE  k \in S
  <2>1. PICK f : Run(k - 1, f)
    BY <1>2
  <2>2. f[k - 1] \in X
    BY <2>1
  <2> DEFINE last == step[k][f[k - 1]]
             g == [n \in 0..k |-> IF n = k THEN last ELSE f[n]]
  <2>3. last \in X
    BY <2>2
  <2> HIDE DEF last
  <2>4. g \in [0..k -> X]
    BY <2>1, <2>3
  <2>5. g[0] = first
    BY <2>1
  <2>6. ASSUME NEW n \in 1..k
        PROVE  g[n] = step[n][g[n - 1]]
    <3>1. CASE n = k
      <4>1. g[n] = last /\ g[n - 1] = f[k - 1]
        BY <3>1
      <4> QED
        BY <3>1, <4>1 DEF last
    <3>2. CASE n # k
      <4>1. n \in 1..(k - 1) /\ n - 1 # k
        BY <3>2
      <4>2. g[n] = f[n] /\ g[n - 1] = f[n - 1]
        BY <3>2, <4>1
      <4> QED
        BY <2>1, <4>1, <4>2
    <3> QED
      BY <3>1, <3>2
  <2>7. Run(k, g)
    BY <2>4, <2>5, <2>6
  <2>8. k \in 0..N
    OBVIOUS
  <2> HIDE DEF Run, g, Iterates
  <2> QED
    BY <2>7, <2>8
<1>3. 0..N \subseteq S
  <2> HIDE DEF S
  <2> QED
    BY <1>1, <1>2, SetInductionUpTo
<1>4. N \in S
  BY <1>3
<1> QED
  BY <1>4

(* A function whose values follow each other as in the loop is that of the *)
(* loop.                                                                   *)
LEMMA LoopValues ==
  ASSUME NEW N \in Nat, NEW X, NEW first \in X,
         NEW step \in [1..N -> [X -> X]],
         NEW g, g = [n \in 0..N |-> g[n]], g[0] = first,
         \A n \in 1..N : g[n - 1] \in X => g[n] = step[n][g[n - 1]]
  PROVE  Iterates(g, N, X, first, step)
<1> DEFINE S == {n \in 0..N : g[n] \in X}
<1>1. 0 \in S
  OBVIOUS
<1>2. ASSUME NEW n \in 1..N, n - 1 \in S
      PROVE  n \in S
  <2>1. g[n - 1] \in X
    BY <1>2
  <2>2. step[n] \in [X -> X]
    OBVIOUS
  <2>3. step[n][g[n - 1]] \in X
    BY <2>1, <2>2
  <2>4. g[n] \in X
    BY <2>1, <2>3
  <2> QED
    BY <2>4
<1>3. 0..N \subseteq S
  <2> HIDE DEF S
  <2> QED
    BY <1>1, <1>2, SetInductionUpTo
<1>4. \A n \in 0..N : g[n] \in X
  BY <1>3
<1>5. g \in [0..N -> X]
  BY <1>4
<1>6. \A n \in 1..N : n - 1 \in 0..N
  OBVIOUS
<1> QED
  BY <1>4, <1>5, <1>6 DEF Iterates

-----------------------------------------------------------------------------
(* The two loops of pickNewestAbiCompatibleLibrary.                        *)

Listed(candidates) == {candidates[n] : n \in DOMAIN candidates}

(* The first loop goes through the list from its head.                     *)
LEMMA OldestLoop ==
  ASSUME NEW me, NEW X, NEW cs \in Seq(X), cs # <<>>
  PROVE  /\ OldestAfter(me, cs) \in [0..Len(cs) -> Listed(cs)]
         /\ OldestAfter(me, cs)[0] = cs[1]
         /\ \A n \in 1..Len(cs) : OldestAfter(me, cs)[n]
              = OldestStep(me, OldestAfter(me, cs)[n - 1], cs[n])
<1> DEFINE N == Len(cs)
           Y == Listed(cs)
           first == cs[1]
           step == [n \in 1..N |-> [o \in Y |-> OldestStep(me, o, cs[n])]]
           Loop(f) == f = [n \in 0..N |-> IF n = 0 THEN Head(cs)
                                          ELSE OldestStep(me, f[n - 1], cs[n])]
           g == OldestAfter(me, cs)
<1>1. N \in Nat /\ Head(cs) = first /\ DOMAIN cs = 1..N
  OBVIOUS
<1>2. first \in Y /\ \A n \in 1..N : cs[n] \in Y
  BY <1>1 DEF Listed
<1>3. step \in [1..N -> [Y -> Y]]
  BY <1>2 DEF OldestStep
<1>4. PICK f : Iterates(f, N, Y, first, step)
  <2> HIDE DEF step, N, Y, first
  <2> QED
    BY <1>1, <1>2, <1>3, LoopExists
<1>5. Loop(f)
  <2>1. \A n \in 1..N : f[n - 1] \in Y
    BY <1>4 DEF Iterates
  <2>2. \A n \in 1..N : f[n] = OldestStep(me, f[n - 1], cs[n])
    BY <1>4, <2>1 DEF Iterates
  <2> HIDE DEF first
  <2> QED
    BY <1>1, <1>4, <2>2 DEF Iterates
<1>6. Loop(g)
  <2>1. g = CHOOSE h : Loop(h)
    BY DEF OldestAfter
  <2> HIDE DEF Loop, g
  <2> QED
    BY <1>5, <2>1
<1> HIDE DEF g, first
<1>7. /\ g = [n \in 0..N |-> g[n]] /\ g[0] = first
      /\ \A n \in 1..N : g[n] = OldestStep(me, g[n - 1], cs[n])
  <2>1. DOMAIN g = 0..N /\ g = [n \in 0..N |-> g[n]]
    BY <1>6, Zenon
  <2>2. \A n \in 0..N : g[n] = IF n = 0 THEN Head(cs)
                                ELSE OldestStep(me, g[n - 1], cs[n])
    BY <1>6, Zenon
  <2> HIDE DEF Loop
  <2>3. g[0] = first
    BY <1>1, <2>2
  <2>4. ASSUME NEW n \in 1..N
        PROVE  g[n] = OldestStep(me, g[n - 1], cs[n])
    BY <1>1, <2>2
  <2> QED
    BY <2>1, <2>3, <2>4
<1>8. \A n \in 1..N : g[n - 1] \in Y => g[n] = step[n][g[n - 1]]
  BY <1>7
<1>9. Iterates(g, N, Y, first, step)
  <2> HIDE DEF step, N, Y
  <2> QED
    BY <1>1, <1>2, <1>3, <1>7, <1>8, LoopValues
<1> QED
  BY <1>7, <1>9 DEF Iterates, first, g

LEMMA OldestIsListed ==
  ASSUME NEW me, NEW X, NEW cs \in Seq(X), cs # <<>>
  PROVE  Oldest(me, cs) \in Listed(cs)
<1>1. Len(cs) \in 0..Len(cs)
  OBVIOUS
<1> QED
  BY <1>1, OldestLoop DEF Oldest

(* The second one goes through it again, from the first one's result.      *)
LEMMA BestLoop ==
  ASSUME NEW me, NEW X, NEW cs \in Seq(X), cs # <<>>
  PROVE  /\ BestAfter(me, cs) \in [0..Len(cs) -> Listed(cs)]
         /\ BestAfter(me, cs)[0] = Oldest(me, cs)
         /\ \A n \in 1..Len(cs) : BestAfter(me, cs)[n]
              = BestStep(me, BestAfter(me, cs)[n - 1], cs[n])
<1> DEFINE N == Len(cs)
           Y == Listed(cs)
           first == Oldest(me, cs)
           step == [n \in 1..N |-> [o \in Y |-> BestStep(me, o, cs[n])]]
           Loop(f) == f = [n \in 0..N |-> IF n = 0 THEN Oldest(me, cs)
                                          ELSE BestStep(me, f[n - 1], cs[n])]
           g == BestAfter(me, cs)
<1>1. N \in Nat /\ Oldest(me, cs) = first /\ DOMAIN cs = 1..N
  OBVIOUS
<1>2. first \in Y /\ \A n \in 1..N : cs[n] \in Y
  BY <1>1, OldestIsListed DEF Listed
<1>3. step \in [1..N -> [Y -> Y]]
  BY <1>2 DEF BestStep
<1>4. PICK f : Iterates(f, N, Y, first, step)
  <2> HIDE DEF step, N, Y, first
  <2> QED
    BY <1>1, <1>2, <1>3, LoopExists
<1>5. Loop(f)
  <2>1. \A n \in 1..N : f[n - 1] \in Y
    BY <1>4 DEF Iterates
  <2>2. \A n \in 1..N : f[n] = BestStep(me, f[n - 1], cs[n])
    BY <1>4, <2>1 DEF Iterates
  <2> HIDE DEF first
  <2> QED
    BY <1>1, <1>4, <2>2 DEF Iterates
<1>6. Loop(g)
  <2>1. g = CHOOSE h : Loop(h)
    BY DEF BestAfter
  <2> HIDE DEF Loop, g
  <2> QED
    BY <1>5, <2>1
<1> HIDE DEF g, first
<1>7. /\ g = [n \in 0..N |-> g[n]] /\ g[0] = first
      /\ \A n \in 1..N : g[n] = BestStep(me, g[n - 1], cs[n])
  <2>1. DOMAIN g = 0..N /\ g = [n \in 0..N |-> g[n]]
    BY <1>6, Zenon
  <2>2. \A n \in 0..N : g[n] = IF n = 0 THEN Oldest(me, cs)
                                ELSE BestStep(me, g[n - 1], cs[n])
    BY <1>6, Zenon
  <2> HIDE DEF Loop
  <2>3. g[0] = first
    BY <1>1, <2>2
  <2>4. ASSUME NEW n \in 1..N
        PROVE  g[n] = BestStep(me, g[n - 1], cs[n])
    BY <1>1, <2>2
  <2> QED
    BY <2>1, <2>3, <2>4
<1>8. \A n \in 1..N : g[n - 1] \in Y => g[n] = step[n][g[n - 1]]
  BY <1>7
<1>9. Iterates(g, N, Y, first, step)
  <2> HIDE DEF step, N, Y
  <2> QED
    BY <1>1, <1>2, <1>3, <1>7, <1>8, LoopValues
<1> QED
  BY <1>7, <1>9 DEF Iterates, first, g

LEMMA BestIsListed ==
  ASSUME NEW me, NEW X, NEW cs \in Seq(X), cs # <<>>
  PROVE  Best(me, cs) \in Listed(cs)
<1>1. Len(cs) \in 0..Len(cs)
  OBVIOUS
<1> QED
  BY <1>1, BestLoop DEF Best

(* A set of numbers with an element has a smallest one.                    *)
LEMMA SmallestExists ==
  ASSUME NEW T \in SUBSET Nat, T # {}
  PROVE  \E n \in T : \A m \in T : n <= m
<1> SUFFICES ASSUME \A n \in T : \E m \in T : m < n
             PROVE  FALSE
  OBVIOUS
<1> DEFINE S == {n \in Nat : \A m \in T : n < m}
<1>1. 0 \in S
  OBVIOUS
<1>2. \A n \in Nat : n \in S => n + 1 \in S
  OBVIOUS
<1>3. Nat \subseteq S
  <2> HIDE DEF S
  <2> QED
    BY <1>1, <1>2, SetInduction
<1>4. PICK n \in T : n \in Nat
  OBVIOUS
<1>5. n \in S
  BY <1>3, <1>4
<1>6. n < n
  BY <1>4, <1>5
<1> QED
  BY <1>4, <1>6

LEMMA FirstExactIsExact ==
  ASSUME NEW me, NEW X, NEW cs \in Seq(X), Exact(me, cs) # {}
  PROVE  /\ FirstExact(me, cs) \in DOMAIN cs
         /\ RealName(cs[FirstExact(me, cs)]) = RealName(me)
<1>1. Exact(me, cs) \in SUBSET Nat
  BY DEF Exact
<1>2. \E n \in Exact(me, cs) : \A m \in Exact(me, cs) : n <= m
  BY <1>1, SmallestExists
<1>3. FirstExact(me, cs) \in Exact(me, cs)
  BY <1>2 DEF FirstExact
<1> QED
  BY <1>3 DEF Exact

(* The library picked is one of the candidates, whatever the list.         *)
THEOREM PickIsListed ==
  ASSUME NEW me, NEW X, NEW cs \in Seq(X), cs # <<>>
  PROVE  PickNewestAbiCompatibleLibrary(me, cs) \in Listed(cs)
<1>1. CASE Len(cs) = 1
  BY <1>1 DEF PickNewestAbiCompatibleLibrary, Listed
<1>2. CASE Len(cs) # 1 /\ Exact(me, cs) # {}
  BY <1>2, FirstExactIsExact DEF PickNewestAbiCompatibleLibrary, Listed
<1>3. CASE Len(cs) # 1 /\ Exact(me, cs) = {}
  BY <1>3, BestIsListed DEF PickNewestAbiCompatibleLibrary
<1> QED
  BY <1>1, <1>2, <1>3
=============================================================================
