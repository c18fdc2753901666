---------------------------- MODULE LoopTheorems ----------------------------
(***************************************************************************)
(* Induction for the loops of the program, in a form whose parameters are  *)
(* sets and functions: a loop over 1 .. n is a recursive function          *)
(*     f[i \in 0 .. n] == IF i = 0 THEN base ELSE body[i][f[i - 1]]        *)
(* and what it computes is shown by looking at the least place where it    *)
(* would not hold.                                                         *)
(***************************************************************************)
EXTENDS Integers, WellFoundedInduction, TLAPS

(* Every non-empty set of naturals has a least element.                    *)
LEMMA Least ==
    ASSUME NEW T \in SUBSET Nat, T # {}
    PROVE  \E m \in T : \A n \in T : m <= n
<1>1. PICK m \in T : \A n \in T : ~(<<n, m>> \in OpToRel(<, Nat))
  BY NatLessThanWellFounded, WFMin, Zenon
<1>2. \A n \in T : ~ (n < m)
  BY <1>1 DEF OpToRel
<1> HIDE <1>1
<1> QED BY <1>2

(* What holds of 0 and, of i when it holds of i - 1, holds up to n.        *)
LEMMA UpTo ==
    ASSUME NEW n \in Nat, NEW P \in SUBSET (0 .. n), 0 \in P,
           \A i \in 1 .. n : i - 1 \in P => i \in P
    PROVE  P = 0 .. n
<1> DEFINE T == (0 .. n) \ P
<1> SUFFICES ASSUME T # {} PROVE FALSE
  OBVIOUS
<1>1. T \in SUBSET Nat
  OBVIOUS
<1>2. PICK m \in T : \A k \in T : m <= k
  BY <1>1, Least, Zenon
<1>3. m \in 1 .. n
  <2>1. m # 0 /\ m \in 0 .. n
    OBVIOUS
  <2> QED BY <2>1
<1>4. m - 1 \in 0 .. n /\ m - 1 \notin T
  BY <1>2, <1>3
<1> QED BY <1>3, <1>4

(* The values of a loop exist ...                                          *)
IsLoop(f, n, base, body) ==
    f[0] = base /\ \A i \in 1 .. n : f[i] = body[i][f[i - 1]]

LEMMA LoopExists ==
    ASSUME NEW S, NEW n \in Nat, NEW base \in S, NEW body \in [1 .. n -> [S -> S]]
    PROVE  \E f \in [0 .. n -> S] : IsLoop(f, n, base, body)
<1> DEFINE P == {m \in 0 .. n : \E f \in [0 .. m -> S] : IsLoop(f, m, base, body)}
<1>1. 0 \in P
  <2> DEFINE f == [i \in 0 .. 0 |-> base]
  <2>1. f \in [0 .. 0 -> S] /\ IsLoop(f, 0, base, body)
    BY DEF IsLoop
  <2> QED BY <2>1
<1>2. ASSUME NEW m \in 1 .. n, m - 1 \in P PROVE m \in P
  <2>1. PICK f \in [0 .. m - 1 -> S] : IsLoop(f, m - 1, base, body)
    BY <1>2
  <2>2. m - 1 \in 0 .. m - 1 /\ f[m - 1] \in S /\ body[m] \in [S -> S]
    OBVIOUS
  <2>3. body[m][f[m - 1]] \in S
    BY <2>2
  <2> DEFINE g == [i \in 0 .. m |-> IF i = m THEN body[m][f[m - 1]] ELSE f[i]]
  <2>4. g \in [0 .. m -> S] /\ g[0] = base
    BY <2>1, <2>3 DEF IsLoop
  <2>5. ASSUME NEW i \in 1 .. m PROVE g[i] = body[i][g[i - 1]]
    <3>1. CASE i = m
      BY <3>1
    <3>2. CASE i # m
      <4>1. i \in 1 .. m - 1 /\ g[i] = f[i] /\ g[i - 1] = f[i - 1]
        BY <3>2
      <4> QED BY <2>1, <4>1 DEF IsLoop
    <3> QED BY <3>1, <3>2
  <2>6. IsLoop(g, m, base, body)
    BY <2>4, <2>5 DEF IsLoop
  <2> QED BY <2>4, <2>6
<1> HIDE DEF P
<1>3. P \in SUBSET (0 .. n) /\ \A i \in 1 .. n : i - 1 \in P => i \in P
  BY <1>2 DEF P
<1>4. P = 0 .. n
  BY <1>1, <1>3, UpTo, Zenon
<1>5. n \in P
  BY <1>4
<1> QED BY <1>5 DEF P
=============================================================================
