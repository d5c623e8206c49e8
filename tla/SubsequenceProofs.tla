-------------------------- MODULE SubsequenceProofs --------------------------
(***************************************************************************)
(* What Selected leaves of a sequence, and the least-number principle that this *)
(* and other arguments about data rest on.                                 *)
(***************************************************************************)
EXTENDS Subsequences, FiniteSetTheorems, WellFoundedInduction, SequenceTheorems, TLAPS

LEMMA LeastNumber ==
  ASSUME NEW S \in SUBSET Nat, S # {}
  PROVE  \E n \in S : \A m \in S : n <= m
<1> DEFINE Segments == {1 .. n : n \in S}
<1>1. IsWellFoundedOn(StrictSubsetOrdering(Nat), FiniteSubsetsOf(Nat))
  BY FS_StrictSubsetOrderingWellFounded
<1>2. Segments \subseteq FiniteSubsetsOf(Nat) /\ Segments # {}
  <2>1. \A n \in S : 1 .. n \in SUBSET Nat /\ IsFiniteSet(1 .. n)
    BY FS_Interval
  <2>2. QED
    BY <2>1 DEF FiniteSubsetsOf
<1>3. PICK T \in Segments : \A U \in Segments : ~(<<U, T>> \in StrictSubsetOrdering(Nat))
  <2> HIDE DEF Segments
  <2> QED BY <1>1, <1>2, WFMin
<1>4. PICK n \in S : T = 1 .. n
  OBVIOUS
<1>5. ASSUME NEW m \in S, m < n PROVE FALSE
  <2>1. 1 .. m \in Segments /\ 1 .. m \in SUBSET Nat /\ 1 .. n \in SUBSET Nat
    OBVIOUS
  <2>2. 1 .. m \subseteq 1 .. n /\ n \in 1 .. n /\ n \notin 1 .. m
    BY <1>5
  <2>3. <<1 .. m, 1 .. n>> \in StrictSubsetOrdering(Nat)
    BY <2>1, <2>2 DEF StrictSubsetOrdering
  <2>4. QED
    BY <1>3, <1>4, <2>1, <2>3
<1>6. QED
  BY <1>5

(* f holds what is selected of the first m elements, for every m up to n.  *)
KeepsUpto(s, S, f, n) ==
  f = [m \in 0 .. n |-> IF m = 0 THEN <<>>
                        ELSE IF s[m] \in S THEN Append(f[m - 1], s[m]) ELSE f[m - 1]]

LEMMA KeepsExists ==
  ASSUME NEW s, Len(s) \in Nat, NEW S
  PROVE  \E f : KeepsUpto(s, S, f, Len(s))
<1> DEFINE Bad == {n \in 0 .. Len(s) : ~ \E f : KeepsUpto(s, S, f, n)}
<1>1. CASE Bad = {}
  BY <1>1
<1>2. CASE Bad # {}
  <2>1. PICK b \in Bad : \A m \in Bad : b <= m
    <3>1. Bad \in SUBSET Nat
      OBVIOUS
    <3> HIDE DEF Bad
    <3> QED BY <1>2, <3>1, LeastNumber
  <2>2. b # 0
    <3>1. KeepsUpto(s, S, [m \in 0 .. 0 |-> <<>>], 0)
      BY DEF KeepsUpto
    <3> QED BY <2>1, <3>1
  <2>3. b \in 1 .. Len(s) /\ b - 1 \in 0 .. Len(s) /\ b - 1 \notin Bad
    BY <2>1, <2>2
  <2>4. PICK f : KeepsUpto(s, S, f, b - 1)
    BY <2>3
  <2> DEFINE last == IF s[b] \in S THEN Append(f[b - 1], s[b]) ELSE f[b - 1]
             g == [m \in 0 .. b |-> IF m = b THEN last ELSE f[m]]
  <2>5. g[b] = last /\ \A m \in 0 .. b - 1 : g[m] = f[m]
    BY <2>3
  <2>6. \A m \in 0 .. b - 1 :
          f[m] = IF m = 0 THEN <<>>
                 ELSE IF s[m] \in S THEN Append(f[m - 1], s[m]) ELSE f[m - 1]
    BY <2>4, <2>3 DEF KeepsUpto
  <2>7. g[b] = IF s[b] \in S THEN Append(g[b - 1], s[b]) ELSE g[b - 1]
    <3>1. g[b - 1] = f[b - 1]
      BY <2>3, <2>5
    <3> HIDE DEF g
    <3> QED BY <2>5, <3>1
  <2>8. g = [m \in 0 .. b |-> g[m]]
    OBVIOUS
  <2>9. KeepsUpto(s, S, g, b)
    <3> HIDE DEF g, last
    <3>1. \A m \in 0 .. b :
            g[m] = IF m = 0 THEN <<>>
                   ELSE IF s[m] \in S THEN Append(g[m - 1], s[m]) ELSE g[m - 1]
      BY <2>2, <2>3, <2>5, <2>6, <2>7
    <3> QED BY <3>1, <2>8 DEF KeepsUpto
  <2> QED
    BY <2>1, <2>9
<1> QED
  BY <1>1, <1>2

(* t has the elements of the first m of s that are in S, in their order.   *)
IsSelected(s, S, t, m) ==
  /\ \A i \in 1 .. Len(t) : \E k \in 1 .. m : t[i] = s[k] /\ s[k] \in S
  /\ \A k \in 1 .. m : s[k] \in S => \E i \in 1 .. Len(t) : t[i] = s[k]

InOrder(t, R) == \A i, k \in 1 .. Len(t) : i < k => <<t[i], t[k]>> \in R

LEMMA KeepsOn ==
  ASSUME NEW X, NEW s \in Seq(X), NEW S, NEW R, InOrder(s, R), NEW m \in 1 .. Len(s),
         NEW t \in Seq(X), IsSelected(s, S, t, m - 1), InOrder(t, R),
         NEW u, u = IF s[m] \in S THEN Append(t, s[m]) ELSE t
  PROVE  u \in Seq(X) /\ IsSelected(s, S, u, m) /\ InOrder(u, R)
<1>1. CASE s[m] \in S
  <2>1. /\ u \in Seq(X) /\ Len(u) = Len(t) + 1 /\ u[Len(t) + 1] = s[m]
        /\ \A i \in 1 .. Len(t) : u[i] = t[i]
    BY <1>1
  <2>2. IsSelected(s, S, u, m)
    <3>1. \A i \in 1 .. Len(u) : \E k \in 1 .. m : u[i] = s[k] /\ s[k] \in S
      BY <1>1, <2>1 DEF IsSelected
    <3>2. \A k \in 1 .. m : s[k] \in S => \E i \in 1 .. Len(u) : u[i] = s[k]
      <4> SUFFICES ASSUME NEW k \in 1 .. m, s[k] \in S
                   PROVE  \E i \in 1 .. Len(u) : u[i] = s[k]
        OBVIOUS
      <4>1. Len(t) \in Nat
        OBVIOUS
      <4>2. CASE k = m
        <5>1. Len(u) \in 1 .. Len(u) /\ u[Len(u)] = s[k]
          BY <2>1, <4>1, <4>2
        <5> QED BY <5>1
      <4>3. CASE k # m
        <5>1. k \in 1 .. m - 1
          BY <4>3
        <5>2. PICK i \in 1 .. Len(t) : t[i] = s[k]
          BY <5>1 DEF IsSelected
        <5>3. i \in 1 .. Len(u) /\ u[i] = s[k]
          BY <2>1, <4>1, <5>2
        <5> QED BY <5>3
      <4> QED BY <4>2, <4>3
    <3> QED BY <3>1, <3>2 DEF IsSelected
  <2>3. InOrder(u, R)
    <3> SUFFICES ASSUME NEW i \in 1 .. Len(u), NEW k \in 1 .. Len(u), i < k
                 PROVE  <<u[i], u[k]>> \in R
      BY DEF InOrder
    <3>1. CASE k <= Len(t)
      BY <2>1, <3>1 DEF InOrder
    <3>2. CASE k = Len(t) + 1
      <4>1. PICK l \in 1 .. m - 1 : t[i] = s[l]
        BY <2>1, <3>2 DEF IsSelected
      <4> QED
        BY <2>1, <3>2, <4>1 DEF InOrder
    <3>3. k <= Len(t) \/ k = Len(t) + 1
      <4>1. Len(t) \in Nat /\ k \in 1 .. Len(t) + 1
        BY <2>1
      <4> QED BY <4>1
    <3> QED
      BY <3>1, <3>2, <3>3
  <2> QED
    BY <2>1, <2>2, <2>3
<1>2. CASE s[m] \notin S
  <2>1. u = t
    BY <1>2
  <2>2. \A k \in 1 .. m : s[k] \in S => k \in 1 .. m - 1
    BY <1>2
  <2> QED
    BY <2>1, <2>2 DEF IsSelected
<1> QED
  BY <1>1, <1>2

(* The elements of s that are in S, in any order that s is in.             *)
LEMMA SelectedIs ==
  ASSUME NEW X, NEW s \in Seq(X), NEW S, NEW R, InOrder(s, R)
  PROVE  Selected(s, S) \in Seq(X) /\ IsSelected(s, S, Selected(s, S), Len(s)) /\ InOrder(Selected(s, S), R)
<1>0. Len(s) \in Nat
  OBVIOUS
<1> DEFINE f == CHOOSE f : KeepsUpto(s, S, f, Len(s))
<1>1. KeepsUpto(s, S, f, Len(s))
  BY <1>0, KeepsExists
<1>2. Selected(s, S) = f[Len(s)]
  BY DEF Selected, KeepsUpto
<1> HIDE DEF f
<1>3. \A m \in 0 .. Len(s) :
        f[m] = IF m = 0 THEN <<>>
               ELSE IF s[m] \in S THEN Append(f[m - 1], s[m]) ELSE f[m - 1]
  BY <1>1 DEF KeepsUpto
<1> DEFINE Good(m) == f[m] \in Seq(X) /\ IsSelected(s, S, f[m], m) /\ InOrder(f[m], R)
           Bad == {n \in 0 .. Len(s) : ~ Good(n)}
<1>4. ASSUME Bad # {} PROVE FALSE
  <2>1. PICK b \in Bad : \A m \in Bad : b <= m
    <3>1. Bad \in SUBSET Nat
      OBVIOUS
    <3> HIDE DEF Bad
    <3> QED BY <1>4, <3>1, LeastNumber
  <2>2. b # 0
    <3>1. f[0] = <<>>
      BY <1>0, <1>3
    <3>2. Good(0)
      BY <3>1 DEF IsSelected, InOrder
    <3> HIDE DEF Good
    <3> QED BY <2>1, <3>2
  <2>3. b \in 1 .. Len(s) /\ b - 1 \in 0 .. Len(s) /\ Good(b - 1)
    <3> HIDE DEF Good
    <3> QED BY <2>1, <2>2
  <2>4. f[b] = IF s[b] \in S THEN Append(f[b - 1], s[b]) ELSE f[b - 1]
    BY <1>3, <2>2, <2>3
  <2>5. Good(b)
    BY <2>3, <2>4, KeepsOn
  <2> HIDE DEF Good
  <2> QED
    BY <2>1, <2>5
<1>5. Good(Len(s))
  <2> HIDE DEF Good
  <2> QED BY <1>0, <1>4
<1> QED
  BY <1>2, <1>5
=============================================================================
