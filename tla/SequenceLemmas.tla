--------------------------- MODULE SequenceLemmas ---------------------------
(***************************************************************************)
(* Lemmas about the sequences the models are built from: what joining the  *)
(* sequences of a sequence (FlattenSeq) yields for every input.  They are  *)
(* inductions over the length.  The library's induction theorems take the  *)
(* induction formula as an operator parameter; here each is an argument    *)
(* about a least counterexample instead, which needs none.                 *)
(***************************************************************************)
EXTENDS SequencesExt, SequenceTheorems, WellFoundedInduction, TLAPS

\* Every non-empty set of naturals has a least element.
LEMMA Least ==
  ASSUME NEW S \in SUBSET Nat, S # {}
  PROVE  \E x \in S : \A y \in S : x <= y
<1>1. PICK x \in S : \A y \in S : ~(<<y, x>> \in OpToRel(<, Nat))
  BY NatLessThanWellFounded, WFMin
<1>2. OpToRel(<, Nat) = {p \in Nat \X Nat : p[1] < p[2]}
  BY DEF OpToRel
<1>3. ASSUME NEW y \in S PROVE x <= y
  <2>1. <<y, x>> \in Nat \X Nat /\ <<y, x>>[1] = y /\ <<y, x>>[2] = x
    OBVIOUS
  <2>2. ~(y < x)
    BY <1>1, <1>2, <2>1
  <2> QED BY <2>2
<1> QED BY <1>3

-----------------------------------------------------------------------------
(* FlattenSeq is defined by a recursive function; that there is one.       *)

\* f holds, at each i up to n, the first i sequences of ss joined.
Joins(ss, n, f) ==
  f = [i \in 1..n |-> IF i = 1 THEN ss[i] ELSE f[i - 1] \o ss[i]]

\* f, which joins all before m, continued by the one at m.
Extended(ss, m, f) ==
  [i \in 1..m |-> IF i # m THEN f[i]
                  ELSE IF m = 1 THEN ss[m] ELSE f[m - 1] \o ss[m]]

LEMMA JoinsExtended ==
  ASSUME NEW T, NEW ss \in Seq(Seq(T)), NEW m \in 1..Len(ss),
         NEW f \in [1..(m - 1) -> Seq(T)], Joins(ss, m - 1, f)
  PROVE  Extended(ss, m, f) \in [1..m -> Seq(T)] /\ Joins(ss, m, Extended(ss, m, f))
<1> DEFINE g == Extended(ss, m, f)
<1>1. \A i \in 1..m : ss[i] \in Seq(T)
  OBVIOUS
<1>2. m # 1 => f[m - 1] \in Seq(T) /\ f[m - 1] \o ss[m] \in Seq(T)
  <2>1. ASSUME m # 1 PROVE f[m - 1] \in Seq(T)
    <3>1. m - 1 \in 1..(m - 1)
      BY <2>1
    <3> QED BY <3>1
  <2> QED BY <1>1, <2>1
<1>3. g \in [1..m -> Seq(T)]
  <2>1. ASSUME NEW i \in 1..m, i # m PROVE f[i] \in Seq(T)
    <3>1. i \in 1..(m - 1)
      BY <2>1
    <3> QED BY <3>1
  <2> QED BY <1>1, <1>2, <2>1 DEF Extended
<1>4. ASSUME NEW i \in 1..m
      PROVE  g[i] = IF i = 1 THEN ss[i] ELSE g[i - 1] \o ss[i]
  <2>1. CASE i = m
    <3>1. m # 1 => m - 1 \in 1..m /\ m - 1 # m
      OBVIOUS
    <3>2. m # 1 => g[m - 1] = f[m - 1]
      BY <3>1 DEF Extended
    <3>3. g[m] = IF m = 1 THEN ss[m] ELSE f[m - 1] \o ss[m]
      BY DEF Extended
    <3> HIDE DEF g
    <3> QED BY <2>1, <3>2, <3>3
  <2>2. CASE i # m
    <3>1. i \in 1..(m - 1) /\ (i # 1 => i - 1 \in 1..m /\ i - 1 # m)
      BY <2>2
    <3>2. g[i] = f[i] /\ (i # 1 => g[i - 1] = f[i - 1])
      BY <2>2, <3>1 DEF Extended
    <3>3. f[i] = IF i = 1 THEN ss[i] ELSE f[i - 1] \o ss[i]
      BY <3>1 DEF Joins
    <3> HIDE DEF g
    <3> QED BY <3>2, <3>3
  <2> QED BY <2>1, <2>2
<1> HIDE DEF g
<1>5. Joins(ss, m, g)
  <2> DEFINE h == [i \in 1..m |-> IF i = 1 THEN ss[i] ELSE g[i - 1] \o ss[i]]
  <2>1. g = [i \in 1..m |-> g[i]]
    BY <1>3
  <2>2. [i \in 1..m |-> g[i]] = h
    BY <1>4
  <2> QED BY <2>1, <2>2 DEF Joins
<1> QED BY <1>3, <1>5 DEF g

LEMMA JoinsExist ==
  ASSUME NEW T, NEW ss \in Seq(Seq(T)), NEW n \in 0..Len(ss)
  PROVE  \E f \in [1..n -> Seq(T)] : Joins(ss, n, f)
<1> DEFINE Bad == {m \in 0..Len(ss) : ~\E f \in [1..m -> Seq(T)] : Joins(ss, m, f)}
<1>1. SUFFICES ASSUME Bad # {} PROVE FALSE
  OBVIOUS
<1>2. Bad \in SUBSET Nat
  OBVIOUS
<1>3. PICK m \in Bad : \A k \in Bad : m <= k
  <2> HIDE DEF Bad
  <2> QED BY <1>1, <1>2, Least
<1>4. m \in 0..Len(ss) /\ ~\E f \in [1..m -> Seq(T)] : Joins(ss, m, f)
  OBVIOUS
<1>5. m # 0
  <2>1. <<>> \in [1..0 -> Seq(T)] /\ Joins(ss, 0, <<>>)
    BY DEF Joins
  <2> QED BY <1>4, <2>1
<1>6. m - 1 \in 0..Len(ss) /\ m - 1 \notin Bad
  <2>1. m \in Nat /\ Len(ss) \in Nat /\ m <= Len(ss)
    BY <1>4
  <2>2. m - 1 \in 0..Len(ss) /\ ~(m <= m - 1)
    BY <1>5, <2>1
  <2> HIDE DEF Bad
  <2> QED BY <1>3, <2>2
<1>7. PICK f \in [1..(m - 1) -> Seq(T)] : Joins(ss, m - 1, f)
  BY <1>6
<1>8. m \in 1..Len(ss)
  BY <1>4, <1>5
<1> HIDE DEF Bad
<1>9. Extended(ss, m, f) \in [1..m -> Seq(T)] /\ Joins(ss, m, Extended(ss, m, f))
  BY <1>7, <1>8, JoinsExtended
<1> QED BY <1>4, <1>9

\* There is only one.
LEMMA JoinsUnique ==
  ASSUME NEW ss, NEW n \in Nat, NEW f, NEW g, Joins(ss, n, f), Joins(ss, n, g)
  PROVE  f = g
<1> DEFINE Bad == {i \in 1..n : f[i] # g[i]}
<1>1. ASSUME Bad # {} PROVE FALSE
  <2>1. Bad \in SUBSET Nat
    OBVIOUS
  <2>2. PICK m \in Bad : \A i \in Bad : m <= i
    <3> HIDE DEF Bad
    <3> QED BY <1>1, <2>1, Least
  <2>3. m \in 1..n /\ f[m] # g[m]
    OBVIOUS
  <2>4. /\ f[m] = IF m = 1 THEN ss[m] ELSE f[m - 1] \o ss[m]
        /\ g[m] = IF m = 1 THEN ss[m] ELSE g[m - 1] \o ss[m]
    BY <2>3 DEF Joins
  <2>5. m # 1 => f[m - 1] = g[m - 1]
    BY <2>2, <2>3
  <2> QED BY <2>3, <2>4, <2>5
<1>2. \A i \in 1..n : f[i] = g[i]
  BY <1>1
<1>3. f = [i \in 1..n |-> f[i]] /\ g = [i \in 1..n |-> g[i]]
  BY DEF Joins
<1>4. [i \in 1..n |-> f[i]] = [i \in 1..n |-> g[i]]
  BY <1>2
<1> QED BY <1>3, <1>4

-----------------------------------------------------------------------------
(* FlattenSeq.                                                             *)

\* The result is the last value of that function.
LEMMA FlattenIsJoin ==
  ASSUME NEW ss, Len(ss) \in Nat, Len(ss) # 0, NEW f, Joins(ss, Len(ss), f)
  PROVE  FlattenSeq(ss) = f[Len(ss)]
<1> DEFINE flatten == CHOOSE g : Joins(ss, Len(ss), g)
<1>1. Joins(ss, Len(ss), flatten)
  OBVIOUS
<1>2. flatten = f
  <2> HIDE DEF flatten
  <2> QED BY <1>1, JoinsUnique
<1>3. FlattenSeq(ss) = flatten[Len(ss)]
  BY DEF FlattenSeq, Joins
<1> QED BY <1>2, <1>3

\* Nothing joined is nothing.
LEMMA FlattenNone == FlattenSeq(<<>>) = <<>>
BY DEF FlattenSeq

LEMMA FlattenType ==
  ASSUME NEW T, NEW ss \in Seq(Seq(T))
  PROVE  FlattenSeq(ss) \in Seq(T)
<1>1. CASE Len(ss) = 0
  <2>1. ss = <<>> /\ <<>> \in Seq(T)
    BY <1>1
  <2> QED BY <2>1, FlattenNone, Zenon
<1>2. CASE Len(ss) # 0
  <2>1. Len(ss) \in Nat /\ Len(ss) \in 1..Len(ss) /\ Len(ss) \in 0..Len(ss)
    BY <1>2
  <2>2. PICK f \in [1..Len(ss) -> Seq(T)] : Joins(ss, Len(ss), f)
    BY <2>1, JoinsExist
  <2>3. FlattenSeq(ss) = f[Len(ss)]
    BY <1>2, <2>1, <2>2, FlattenIsJoin
  <2>4. f[Len(ss)] \in Seq(T)
    BY <2>1
  <2> QED BY <2>3, <2>4, Zenon
<1> QED BY <1>1, <1>2

\* One more sequence comes behind those joined so far.
LEMMA FlattenAppend ==
  ASSUME NEW T, NEW ss \in Seq(Seq(T)), NEW s \in Seq(T)
  PROVE  FlattenSeq(Append(ss, s)) = FlattenSeq(ss) \o s
<1>1. PICK tt \in Seq(Seq(T)), n \in Nat, m \in Nat :
        /\ tt = Append(ss, s) /\ n = Len(ss)
        /\ m = n + 1 /\ Len(tt) = m /\ m # 0 /\ tt[m] = s
        /\ \A i \in 1..n : ss[i] = tt[i]
  <2>1. /\ Append(ss, s) \in Seq(Seq(T)) /\ Len(ss) \in Nat
        /\ Len(Append(ss, s)) = Len(ss) + 1 /\ Append(ss, s)[Len(ss) + 1] = s
        /\ Len(ss) + 1 \in Nat /\ Len(ss) + 1 # 0
        /\ \A i \in 1..Len(ss) : ss[i] = Append(ss, s)[i]
    OBVIOUS
  <2> QED BY <2>1
<1>2. PICK f \in [1..n -> Seq(T)] : Joins(ss, n, f)
  <2>1. n \in 0..Len(ss)
    BY <1>1
  <2> QED BY <2>1, JoinsExist
<1>3. Joins(tt, n, f)
  <2>1. [i \in 1..n |-> IF i = 1 THEN ss[i] ELSE f[i - 1] \o ss[i]]
        = [i \in 1..n |-> IF i = 1 THEN tt[i] ELSE f[i - 1] \o tt[i]]
    BY <1>1
  <2> QED BY <1>2, <2>1 DEF Joins
<1> DEFINE g == Extended(tt, m, f)
<1>4. Joins(tt, m, g)
  <2>1. m \in 1..Len(tt) /\ n = m - 1
    BY <1>1
  <2>2. Joins(tt, m - 1, f) /\ f \in [1..(m - 1) -> Seq(T)]
    BY <1>3, <2>1
  <2> QED BY <2>1, <2>2, JoinsExtended
<1>5. FlattenSeq(tt) = g[m]
  <2> HIDE DEF g
  <2>1. Len(tt) = m /\ m # 0
    BY <1>1
  <2> QED BY <1>4, <2>1, FlattenIsJoin
<1>6. g[m] = IF m = 1 THEN s ELSE f[n] \o s
  <2>1. m \in 1..m /\ m - 1 = n /\ tt[m] = s
    BY <1>1
  <2> QED BY <2>1 DEF Extended
<1> HIDE DEF g
<1>7. CASE n = 0
  <2>1. ss = <<>> /\ <<>> \o s = s /\ m = 1
    BY <1>1, <1>7
  <2> QED BY <1>1, <1>5, <1>6, <2>1, FlattenNone
<1>8. CASE n # 0
  <2>1. n \in 1..n /\ m # 1 /\ Len(ss) = n
    BY <1>1, <1>8
  <2>2. FlattenSeq(ss) = f[n]
    BY <1>2, <1>8, <2>1, FlattenIsJoin
  <2> QED BY <1>1, <1>5, <1>6, <2>1, <2>2
<1> QED BY <1>7, <1>8

LEMMA FlattenOne ==
  ASSUME NEW T, NEW s \in Seq(T) PROVE FlattenSeq(<<s>>) = s
<1>1. <<>> \in Seq(Seq(T)) /\ Append(<<>>, s) = <<s>> /\ <<>> \o s = s
  OBVIOUS
<1>2. FlattenSeq(Append(<<>>, s)) = FlattenSeq(<<>>) \o s
  BY <1>1, FlattenAppend
<1> QED BY <1>1, <1>2, FlattenNone

\* Joining two lists of sequences joins what each of them joins to.
LEMMA FlattenConcat ==
  ASSUME NEW T, NEW ss \in Seq(Seq(T)), NEW tt \in Seq(Seq(T))
  PROVE  FlattenSeq(ss \o tt) = FlattenSeq(ss) \o FlattenSeq(tt)
<1> DEFINE Holds(uu) == FlattenSeq(ss \o uu) = FlattenSeq(ss) \o FlattenSeq(uu)
           Bad == {n \in Nat : \E uu \in Seq(Seq(T)) : Len(uu) = n /\ ~Holds(uu)}
<1>1. SUFFICES ASSUME Bad # {} PROVE FALSE
  <2>1. Len(tt) \in Nat
    OBVIOUS
  <2> QED BY <2>1
<1>2. Bad \in SUBSET Nat
  OBVIOUS
<1>3. PICK m \in Bad : \A i \in Bad : m <= i
  <2> HIDE DEF Bad
  <2> QED BY <1>1, <1>2, Least
<1>4. PICK uu \in Seq(Seq(T)) : Len(uu) = m /\ ~Holds(uu)
  OBVIOUS
<1>5. FlattenSeq(ss) \in Seq(T)
  BY FlattenType
<1>6. uu # <<>>
  <2>1. ss \o <<>> = ss /\ FlattenSeq(ss) \o <<>> = FlattenSeq(ss)
    BY <1>5
  <2> QED BY <1>4, <2>1, FlattenNone
<1>7. PICK vv \in Seq(Seq(T)), s \in Seq(T) : uu = Append(vv, s)
  BY <1>6, SequenceEmptyOrAppend
<1>8. Holds(vv)
  <2>1. Len(vv) \in Nat /\ Len(vv) + 1 = m
    BY <1>4, <1>7
  <2>2. Len(vv) \notin Bad
    <3> HIDE DEF Bad
    <3> QED BY <1>3, <2>1
  <2> QED BY <2>1, <2>2
<1> HIDE DEF Bad
<1>9. ss \o vv \in Seq(Seq(T)) /\ ss \o Append(vv, s) = Append(ss \o vv, s)
  OBVIOUS
<1>10. FlattenSeq(Append(ss \o vv, s)) = FlattenSeq(ss \o vv) \o s
  BY <1>9, FlattenAppend
<1>11. FlattenSeq(Append(vv, s)) = FlattenSeq(vv) \o s
  BY FlattenAppend
<1>12. FlattenSeq(vv) \in Seq(T)
  BY FlattenType
<1>13. (FlattenSeq(ss) \o FlattenSeq(vv)) \o s = FlattenSeq(ss) \o (FlattenSeq(vv) \o s)
  BY <1>5, <1>12
<1> QED BY <1>4, <1>7, <1>8, <1>9, <1>10, <1>11, <1>13

\* Sequences with something in each join to something at least as long as
\* there are sequences.
LEMMA FlattenLength ==
  ASSUME NEW T, NEW ss \in Seq(Seq(T)), \A i \in 1..Len(ss) : ss[i] # <<>>
  PROVE  Len(FlattenSeq(ss)) >= Len(ss)
<1> DEFINE Full(uu) == \A i \in 1..Len(uu) : uu[i] # <<>>
           Bad == {n \in Nat : \E uu \in Seq(Seq(T)) :
                     /\ Len(uu) = n /\ Full(uu)
                     /\ ~(Len(FlattenSeq(uu)) >= Len(uu))}
<1>1. SUFFICES ASSUME Bad # {} PROVE FALSE
  <2>1. Len(ss) \in Nat
    OBVIOUS
  <2> QED BY <2>1
<1>2. Bad \in SUBSET Nat
  OBVIOUS
<1>3. PICK m \in Bad : \A i \in Bad : m <= i
  <2> HIDE DEF Bad
  <2> QED BY <1>1, <1>2, Least
<1>4. PICK uu \in Seq(Seq(T)) :
             Len(uu) = m /\ Full(uu) /\ ~(Len(FlattenSeq(uu)) >= Len(uu))
  OBVIOUS
<1>5. uu # <<>>
  BY <1>4, FlattenNone
<1>6. PICK vv \in Seq(Seq(T)), s \in Seq(T) : uu = Append(vv, s)
  BY <1>5, SequenceEmptyOrAppend
<1>7. /\ Len(vv) \in Nat /\ Len(vv) + 1 = m /\ uu[m] = s /\ m \in 1..Len(uu)
      /\ \A i \in 1..Len(vv) : uu[i] = vv[i] /\ i \in 1..Len(uu)
  BY <1>4, <1>6
<1>8. Full(vv) /\ s # <<>>
  BY <1>4, <1>7
<1>9. Len(FlattenSeq(vv)) >= Len(vv)
  <2>1. Len(vv) \notin Bad
    <3> HIDE DEF Bad
    <3> QED BY <1>3, <1>7
  <2> QED BY <1>7, <1>8, <2>1
<1>10. FlattenSeq(uu) = FlattenSeq(vv) \o s /\ FlattenSeq(vv) \in Seq(T)
  BY <1>6, FlattenAppend, FlattenType
<1>11. Len(FlattenSeq(uu)) = Len(FlattenSeq(vv)) + Len(s)
  BY <1>10
<1>12. Len(s) \in Nat /\ Len(s) >= 1 /\ Len(FlattenSeq(vv)) \in Nat
  BY <1>8, <1>10
<1> QED BY <1>4, <1>7, <1>9, <1>11, <1>12
=============================================================================
