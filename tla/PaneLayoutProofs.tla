--------------------------- MODULE PaneLayoutProofs ---------------------------
(* The layouts of the tabs stay sound, TransformsFit holds, and so does        *)
(* NavigationReaches, for all panes, splits and tabs, for every total and      *)
(* limit the assumption allows and every extent of the root.                   *)
(*                                                                             *)
(* A layout is sound when its nodes make a tree (Frame), every split is full,  *)
(* and no split could be one with the split that holds it.  From the weights   *)
(* of one split up: what edits of a list do to its sum and to its nodes, and   *)
(* that a flatten fits (FlattenFits); what each edit of a tree leaves (Frame   *)
(* lemmas); that a removal settles, first the children of the split that lost  *)
(* one (SweepSettles), then the splits above (RemovedSettles), which makes     *)
(* RemovalIsSound; that an insertion does (InsertionIsSound); that the one     *)
(* undoes the other (SplitBack); and that each operation on the tabs keeps     *)
(* LayoutsSound, from which TransformsFit follows (SoundFits).                 *)
(*                                                                             *)
(* For the moves: the parts of a span cover it and do not overlap (PartsAre),  *)
(* so that each node of a sound layout has a rectangle (RectsAre) and each     *)
(* point is in the rectangle of one pane (SomePane, OnePane); and of some of   *)
(* the panes one has a side on which the best panes are others, where a split  *)
(* holds both but no child of it does (MixedSplit, MixedLine, SomeMoveLeaves). *)
EXTENDS PaneFocus, SequenceTheorems, FiniteSetTheorems, WellFoundedInduction, TLAPS

\* A set of natural numbers that is not empty has a least one.
LEMMA LeastOf ==
  ASSUME NEW S \in SUBSET Nat, S # {}
  PROVE  \E m \in S : \A n \in S : m <= n
<1> DEFINE R == {ss \in Nat \X Nat : ss[1] < ss[2]}
<1>1. IsWellFoundedOn(R, Nat)
  BY NatLessThanWellFounded DEF OpToRel
<1> HIDE DEF R
<1>2. PICK m \in S : \A n \in S : ~(<<n, m>> \in R)
  BY <1>1, WFMin
<1>3. ASSUME NEW n \in S PROVE m <= n
  <2>1. <<n, m>> \notin R /\ n \in Nat /\ m \in Nat
    BY <1>2
  <2>2. ~(n < m)
    BY <2>1 DEF R
  <2> QED BY <2>1, <2>2
<1> QED BY <1>3

-----------------------------------------------------------------------------
(* A split's children, before and after an edit.                              *)

Ends == PaneIds \cup SplitIds \cup {None}
Kid == [weight : Nat, node : Ends]

\* The children of a split are a finite list of weighted nodes.
LEMMA KidsOf ==
  ASSUME NEW A \in Seq(Kid)
  PROVE  /\ Len(A) \in Nat /\ DOMAIN A = 1..Len(A)
         /\ \A i \in 1..Len(A) : A[i] \in Kid /\ A[i].weight \in Nat /\ A[i].node \in Ends
<1>1. Len(A) \in Nat /\ DOMAIN A = 1..Len(A) /\ A \in [1..Len(A) -> Kid]
  BY LenProperties
<1>2. ASSUME NEW i \in 1..Len(A) PROVE A[i] \in Kid /\ A[i].weight \in Nat /\ A[i].node \in Ends
  BY <1>1 DEF Kid
<1> QED BY <1>1, <1>2

(* What is before, in the place of, and after the i-th child. *)
LEMMA SplicedIs ==
  ASSUME NEW K, NEW A \in Seq(K), NEW B \in Seq(K), NEW i \in 1..Len(A)
  PROVE  LET Z == Spliced(A, i, B)
         IN /\ Z \in Seq(K) /\ Len(Z) = Len(A) + Len(B) - 1
            /\ \A k \in 1..Len(Z) :
                 Z[k] = IF k < i THEN A[k]
                        ELSE IF k < i + Len(B) THEN B[k - i + 1] ELSE A[k - Len(B) + 1]
<1> DEFINE a == Len(A) b == Len(B)
           X == SubSeq(A, 1, i - 1) Y == SubSeq(A, i + 1, a)
           XB == X \o B
           Z == XB \o Y
<1> HIDE DEF Z
<1>1. a \in Nat /\ b \in Nat /\ i \in Nat /\ 1 <= i /\ i <= a
  BY LenProperties
<1>2. X \in Seq(K) /\ Len(X) = i - 1 /\ \A k \in 1..(i - 1) : X[k] = A[k]
  <2>1. \A k \in 1..(i - 1) : A[k] \in K
    BY <1>1, ElementOfSeq
  <2>2. /\ X \in Seq(K) /\ Len(X) = IF 1 <= i - 1 THEN (i - 1) - 1 + 1 ELSE 0
        /\ \A k \in 1..((i - 1) - 1 + 1) : X[k] = A[1 + k - 1]
    <3>1. 1 \in Int /\ i - 1 \in Int
      BY <1>1
    <3> QED BY <2>1, <3>1, SubSeqProperties
  <2> HIDE DEF X
  <2> QED BY <1>1, <2>2
<1>3. Y \in Seq(K) /\ Len(Y) = a - i /\ \A k \in 1..(a - i) : Y[k] = A[k + i]
  <2>1. \A k \in (i + 1)..a : A[k] \in K
    BY <1>1, ElementOfSeq
  <2>2. /\ Y \in Seq(K) /\ Len(Y) = IF i + 1 <= a THEN a - (i + 1) + 1 ELSE 0
        /\ \A k \in 1..(a - (i + 1) + 1) : Y[k] = A[(i + 1) + k - 1]
    <3>1. i + 1 \in Int /\ a \in Int
      BY <1>1
    <3> HIDE DEF a
    <3> QED BY <2>1, <3>1, SubSeqProperties
  <2> HIDE DEF Y
  <2> QED BY <1>1, <2>2
<1> HIDE DEF X, Y
<1>4. XB \in Seq(K) /\ Len(XB) = (i - 1) + b
      /\ \A k \in 1..((i - 1) + b) : XB[k] = IF k <= i - 1 THEN X[k] ELSE B[k - (i - 1)]
  <2>1. XB \in Seq(K) /\ Len(XB) = Len(X) + b
        /\ \A k \in 1..(Len(X) + b) : XB[k] = IF k <= Len(X) THEN X[k] ELSE B[k - Len(X)]
    BY <1>2, ConcatProperties
  <2> HIDE DEF XB, b
  <2> QED BY <1>2, <2>1
<1> HIDE DEF XB
<1>5. Z \in Seq(K) /\ Len(Z) = ((i - 1) + b) + (a - i)
      /\ \A k \in 1..(((i - 1) + b) + (a - i)) :
           Z[k] = IF k <= (i - 1) + b THEN XB[k] ELSE Y[k - ((i - 1) + b)]
  <2>1. Z \in Seq(K) /\ Len(Z) = Len(XB) + Len(Y)
        /\ \A k \in 1..(Len(XB) + Len(Y)) : Z[k] = IF k <= Len(XB) THEN XB[k] ELSE Y[k - Len(XB)]
    BY <1>3, <1>4, ConcatProperties DEF Z
  <2> HIDE DEF a, b
  <2> QED BY <1>3, <1>4, <2>1
<1> HIDE DEF a, b
<1>6. Len(Z) = a + b - 1
  BY <1>1, <1>5
<1>7. ASSUME NEW k \in 1..Len(Z)
      PROVE  Z[k] = IF k < i THEN A[k] ELSE IF k < i + b THEN B[k - i + 1] ELSE A[k - b + 1]
  <2>1. Z[k] = IF k <= (i - 1) + b THEN XB[k] ELSE Y[k - ((i - 1) + b)]
    BY <1>1, <1>5
  <2>2. CASE k < i
    <3>1. k \in 1..(i - 1) /\ k \in 1..((i - 1) + b) /\ k <= (i - 1) + b /\ k <= i - 1
      BY <1>1, <1>6, <2>2
    <3> QED BY <1>2, <1>4, <2>1, <2>2, <3>1
  <2>3. CASE ~(k < i) /\ k < i + b
    <3>1. k \in 1..((i - 1) + b) /\ k <= (i - 1) + b /\ ~(k <= i - 1) /\ k - (i - 1) = k - i + 1
      BY <1>1, <1>6, <2>3
    <3> QED BY <1>4, <2>1, <2>3, <3>1
  <2>4. CASE ~(k < i) /\ ~(k < i + b)
    <3>1. /\ ~(k <= (i - 1) + b) /\ k - ((i - 1) + b) \in 1..(a - i)
          /\ (k - ((i - 1) + b)) + i = k - b + 1
      BY <1>1, <1>6, <2>4
    <3> QED BY <1>3, <2>1, <2>4, <3>1
  <2> QED BY <2>2, <2>3, <2>4
<1>8. Spliced(A, i, B) = Z
  BY DEF Spliced, Z, XB, X, Y, a
<1> QED BY <1>5, <1>6, <1>7, <1>8 DEF a, b

\* What is before and after the child that is removed.
LEMMA RemovedIs ==
  ASSUME NEW K, NEW A \in Seq(K), NEW i \in 1..Len(A)
  PROVE  LET Z == RemoveAt(A, i)
         IN /\ Z \in Seq(K) /\ Len(Z) = Len(A) - 1
            /\ \A k \in 1..Len(Z) : Z[k] = IF k < i THEN A[k] ELSE A[k + 1]
<1> DEFINE X == SubSeq(A, 1, i - 1) Y == SubSeq(A, i + 1, Len(A)) Z == Spliced(A, i, <<>>)
<1>1. X \in Seq(K)
  <2>1. \A k \in 1..(i - 1) : A[k] \in K
    BY LenProperties, ElementOfSeq
  <2> QED BY <2>1, SubSeqProperties
<1>2. RemoveAt(A, i) = Z
  <2>1. X \o <<>> = X
    BY <1>1, ConcatEmptySeq
  <2> HIDE DEF X, Y
  <2>2. RemoveAt(A, i) = X \o Y
    BY DEF RemoveAt, X, Y
  <2>3. Z = (X \o <<>>) \o Y
    BY DEF Spliced, X, Y
  <2> QED BY <2>1, <2>2, <2>3
<1>3. <<>> \in Seq(K) /\ Len(<<>>) = 0
  BY EmptySeq
<1>4. /\ Z \in Seq(K) /\ Len(Z) = Len(A) + 0 - 1
      /\ \A k \in 1..Len(Z) :
           Z[k] = IF k < i THEN A[k] ELSE IF k < i + 0 THEN <<>>[k - i + 1] ELSE A[k - 0 + 1]
  <2>1. PICK none \in Seq(K) : none = <<>> /\ Len(none) = 0
    BY <1>3
  <2> HIDE DEF Z
  <2>2. Z = Spliced(A, i, none)
    BY <2>1 DEF Z
  <2>3. /\ Z \in Seq(K) /\ Len(Z) = Len(A) + Len(none) - 1
        /\ \A k \in 1..Len(Z) :
             Z[k] = IF k < i THEN A[k]
                    ELSE IF k < i + Len(none) THEN none[k - i + 1] ELSE A[k - Len(none) + 1]
    BY <2>2, SplicedIs
  <2> QED BY <2>1, <2>3
<1> HIDE DEF Z
<1>5. Len(A) \in Nat /\ i \in Nat
  BY LenProperties
<1>6. Len(Z) = Len(A) - 1
  BY <1>4, <1>5
<1>7. ASSUME NEW k \in 1..Len(Z) PROVE Z[k] = IF k < i THEN A[k] ELSE A[k + 1]
  <2>1. k \in Nat /\ i + 0 = i /\ k - 0 + 1 = k + 1
    BY <1>5
  <2> QED BY <1>4, <2>1
<1> QED BY <1>2, <1>4, <1>6, <1>7

\* What is before and after the child that is inserted.
LEMMA InsertedIs ==
  ASSUME NEW K, NEW A \in Seq(K), NEW at \in 1..(Len(A) + 1), NEW x \in K
  PROVE  LET Z == InsertAt(A, at, x)
         IN /\ Z \in Seq(K) /\ Len(Z) = Len(A) + 1
            /\ \A k \in 1..Len(Z) :
                 Z[k] = IF k < at THEN A[k] ELSE IF k = at THEN x ELSE A[k - 1]
<1> DEFINE a == Len(A)
           X == SubSeq(A, 1, at - 1) Y == SubSeq(A, at, a)
           XB == X \o <<x>>
           Z == XB \o Y
<1> HIDE DEF Z
<1>1. a \in Nat /\ at \in Nat /\ 1 <= at /\ at <= a + 1
  BY LenProperties
<1>2. X \in Seq(K) /\ Len(X) = at - 1 /\ \A k \in 1..(at - 1) : X[k] = A[k]
  <2>1. \A k \in 1..(at - 1) : A[k] \in K
    BY <1>1, ElementOfSeq
  <2>2. /\ X \in Seq(K) /\ Len(X) = IF 1 <= at - 1 THEN (at - 1) - 1 + 1 ELSE 0
        /\ \A k \in 1..((at - 1) - 1 + 1) : X[k] = A[1 + k - 1]
    <3>1. 1 \in Int /\ at - 1 \in Int
      BY <1>1
    <3> QED BY <2>1, <3>1, SubSeqProperties
  <2> HIDE DEF X
  <2> QED BY <1>1, <2>2
<1>3. Y \in Seq(K) /\ Len(Y) = a - at + 1 /\ \A k \in 1..(a - at + 1) : Y[k] = A[at + k - 1]
  <2>1. \A k \in at..a : A[k] \in K
    BY <1>1, ElementOfSeq
  <2>2. /\ Y \in Seq(K) /\ Len(Y) = IF at <= a THEN a - at + 1 ELSE 0
        /\ \A k \in 1..(a - at + 1) : Y[k] = A[at + k - 1]
    <3>1. at \in Int /\ a \in Int
      BY <1>1
    <3> HIDE DEF a
    <3> QED BY <2>1, <3>1, SubSeqProperties
  <2> HIDE DEF Y
  <2> QED BY <1>1, <2>2
<1> HIDE DEF X, Y
<1>o. <<x>> \in Seq(K) /\ Len(<<x>>) = 1 /\ <<x>>[1] = x
  OBVIOUS
<1>4. XB \in Seq(K) /\ Len(XB) = (at - 1) + 1
      /\ \A k \in 1..((at - 1) + 1) : XB[k] = IF k <= at - 1 THEN X[k] ELSE <<x>>[k - (at - 1)]
  <2>1. XB \in Seq(K) /\ Len(XB) = Len(X) + Len(<<x>>)
        /\ \A k \in 1..(Len(X) + Len(<<x>>)) : XB[k] = IF k <= Len(X) THEN X[k] ELSE <<x>>[k - Len(X)]
    BY <1>2, <1>o, ConcatProperties
  <2> HIDE DEF XB
  <2> QED BY <1>2, <1>o, <2>1
<1> HIDE DEF XB
<1>5. Z \in Seq(K) /\ Len(Z) = ((at - 1) + 1) + (a - at + 1)
      /\ \A k \in 1..(((at - 1) + 1) + (a - at + 1)) :
           Z[k] = IF k <= (at - 1) + 1 THEN XB[k] ELSE Y[k - ((at - 1) + 1)]
  <2>1. Z \in Seq(K) /\ Len(Z) = Len(XB) + Len(Y)
        /\ \A k \in 1..(Len(XB) + Len(Y)) : Z[k] = IF k <= Len(XB) THEN XB[k] ELSE Y[k - Len(XB)]
    BY <1>3, <1>4, ConcatProperties DEF Z
  <2> HIDE DEF a
  <2> QED BY <1>3, <1>4, <2>1
<1> HIDE DEF a
<1>6. Len(Z) = a + 1
  BY <1>1, <1>5
<1>7. ASSUME NEW k \in 1..Len(Z)
      PROVE  Z[k] = IF k < at THEN A[k] ELSE IF k = at THEN x ELSE A[k - 1]
  <2>1. Z[k] = IF k <= (at - 1) + 1 THEN XB[k] ELSE Y[k - ((at - 1) + 1)]
    BY <1>1, <1>5
  <2>2. CASE k < at
    <3>1. k \in 1..(at - 1) /\ k \in 1..((at - 1) + 1) /\ k <= (at - 1) + 1 /\ k <= at - 1
      BY <1>1, <1>6, <2>2
    <3> QED BY <1>2, <1>4, <2>1, <2>2, <3>1
  <2>3. CASE k = at
    <3>1. k \in 1..((at - 1) + 1) /\ k <= (at - 1) + 1 /\ ~(k <= at - 1) /\ k - (at - 1) = 1 /\ ~(k < at)
      BY <1>1, <1>6, <2>3
    <3> QED BY <1>o, <1>4, <2>1, <2>3, <3>1
  <2>4. CASE at < k
    <3>1. /\ ~(k <= (at - 1) + 1) /\ k - ((at - 1) + 1) \in 1..(a - at + 1) /\ ~(k < at) /\ k # at
          /\ at + (k - ((at - 1) + 1)) - 1 = k - 1
      BY <1>1, <1>6, <2>4
    <3> QED BY <1>3, <2>1, <2>4, <3>1
  <2> QED BY <1>1, <2>2, <2>3, <2>4
<1>8. InsertAt(A, at, x) = Z
  BY DEF InsertAt, Z, XB, X, Y, a
<1> QED BY <1>5, <1>6, <1>7, <1>8 DEF a

\* The same for the children of a split.
LEMMA KidInserted ==
  ASSUME NEW B \in Seq(Kid), NEW at \in 1..(Len(B) + 1), NEW x \in Kid
  PROVE  LET Z == InsertAt(B, at, x)
         IN /\ Z \in Seq(Kid) /\ Len(Z) = Len(B) + 1
            /\ \A k \in 1..Len(Z) : Z[k] = IF k < at THEN B[k] ELSE IF k = at THEN x ELSE B[k - 1]
<1> DEFINE Z == InsertAt(B, at, x) K == Kid
<1>1. B \in Seq(K) /\ x \in K
  OBVIOUS
<1> HIDE DEF K
<1>2. /\ Z \in Seq(K) /\ Len(Z) = Len(B) + 1
      /\ \A k \in 1..Len(Z) : Z[k] = IF k < at THEN B[k] ELSE IF k = at THEN x ELSE B[k - 1]
  BY <1>1, InsertedIs
<1> QED BY <1>2 DEF K

-----------------------------------------------------------------------------
(* Sums of weights.  What a sum is after an edit is shown by saying what the   *)
(* sums of the first weights are.                                             *)

Sums(f, A) ==
    /\ f \in [0..Len(A) -> Int] /\ f[0] = 0
    /\ \A i \in 1..Len(A) : f[i] = f[i - 1] + A[i].weight

\* There is one way to sum the weights.
LEMMA SumsAgree ==
  ASSUME NEW A \in Seq(Kid), NEW f, NEW g, Sums(f, A), Sums(g, A)
  PROVE  f[Len(A)] = g[Len(A)]
<1> DEFINE n == Len(A) Bad == {i \in 0..n : f[i] # g[i]}
<1>1. n \in Nat
  BY KidsOf
<1>2. Bad = {}
  <2> SUFFICES ASSUME Bad # {} PROVE FALSE
    OBVIOUS
  <2>1. PICK m \in Bad : \A k \in Bad : m <= k
    <3>1. Bad \subseteq Nat
      BY <1>1
    <3> HIDE DEF Bad
    <3> QED BY <3>1, LeastOf
  <2>2. m # 0
    BY <2>1 DEF Sums
  <2>3. m \in 1..n /\ m - 1 \in 0..n /\ ~(m <= m - 1)
    BY <1>1, <2>1, <2>2
  <2>4. f[m - 1] = g[m - 1]
    BY <2>1, <2>3
  <2>5. f[m] = f[m - 1] + A[m].weight /\ g[m] = g[m - 1] + A[m].weight
    BY <2>3 DEF Sums
  <2> QED BY <2>1, <2>4, <2>5
<1> QED BY <1>1, <1>2

\* There is a sum of any number of first weights.
LEMMA SumsExtend ==
  ASSUME NEW A \in Seq(Kid), NEW k \in 0..Len(A)
  PROVE  \E f \in [0..k -> Nat] : f[0] = 0 /\ \A i \in 1..k : f[i] = f[i - 1] + A[i].weight
<1> DEFINE n == Len(A)
           Good(j) == \E f \in [0..j -> Nat] : f[0] = 0 /\ \A i \in 1..j : f[i] = f[i - 1] + A[i].weight
           Bad == {j \in 0..n : ~Good(j)}
<1>1. n \in Nat
  BY KidsOf
<1>2. Bad = {}
  <2> SUFFICES ASSUME Bad # {} PROVE FALSE
    OBVIOUS
  <2>1. PICK m \in Bad : \A j \in Bad : m <= j
    <3>1. Bad \subseteq Nat
      BY <1>1
    <3> HIDE DEF Bad
    <3> QED BY <3>1, LeastOf
  <2>2. m # 0
    <3> DEFINE z == [i \in 0..0 |-> 0]
    <3>1. z \in [0..0 -> Nat] /\ z[0] = 0 /\ \A i \in 1..0 : z[i] = z[i - 1] + A[i].weight
      OBVIOUS
    <3> HIDE DEF z
    <3>2. Good(0)
      BY <3>1
    <3> QED BY <2>1, <3>2
  <2>3. m \in 1..n /\ m - 1 \in 0..n /\ ~(m <= m - 1) /\ m \in Nat
    BY <1>1, <2>1, <2>2
  <2>4. Good(m - 1)
    <3> HIDE DEF Good
    <3> QED BY <2>1, <2>3
  <2>5. PICK f \in [0..(m - 1) -> Nat] :
           f[0] = 0 /\ \A i \in 1..(m - 1) : f[i] = f[i - 1] + A[i].weight
    BY <2>4
  <2> DEFINE g == [i \in 0..m |-> IF i = m THEN f[m - 1] + A[m].weight ELSE f[i]]
  <2>6. A[m].weight \in Nat /\ m - 1 \in 0..(m - 1)
    BY <2>3, KidsOf
  <2>7. \A i \in 0..m : i # m => i \in 0..(m - 1)
    BY <2>3
  <2>8. g \in [0..m -> Nat]
    BY <2>6, <2>7
  <2>9. g[0] = 0
    BY <2>3, <2>5
  <2>10. ASSUME NEW i \in 1..m PROVE g[i] = g[i - 1] + A[i].weight
    <3>1. i \in 0..m /\ i - 1 \in 0..m /\ i - 1 # m /\ i - 1 \in 0..(m - 1)
      BY <2>3
    <3>2. g[i - 1] = f[i - 1]
      BY <3>1
    <3>3. CASE i = m
      BY <3>1, <3>2, <3>3
    <3>4. CASE i # m
      <4>1. i \in 1..(m - 1) /\ g[i] = f[i]
        BY <2>3, <3>1, <3>4
      <4> QED BY <2>5, <3>2, <4>1
    <3> QED BY <3>3, <3>4
  <2> HIDE DEF g
  <2>11. Good(m)
    BY <2>8, <2>9, <2>10
  <2> QED BY <2>1, <2>11
<1> HIDE DEF Good
<1>3. Good(k)
  BY <1>2
<1> QED BY <1>3 DEF Good

\* The sums the model defines by recursion are there, and are natural numbers.
LEMMA PrefixSumsAre ==
  ASSUME NEW A \in Seq(Kid)
  PROVE  Sums(PrefixSums(A), A) /\ \A i \in 0..Len(A) : PrefixSums(A)[i] \in Nat
<1> DEFINE n == Len(A)
           Done(f) == f = [i \in 0..n |-> IF i = 0 THEN 0 ELSE f[i - 1] + A[i].weight]
           a == CHOOSE f : Done(f)
<1>1. n \in Nat
  BY KidsOf
<1>2. PICK d \in [0..n -> Nat] : d[0] = 0 /\ \A i \in 1..n : d[i] = d[i - 1] + A[i].weight
  <2>1. n \in 0..n
    BY <1>1
  <2> QED BY <2>1, SumsExtend
<1>3. PrefixSums(A) = a
  BY Zenon DEF PrefixSums
<1>4. Done(d)
  <2>1. \A i \in 0..n : i = 0 \/ (i # 0 /\ i \in 1..n)
    BY <1>1
  <2>2. \A i \in 0..n : d[i] = IF i = 0 THEN 0 ELSE d[i - 1] + A[i].weight
    BY <1>2, <2>1
  <2>3. d = [i \in 0..n |-> d[i]]
    BY <1>2
  <2> HIDE DEF n
  <2> QED BY <2>2, <2>3
<1>5. Done(a)
  <2> HIDE DEF Done
  <2> QED BY <1>4
<1> HIDE DEF a
<1>6. /\ DOMAIN a = 0..n /\ a = [i \in 0..n |-> a[i]]
      /\ \A i \in 0..n : a[i] = IF i = 0 THEN 0 ELSE a[i - 1] + A[i].weight
  <2> HIDE DEF n
  <2> QED BY <1>5
<1>7. a[0] = 0 /\ \A i \in 1..n : a[i] = a[i - 1] + A[i].weight
  <2>1. 0 \in 0..n /\ \A i \in 1..n : i \in 0..n /\ i # 0
    BY <1>1
  <2> QED BY <1>6, <2>1
<1> DEFINE Bad == {i \in 0..n : a[i] \notin Nat}
<1>8. Bad = {}
  <2> SUFFICES ASSUME Bad # {} PROVE FALSE
    OBVIOUS
  <2>1. PICK m \in Bad : \A k \in Bad : m <= k
    <3>1. Bad \subseteq Nat
      BY <1>1
    <3> HIDE DEF Bad
    <3> QED BY <3>1, LeastOf
  <2>2. m # 0
    BY <1>7, <2>1
  <2>3. m \in 1..n /\ m - 1 \in 0..n /\ ~(m <= m - 1)
    BY <1>1, <2>1, <2>2
  <2>4. a[m - 1] \in Nat /\ A[m].weight \in Nat
    BY <2>1, <2>3, KidsOf
  <2>5. a[m] = a[m - 1] + A[m].weight
    BY <1>7, <2>3
  <2>6. a[m] \in Nat
    BY <2>4, <2>5
  <2> QED BY <2>1, <2>6
<1>9. \A i \in 0..n : a[i] \in Nat
  BY <1>8
<1> HIDE DEF Bad
<1>10. a \in [0..n -> Int]
  BY <1>6, <1>9
<1> QED BY <1>3, <1>7, <1>9, <1>10 DEF Sums

\* The sum of a split is what any function of its partial sums ends with.
LEMMA SumIs ==
  ASSUME NEW A \in Seq(Kid), NEW f, Sums(f, A)
  PROVE  SumOf(A) = f[Len(A)]
BY PrefixSumsAre, SumsAgree DEF SumOf

\* The sum of a split is a natural number.
LEMMA SumIsNat ==
  ASSUME NEW A \in Seq(Kid)
  PROVE  SumOf(A) \in Nat
<1>1. Len(A) \in 0..Len(A)
  BY KidsOf
<1> QED BY <1>1, PrefixSumsAre DEF SumOf

\* A scaled weight is at least one, and less than one more than its share of the slot.
LEMMA ScaleIs ==
  ASSUME NEW w \in Nat, NEW slot \in Nat
  PROVE  /\ Scale(w, slot) \in Nat /\ Scale(w, slot) >= 1
         /\ SplitTotal * Scale(w, slot) <= w * slot + SplitTotal
<1> DEFINE x == w * slot q == x \div SplitTotal
<1>1. SplitTotal \in Nat /\ SplitTotal >= 1
  <2>1. MaxSplitChildren * MaxSplitChildren >= 1
    BY SplitAssumption
  <2> QED BY <2>1, SplitAssumption
<1>2. x \in Nat
  OBVIOUS
<1>3. q \in Nat /\ SplitTotal * q <= x
  <2> HIDE DEF x
  <2> QED BY <1>1, <1>2
<1>4. Scale(w, slot) = IF q < 1 THEN 1 ELSE q
  BY DEF Scale, AtLeastOne
<1> HIDE DEF q, x
<1>5. CASE q < 1
  <2>1. Scale(w, slot) = 1
    BY <1>4, <1>5
  <2> QED BY <1>1, <1>2, <2>1 DEF x
<1>6. CASE ~(q < 1)
  <2>1. Scale(w, slot) = q
    BY <1>4, <1>6
  <2>2. SplitTotal * q \in Nat
    BY <1>1, <1>3
  <2> QED BY <1>1, <1>2, <1>3, <1>6, <2>1, <2>2 DEF x
<1> QED BY <1>5, <1>6

\* A flatten scales every weight and keeps the nodes.
LEMMA ScaledIs ==
  ASSUME NEW B \in Seq(Kid), NEW slot \in Nat
  PROVE  LET Z == Scaled(B, slot)
         IN /\ Z \in Seq(Kid) /\ Len(Z) = Len(B)
            /\ \A k \in 1..Len(B) :
                 Z[k].weight = Scale(B[k].weight, slot) /\ Z[k].node = B[k].node /\ Z[k].weight >= 1
<1> DEFINE n == Len(B) z(k) == [B[k] EXCEPT !.weight = Scale(@, slot)]
           Z == [k \in 1..n |-> z(k)]
<1>1. n \in Nat /\ DOMAIN B = 1..n
  BY KidsOf
<1>2. ASSUME NEW k \in 1..n
      PROVE  /\ z(k) \in Kid /\ z(k).weight = Scale(B[k].weight, slot) /\ z(k).node = B[k].node
             /\ z(k).weight >= 1
  <2>1. B[k] \in Kid /\ B[k].weight \in Nat
    BY KidsOf
  <2>2. Scale(B[k].weight, slot) \in Nat /\ Scale(B[k].weight, slot) >= 1
    BY <2>1, ScaleIs
  <2> QED BY <2>1, <2>2 DEF Kid
<1>3. Scaled(B, slot) = Z
  BY <1>1 DEF Scaled
<1> HIDE DEF z, n
<1>4. Z \in Seq(Kid) /\ Len(Z) = n
  BY <1>1, <1>2
<1>5. \A k \in 1..n : Z[k] = z(k)
  OBVIOUS
<1> HIDE DEF Z
<1> QED BY <1>2, <1>3, <1>4, <1>5 DEF n

\* What the constants allow: the total is no less than the square of the limit.
LEMMA TotalIs ==
  /\ SplitTotal \in Nat /\ MaxSplitChildren \in Nat /\ SplitTotal >= 4 /\ MaxSplitChildren >= 2
  /\ SplitTotal >= MaxSplitChildren * MaxSplitChildren
<1>1. MaxSplitChildren * MaxSplitChildren >= 4
  BY SplitAssumption
<1> QED BY <1>1, SplitAssumption

(* Rounding a child up to one adds less than one to the sum. *)
LEMMA ScaledSum ==
  ASSUME NEW B \in Seq(Kid), NEW slot \in Nat, SumOf(B) = SplitTotal
  PROVE  SumOf(Scaled(B, slot)) <= slot + Len(B)
<1> DEFINE n == Len(B) Z == Scaled(B, slot) S == PrefixSums(B) T == PrefixSums(Z) M == SplitTotal
           Bad == {k \in 0..n : ~(M * T[k] <= S[k] * slot + M * k)}
<1>1. n \in Nat
  BY KidsOf
<1>2. /\ Z \in Seq(Kid) /\ Len(Z) = n
      /\ \A k \in 1..n : Z[k].weight = Scale(B[k].weight, slot)
  BY ScaledIs
<1>3. M \in Nat /\ M >= 4
  BY TotalIs
<1> HIDE DEF Z
<1>4. /\ S[0] = 0 /\ \A k \in 1..n : S[k] = S[k - 1] + B[k].weight
      /\ T[0] = 0 /\ \A k \in 1..n : T[k] = T[k - 1] + Z[k].weight
      /\ \A k \in 0..n : S[k] \in Nat /\ T[k] \in Nat
  BY <1>2, PrefixSumsAre DEF Sums
<1> HIDE DEF S, T, M
<1>5. Bad = {}
  <2> SUFFICES ASSUME Bad # {} PROVE FALSE
    OBVIOUS
  <2>1. PICK m \in Bad : \A k \in Bad : m <= k
    <3>1. Bad \subseteq Nat
      BY <1>1
    <3> HIDE DEF Bad
    <3> QED BY <3>1, LeastOf
  <2>2. m # 0
    BY <1>3, <1>4, <2>1
  <2>3. m \in 1..n /\ m - 1 \in 0..n /\ m - 1 \in Nat /\ ~(m <= m - 1)
    BY <1>1, <2>1, <2>2
  <2>4. M * T[m - 1] <= S[m - 1] * slot + M * (m - 1)
    BY <2>1, <2>3
  <2> DEFINE w == B[m].weight z == Scale(w, slot) s == S[m - 1] t == T[m - 1]
  <2>5. w \in Nat /\ z \in Nat /\ M * z <= w * slot + M /\ s \in Nat /\ t \in Nat
    BY <1>4, <2>3, KidsOf, ScaleIs DEF M
  <2>6. S[m] = s + w /\ T[m] = t + z
    BY <1>2, <1>4, <2>3
  <2> HIDE DEF w, z, s, t
  <2>7. M * (t + z) = M * t + M * z /\ (s + w) * slot = s * slot + w * slot /\ M * m = M * (m - 1) + M
    BY <1>3, <2>3, <2>5
  <2>8. M * (t + z) <= (s + w) * slot + M * m
    <3>1. M * t \in Nat /\ M * z \in Nat /\ s * slot \in Nat /\ w * slot \in Nat /\ M * (m - 1) \in Nat
      BY <1>3, <2>3, <2>5
    <3>2. M * t <= s * slot + M * (m - 1)
      BY <2>4 DEF s, t
    <3> QED BY <1>3, <2>5, <2>7, <3>1, <3>2
  <2> QED BY <2>1, <2>6, <2>8
<1>6. n \in 0..n
  BY <1>1
<1>7. M * T[n] <= S[n] * slot + M * n
  BY <1>5, <1>6
<1>8. S[n] = M /\ SumOf(Z) = T[n]
  BY <1>2 DEF SumOf, S, T, M
<1>9. M * T[n] <= M * (slot + n)
  BY <1>1, <1>3, <1>7, <1>8
<1>10. T[n] <= slot + n
  <2>1. T[n] \in Nat /\ slot + n \in Nat
    BY <1>1, <1>4, <1>6
  <2> QED BY <1>3, <1>9, <2>1
<1> QED BY <1>8, <1>10 DEF Z

\* A sum is at most the largest weight as often as there are children.
LEMMA BoundedSum ==
  ASSUME NEW A \in Seq(Kid), NEW w \in Nat, \A i \in 1..Len(A) : A[i].weight <= w
  PROVE  SumOf(A) <= Len(A) * w
<1> DEFINE n == Len(A) S == PrefixSums(A) Bad == {k \in 0..n : ~(S[k] <= k * w)}
<1>1. n \in Nat
  BY KidsOf
<1>2. /\ S[0] = 0 /\ \A k \in 1..n : S[k] = S[k - 1] + A[k].weight
      /\ \A k \in 0..n : S[k] \in Nat
  BY PrefixSumsAre DEF Sums
<1> HIDE DEF S
<1>3. Bad = {}
  <2> SUFFICES ASSUME Bad # {} PROVE FALSE
    OBVIOUS
  <2>1. PICK m \in Bad : \A k \in Bad : m <= k
    <3>1. Bad \subseteq Nat
      BY <1>1
    <3> HIDE DEF Bad
    <3> QED BY <3>1, LeastOf
  <2>2. m # 0
    <3>1. 0 * w = 0 /\ 0 \in 0..n
      BY <1>1
    <3>2. S[0] <= 0 * w
      BY <1>2, <3>1
    <3> QED BY <2>1, <3>2, Zenon
  <2>3. m \in 1..n /\ m - 1 \in 0..n /\ m - 1 \in Nat /\ ~(m <= m - 1)
    BY <1>1, <2>1, <2>2
  <2>4. S[m - 1] <= (m - 1) * w /\ S[m - 1] \in Nat
    BY <1>2, <2>1, <2>3
  <2>5. S[m] = S[m - 1] + A[m].weight /\ A[m].weight <= w /\ A[m].weight \in Nat
    BY <1>2, <2>3, KidsOf
  <2>6. m * w = (m - 1) * w + w /\ (m - 1) * w \in Nat
    BY <2>3
  <2>7. S[m] <= m * w
    <3> DEFINE x == (m - 1) * w
    <3>1. x \in Nat /\ S[m - 1] <= x /\ m * w = x + w
      BY <2>4, <2>6
    <3> HIDE DEF x
    <3> QED BY <2>4, <2>5, <3>1
  <2> QED BY <2>1, <2>7
<1>4. S[n] <= n * w
  BY <1>1, <1>3
<1> QED BY <1>4 DEF SumOf, S

\* The child that absorbs rounding is there, and none is larger.
LEMMA LargestIs ==
  ASSUME NEW A \in Seq(Kid), Len(A) >= 1
  PROVE  Largest(A) \in 1..Len(A) /\ \A j \in 1..Len(A) : A[j].weight <= A[Largest(A)].weight
<1> DEFINE n == Len(A)
           Top(i) == \A j \in 1..n : A[j].weight > A[i].weight => FALSE
           Tops == {i \in 1..n : Top(i)}
           Bounds == {w \in Nat : \A j \in 1..n : A[j].weight <= w}
<1>1. n \in Nat /\ DOMAIN A = 1..n /\ \A i \in 1..n : A[i].weight \in Nat
  BY KidsOf
<1>2. PICK w \in Bounds : \A v \in Bounds : w <= v
  <2>1. PrefixSums(A)[n] \in Nat
    BY <1>1, PrefixSumsAre
  <2>2. Bounds # {}
    <3> DEFINE S == PrefixSums(A) Bad == {k \in 0..n : ~(\A j \in 1..k : A[j].weight <= S[k])}
    <3>1. /\ S[0] = 0 /\ \A k \in 1..n : S[k] = S[k - 1] + A[k].weight
          /\ \A k \in 0..n : S[k] \in Nat
      BY PrefixSumsAre DEF Sums
    <3> HIDE DEF S
    <3>2. Bad = {}
      <4> SUFFICES ASSUME Bad # {} PROVE FALSE
        OBVIOUS
      <4>1. PICK m \in Bad : \A k \in Bad : m <= k
        <5>1. Bad \subseteq Nat
          BY <1>1
        <5> HIDE DEF Bad
        <5> QED BY <5>1, LeastOf
      <4>2. m # 0
        BY <4>1
      <4>3. m \in 1..n /\ m - 1 \in 0..n /\ m - 1 \in Nat /\ ~(m <= m - 1)
        BY <1>1, <4>1, <4>2
      <4>4. S[m - 1] \in Nat /\ \A j \in 1..(m - 1) : A[j].weight <= S[m - 1]
        BY <3>1, <4>1, <4>3
      <4>5. S[m] = S[m - 1] + A[m].weight /\ A[m].weight \in Nat
        BY <1>1, <3>1, <4>3
      <4>6. ASSUME NEW j \in 1..m PROVE A[j].weight <= S[m]
        <5>1. A[j].weight \in Nat
          BY <1>1, <4>3
        <5>2. CASE j = m
          BY <4>4, <4>5, <5>2
        <5>3. CASE j # m
          <6>1. j \in 1..(m - 1)
            BY <4>3, <5>3
          <6> QED BY <4>4, <4>5, <5>1, <6>1
        <5> QED BY <5>2, <5>3
      <4> QED BY <4>1, <4>6
    <3>3. S[n] \in Bounds
      BY <1>1, <3>1, <3>2
    <3> QED BY <3>3
  <2>3. Bounds \subseteq Nat
    OBVIOUS
  <2> HIDE DEF Bounds
  <2> QED BY <2>2, <2>3, LeastOf
<1>3. Tops # {}
  <2>1. PICK i \in 1..n : A[i].weight >= w
    <3> SUFFICES ASSUME \A i \in 1..n : ~(A[i].weight >= w) PROVE FALSE
      OBVIOUS
    <3>1. 1 \in 1..n
      BY <1>1
    <3>2. w \in Nat /\ A[1].weight \in Nat /\ ~(A[1].weight >= w)
      BY <1>1, <3>1
    <3>3. w - 1 \in Nat /\ ~(w <= w - 1)
      BY <3>2
    <3>4. \A j \in 1..n : A[j].weight <= w - 1
      BY <1>1, <3>2
    <3> QED BY <1>2, <3>3, <3>4
  <2>2. \A j \in 1..n : ~(A[j].weight > A[i].weight)
    BY <1>1, <1>2, <2>1
  <2> QED BY <2>2
<1>4. PICK i \in Tops : \A j \in Tops : i <= j
  <2>1. Tops \subseteq Nat
    OBVIOUS
  <2> HIDE DEF Tops
  <2> QED BY <1>3, <2>1, LeastOf
<1> DEFINE First(k) == \A j \in 1..n : \/ A[k].weight > A[j].weight
                                       \/ A[k].weight = A[j].weight /\ k <= j
<1>5. First(i)
  <2> SUFFICES ASSUME NEW j \in 1..n
               PROVE  A[i].weight > A[j].weight \/ (A[i].weight = A[j].weight /\ i <= j)
    OBVIOUS
  <2>1. i \in 1..n /\ A[i].weight \in Nat /\ A[j].weight \in Nat /\ ~(A[j].weight > A[i].weight)
    BY <1>1, <1>4
  <2>2. CASE A[i].weight = A[j].weight
    <3>1. j \in Tops
      BY <1>4, <2>2
    <3> QED BY <1>4, <2>2, <3>1
  <2>3. CASE A[i].weight # A[j].weight
    BY <2>1, <2>3
  <2> QED BY <2>2, <2>3
<1>6. Largest(A) = CHOOSE k \in 1..n : First(k)
  BY <1>1 DEF Largest
<1> HIDE DEF First
<1>7. Largest(A) \in 1..n /\ First(Largest(A))
  BY <1>4, <1>5, <1>6
<1>8. ASSUME NEW j \in 1..n PROVE A[j].weight <= A[Largest(A)].weight
  <2>1. A[j].weight \in Nat /\ A[Largest(A)].weight \in Nat
    BY <1>1, <1>7
  <2> QED BY <1>7, <2>1 DEF First
<1> QED BY <1>7, <1>8

Full(A) ==
    /\ Len(A) \in 2..MaxSplitChildren /\ SumOf(A) = SplitTotal
    /\ \A i \in 1..Len(A) : A[i].weight >= 1

Reweighed(A, i, w) == [A EXCEPT ![i].weight = w]

\* One other weight: the nodes stay, and the sum changes by as much.
LEMMA ReweighedIs ==
  ASSUME NEW A \in Seq(Kid), NEW i \in 1..Len(A), NEW w \in Nat
  PROVE  LET Z == Reweighed(A, i, w)
         IN /\ Z \in Seq(Kid) /\ Len(Z) = Len(A)
            /\ \A k \in 1..Len(A) :
                 Z[k].node = A[k].node /\ Z[k].weight = IF k = i THEN w ELSE A[k].weight
            /\ SumOf(Z) = SumOf(A) - A[i].weight + w
<1> DEFINE n == Len(A) e == [A[i] EXCEPT !.weight = w] Z == [A EXCEPT ![i] = e] S == PrefixSums(A)
           f == [k \in 0..n |-> IF k < i THEN S[k] ELSE S[k] - A[i].weight + w]
<1>1. n \in Nat /\ DOMAIN A = 1..n /\ i \in 1..n /\ \A k \in 1..n : A[k] \in Kid /\ A[k].weight \in Nat
  BY KidsOf
<1>2. e \in Kid /\ e.weight = w /\ e.node = A[i].node
  BY <1>1 DEF Kid
<1>3. Z = Reweighed(A, i, w)
  BY DEF Reweighed
<1> HIDE DEF e
<1>4. Z \in Seq(Kid) /\ Len(Z) = n /\ \A k \in 1..n : Z[k] = IF k = i THEN e ELSE A[k]
  BY <1>1, <1>2, ExceptSeq
<1> HIDE DEF Z
<1>5. /\ S[0] = 0 /\ \A k \in 1..n : S[k] = S[k - 1] + A[k].weight
      /\ \A k \in 0..n : S[k] \in Nat
  BY PrefixSumsAre DEF Sums
<1>6. SumOf(A) = S[n]
  BY DEF SumOf
<1> HIDE DEF S, n
<1>7. ASSUME NEW k \in 1..n
      PROVE  Z[k].node = A[k].node /\ Z[k].weight = IF k = i THEN w ELSE A[k].weight
  BY <1>2, <1>4
<1>8. Sums(f, Z)
  <2>1. f \in [0..n -> Int]
    BY <1>1, <1>5
  <2>2. f[0] = 0
    BY <1>1, <1>5
  <2>3. ASSUME NEW k \in 1..n PROVE f[k] = f[k - 1] + Z[k].weight
    <3>1. k \in 0..n /\ k - 1 \in 0..n
      BY <1>1
    <3>2. S[k] = S[k - 1] + A[k].weight /\ S[k] \in Nat /\ S[k - 1] \in Nat
          /\ A[k].weight \in Nat /\ A[i].weight \in Nat
      BY <1>1, <1>5, <3>1
    <3>3. CASE k < i
      BY <1>1, <1>7, <3>1, <3>2, <3>3
    <3>4. CASE k = i
      <4>1. f[k] = S[k] - A[i].weight + w /\ f[k - 1] = S[k - 1] /\ Z[k].weight = w
        BY <1>1, <1>7, <3>1, <3>4
      <4> QED BY <3>2, <3>4, <4>1
    <3>5. CASE k > i
      <4>1. f[k] = S[k] - A[i].weight + w /\ f[k - 1] = S[k - 1] - A[i].weight + w
            /\ Z[k].weight = A[k].weight
        BY <1>1, <1>7, <3>1, <3>5
      <4> QED BY <3>2, <4>1
    <3> QED BY <1>1, <3>3, <3>4, <3>5
  <2> HIDE DEF f
  <2> QED BY <1>4, <2>1, <2>2, <2>3 DEF Sums
<1>9. f[n] = S[n] - A[i].weight + w
  BY <1>1
<1> HIDE DEF f
<1>10. SumOf(Z) = SumOf(A) - A[i].weight + w
  BY <1>4, <1>6, <1>8, <1>9, SumIs
<1> QED BY <1>3, <1>4, <1>7, <1>10 DEF n

\* A removed child takes its weight from the sum.
LEMMA RemovedSum ==
  ASSUME NEW A \in Seq(Kid), NEW i \in 1..Len(A)
  PROVE  SumOf(RemoveAt(A, i)) = SumOf(A) - A[i].weight
<1> DEFINE n == Len(A) Z == RemoveAt(A, i) S == PrefixSums(A)
           f == [k \in 0..(n - 1) |-> IF k < i THEN S[k] ELSE S[k + 1] - A[i].weight]
<1>1. n \in Nat /\ i \in 1..n /\ \A k \in 1..n : A[k].weight \in Nat
  BY KidsOf
<1>2. Z \in Seq(Kid) /\ Len(Z) = n - 1 /\ \A k \in 1..(n - 1) : Z[k] = IF k < i THEN A[k] ELSE A[k + 1]
  <2> HIDE DEF Z
  <2> QED BY RemovedIs DEF Z
<1>3. /\ S[0] = 0 /\ \A k \in 1..n : S[k] = S[k - 1] + A[k].weight
      /\ \A k \in 0..n : S[k] \in Nat
  BY PrefixSumsAre DEF Sums
<1>4. SumOf(A) = S[n]
  BY DEF SumOf
<1> HIDE DEF S, n, Z
<1>5. Sums(f, Z)
  <2>1. f \in [0..(n - 1) -> Int]
    <3>1. ASSUME NEW k \in 0..(n - 1)
          PROVE  S[k] \in Int /\ S[k + 1] \in Int /\ A[i].weight \in Int
      <4>1. k \in 0..n /\ k + 1 \in 0..n
        BY <1>1
      <4> QED BY <1>1, <1>3, <4>1
    <3> HIDE DEF f
    <3>2. ASSUME NEW k \in 0..(n - 1) PROVE (IF k < i THEN S[k] ELSE S[k + 1] - A[i].weight) \in Int
      BY <3>1
    <3> QED BY <3>2 DEF f
  <2>2. f[0] = 0
    BY <1>1, <1>3
  <2>3. ASSUME NEW k \in 1..(n - 1) PROVE f[k] = f[k - 1] + Z[k].weight
    <3>1. k \in 0..(n - 1) /\ k - 1 \in 0..(n - 1) /\ k \in 1..n /\ k + 1 \in 1..n /\ k - 1 \in 0..n
          /\ k \in 0..n /\ k + 1 \in 0..n /\ (k + 1) - 1 = k /\ (k - 1) + 1 = k
      BY <1>1
    <3>2. /\ S[k] = S[k - 1] + A[k].weight /\ S[k + 1] = S[k] + A[k + 1].weight
          /\ S[k] \in Nat /\ S[k - 1] \in Nat /\ S[k + 1] \in Nat
          /\ A[k].weight \in Nat /\ A[i].weight \in Nat /\ A[k + 1].weight \in Nat
      BY <1>1, <1>3, <3>1
    <3>3. CASE k < i
      <4>1. f[k] = S[k] /\ f[k - 1] = S[k - 1] /\ Z[k] = A[k]
        BY <1>1, <1>2, <3>1, <3>3
      <4> QED BY <3>2, <4>1
    <3>4. CASE k = i
      <4>1. f[k] = S[k + 1] - A[i].weight /\ f[k - 1] = S[k - 1] /\ Z[k] = A[k + 1]
        BY <1>1, <1>2, <3>1, <3>4
      <4> QED BY <3>2, <3>4, <4>1
    <3>5. CASE k > i
      <4>1. f[k] = S[k + 1] - A[i].weight /\ f[k - 1] = S[k] - A[i].weight /\ Z[k] = A[k + 1]
        BY <1>1, <1>2, <3>1, <3>5
      <4>2. Z[k].weight = A[k + 1].weight
        BY <4>1
      <4> HIDE DEF f
      <4>3. f[k] = S[k + 1] - A[i].weight /\ f[k - 1] = S[k] - A[i].weight
        BY <4>1
      <4> QED BY <3>2, <4>2, <4>3
    <3> QED BY <1>1, <3>3, <3>4, <3>5
  <2> HIDE DEF f
  <2> QED BY <1>2, <2>1, <2>2, <2>3 DEF Sums
<1>6. f[n - 1] = S[n] - A[i].weight
  <2>1. n - 1 \in 0..(n - 1) /\ (n - 1) + 1 = n /\ i \in Nat
    BY <1>1
  <2>2. CASE n - 1 < i
    <3>1. i = n /\ (n - 1) \in 0..n /\ n \in 1..n /\ n \in 0..n
      BY <1>1, <2>2
    <3>2. S[n] = S[n - 1] + A[n].weight /\ S[n - 1] \in Nat /\ A[n].weight \in Nat
      BY <1>1, <1>3, <3>1
    <3>3. f[n - 1] = S[n - 1]
      BY <2>1, <2>2
    <3> QED BY <3>1, <3>2, <3>3
  <2>3. CASE ~(n - 1 < i)
    BY <2>1, <2>3
  <2> QED BY <2>2, <2>3
<1> HIDE DEF f
<1> QED BY <1>2, <1>4, <1>5, <1>6, SumIs DEF Z

\* An inserted child adds its weight to the sum.
LEMMA InsertedSum ==
  ASSUME NEW A \in Seq(Kid), NEW at \in 1..(Len(A) + 1), NEW x \in Kid
  PROVE  SumOf(InsertAt(A, at, x)) = SumOf(A) + x.weight
<1> DEFINE n == Len(A) Z == InsertAt(A, at, x) S == PrefixSums(A)
           f == [k \in 0..(n + 1) |-> IF k < at THEN S[k] ELSE S[k - 1] + x.weight]
<1>1. n \in Nat /\ at \in 1..(n + 1) /\ x.weight \in Nat /\ \A k \in 1..n : A[k].weight \in Nat
  BY KidsOf DEF Kid
<1>2. Z \in Seq(Kid) /\ Len(Z) = n + 1
      /\ \A k \in 1..(n + 1) : Z[k] = IF k < at THEN A[k] ELSE IF k = at THEN x ELSE A[k - 1]
  <2> HIDE DEF Z
  <2> QED BY InsertedIs DEF Z
<1>3. /\ S[0] = 0 /\ \A k \in 1..n : S[k] = S[k - 1] + A[k].weight
      /\ \A k \in 0..n : S[k] \in Nat
  BY PrefixSumsAre DEF Sums
<1>4. SumOf(A) = S[n]
  BY DEF SumOf
<1> HIDE DEF S, n, Z
<1>5. Sums(f, Z)
  <2>1. f \in [0..(n + 1) -> Int]
    <3>1. ASSUME NEW k \in 0..(n + 1) PROVE (IF k < at THEN S[k] ELSE S[k - 1] + x.weight) \in Int
      <4>1. CASE k < at
        <5>1. k \in 0..n
          BY <1>1, <4>1
        <5> QED BY <1>3, <4>1, <5>1
      <4>2. CASE ~(k < at)
        <5>1. k - 1 \in 0..n
          BY <1>1, <4>2
        <5> QED BY <1>1, <1>3, <4>2, <5>1
      <4> QED BY <4>1, <4>2
    <3> QED BY <3>1
  <2>2. f[0] = 0
    BY <1>1, <1>3
  <2>3. ASSUME NEW k \in 1..(n + 1) PROVE f[k] = f[k - 1] + Z[k].weight
    <3>1. k \in 0..(n + 1) /\ k - 1 \in 0..(n + 1) /\ k - 1 \in 0..n
      BY <1>1
    <3>3. CASE k < at
      <4>1. f[k] = S[k] /\ f[k - 1] = S[k - 1] /\ Z[k] = A[k] /\ k \in 1..n
        BY <1>1, <1>2, <3>1, <3>3
      <4> QED BY <1>3, <4>1
    <3>4. CASE k = at
      <4>1. f[k] = S[k - 1] + x.weight /\ f[k - 1] = S[k - 1] /\ Z[k] = x
        BY <1>1, <1>2, <3>1, <3>4
      <4> QED BY <4>1
    <3>5. CASE k > at
      <4>1. f[k] = S[k - 1] + x.weight /\ f[k - 1] = S[(k - 1) - 1] + x.weight /\ Z[k] = A[k - 1]
            /\ k - 1 \in 1..n /\ (k - 1) - 1 \in 0..n
        BY <1>1, <1>2, <3>1, <3>5
      <4>2. S[k - 1] = S[(k - 1) - 1] + A[k - 1].weight /\ S[(k - 1) - 1] \in Nat /\ A[k - 1].weight \in Nat
        BY <1>1, <1>3, <4>1
      <4> QED BY <1>1, <4>1, <4>2
    <3> QED BY <1>1, <3>3, <3>4, <3>5
  <2> HIDE DEF f
  <2> QED BY <1>2, <2>1, <2>2, <2>3 DEF Sums
<1>6. f[n + 1] = S[n] + x.weight
  <2>1. n + 1 \in 0..(n + 1) /\ (n + 1) - 1 = n /\ ~(n + 1 < at)
    <3>1. n \in Nat /\ at \in 1..(n + 1)
      BY <1>1
    <3> HIDE DEF f
    <3> QED BY <3>1
  <2> QED BY <2>1
<1> HIDE DEF f
<1> QED BY <1>2, <1>4, <1>5, <1>6, SumIs DEF Z

\* A child's weight gives way to the sum of the children in its place.
LEMMA SplicedSum ==
  ASSUME NEW A \in Seq(Kid), NEW i \in 1..Len(A), NEW B \in Seq(Kid)
  PROVE  SumOf(Spliced(A, i, B)) = SumOf(A) - A[i].weight + SumOf(B)
<1> DEFINE n == Len(A) b == Len(B) Z == Spliced(A, i, B) S == PrefixSums(A) T == PrefixSums(B)
           m == n + b - 1 w == A[i].weight
           g(k) == IF k < i THEN S[k]
                   ELSE IF k < i + b THEN S[i - 1] + T[k - i + 1] ELSE S[k - b + 1] - w + T[b]
           f == [k \in 0..m |-> g(k)]
<1>1. n \in Nat /\ b \in Nat /\ i \in 1..n /\ w \in Nat
      /\ (\A k \in 1..n : A[k].weight \in Nat) /\ \A k \in 1..b : B[k].weight \in Nat
  BY KidsOf
<1>2. Z \in Seq(Kid) /\ Len(Z) = m
      /\ \A k \in 1..m : Z[k] = IF k < i THEN A[k]
                                ELSE IF k < i + b THEN B[k - i + 1] ELSE A[k - b + 1]
  <2>1. /\ Z \in Seq(Kid) /\ Len(Z) = Len(A) + Len(B) - 1
        /\ \A k \in 1..Len(Z) :
             Z[k] = IF k < i THEN A[k]
                    ELSE IF k < i + Len(B) THEN B[k - i + 1] ELSE A[k - Len(B) + 1]
    <3> HIDE DEF Z
    <3> QED BY SplicedIs, Zenon DEF Z
  <2> HIDE DEF Z
  <2> QED BY <2>1
<1>3. /\ S[0] = 0 /\ \A k \in 1..n : S[k] = S[k - 1] + A[k].weight
      /\ T[0] = 0 /\ \A k \in 1..b : T[k] = T[k - 1] + B[k].weight
      /\ (\A k \in 0..n : S[k] \in Nat) /\ \A k \in 0..b : T[k] \in Nat
  BY PrefixSumsAre DEF Sums
<1>4. SumOf(A) = S[n] /\ SumOf(B) = T[b]
  BY DEF SumOf
<1>o. S[i] = S[i - 1] + w /\ S[i] \in Nat /\ S[i - 1] \in Nat /\ T[b] \in Nat
  <2>1. i \in 0..n /\ i - 1 \in 0..n /\ b \in 0..b
    BY <1>1
  <2> QED BY <1>1, <1>3, <2>1
<1>m. m \in Nat /\ m = n + b - 1
  BY <1>1
<1> HIDE DEF S, T, n, b, Z, m, w
<1>g. ASSUME NEW k \in 0..m
      PROVE  /\ k < i => k \in 0..n
             /\ ~(k < i) /\ k < i + b => k - i + 1 \in 1..b /\ k - i + 1 \in 0..b /\ k - i \in 0..b
             /\ ~(k < i) /\ ~(k < i + b) => k - b + 1 \in 0..n /\ k - b \in 0..n
  BY <1>1, <1>m
<1>5. Sums(f, Z)
  <2>1. f \in [0..m -> Int]
    <3>1. ASSUME NEW k \in 0..m PROVE g(k) \in Int
      <4>1. CASE k < i
        BY <1>3, <1>g, <4>1
      <4>2. CASE ~(k < i) /\ k < i + b
        BY <1>3, <1>o, <1>g, <4>2
      <4>3. CASE ~(k < i) /\ ~(k < i + b)
        BY <1>1, <1>3, <1>o, <1>g, <4>3
      <4> QED BY <4>1, <4>2, <4>3
    <3> HIDE DEF g
    <3> QED BY <3>1
  <2>2. f[0] = 0
    <3>1. 0 \in 0..m /\ 0 < i
      BY <1>1, <1>m
    <3> QED BY <1>3, <3>1
  <2>3. ASSUME NEW k \in 1..m PROVE f[k] = f[k - 1] + Z[k].weight
    <3>1. k \in 0..m /\ k - 1 \in 0..m /\ k \in Nat /\ i \in Nat
      BY <1>1, <1>m
    <3>f. f[k] = g(k) /\ f[k - 1] = g(k - 1)
      BY <3>1
    <3> HIDE DEF f
    <3>2. CASE k < i
      <4>1. k - 1 < i /\ k \in 1..n /\ Z[k] = A[k]
        BY <1>1, <1>2, <3>1, <3>2
      <4>2. g(k) = S[k] /\ g(k - 1) = S[k - 1]
        BY <3>2, <4>1
      <4> QED BY <1>3, <3>f, <4>1, <4>2
    <3>3. CASE ~(k < i) /\ k < i + b
      <4>1. Z[k] = B[k - i + 1] /\ k - i + 1 \in 1..b /\ k - i \in 0..b
        BY <1>2, <1>g, <3>1, <3>3
      <4>2. g(k) = S[i - 1] + T[k - i + 1]
        BY <3>3
      <4>3. T[k - i + 1] = T[(k - i + 1) - 1] + B[k - i + 1].weight
        BY <1>3, <4>1
      <4>4. (k - i + 1) - 1 = k - i
        BY <3>1
      <4>5. g(k - 1) = S[i - 1] + T[k - i]
        <5>1. CASE k = i
          <6>1. k - 1 < i /\ k - i = 0 /\ k - 1 = i - 1
            BY <3>1, <5>1
          <6>2. g(k - 1) = S[k - 1]
            BY <6>1
          <6> QED BY <1>3, <1>o, <6>1, <6>2
        <5>2. CASE k # i
          <6>1. ~(k - 1 < i) /\ k - 1 < i + b /\ (k - 1) - i + 1 = k - i
            BY <1>1, <3>1, <3>3, <5>2
          <6> QED BY <6>1
        <5> QED BY <5>1, <5>2
      <4>6. T[k - i] \in Nat /\ B[k - i + 1].weight \in Nat
        BY <1>1, <1>3, <4>1
      <4> HIDE DEF g
      <4> QED BY <1>o, <3>f, <4>1, <4>2, <4>3, <4>4, <4>5, <4>6
    <3>4. CASE ~(k < i) /\ ~(k < i + b)
      <4>1. Z[k] = A[k - b + 1] /\ k - b + 1 \in 1..n /\ k - b \in 0..n /\ (k - b + 1) - 1 = k - b
        BY <1>1, <1>2, <1>m, <3>1, <3>4
      <4>2. g(k) = S[k - b + 1] - w + T[b]
        BY <3>4
      <4>3. S[k - b + 1] = S[k - b] + A[k - b + 1].weight
        BY <1>3, <4>1
      <4>4. S[k - b] \in Nat /\ A[k - b + 1].weight \in Nat
        BY <1>1, <1>3, <4>1
      <4>5. g(k - 1) = S[k - b] - w + T[b]
        <5>1. CASE k = i + b
          <6>1. k - b = i
            BY <1>1, <3>1, <5>1
          <6>2. CASE b = 0
            <7>1. k - 1 < i /\ k - 1 = i - 1
              BY <3>1, <5>1, <6>2
            <7>2. g(k - 1) = S[i - 1] /\ T[b] = 0
              BY <1>3, <6>2, <7>1
            <7>3. S[k - b] = S[i - 1] + w /\ w \in Nat /\ S[i - 1] \in Nat
              BY <1>1, <1>o, <6>1
            <7>4. S[k - b] - w + 0 = S[i - 1]
              BY <7>3
            <7> HIDE DEF g, f
            <7> QED BY <7>2, <7>4
          <6>3. CASE b # 0
            <7>1. ~(k - 1 < i) /\ k - 1 < i + b /\ (k - 1) - i + 1 = b
              BY <1>1, <3>1, <5>1, <6>3
            <7>2. g(k - 1) = S[i - 1] + T[b]
              BY <7>1
            <7>3. S[k - b] = S[i - 1] + w
              BY <1>o, <6>1
            <7>4. w \in Nat /\ T[b] \in Nat /\ S[i - 1] \in Nat
              BY <1>1, <1>o
            <7>5. S[k - b] - w + T[b] = S[i - 1] + T[b]
              BY <7>3, <7>4
            <7> HIDE DEF g, f
            <7> QED BY <7>2, <7>5
          <6> QED BY <6>2, <6>3
        <5>2. CASE k # i + b
          <6>1. ~(k - 1 < i) /\ ~(k - 1 < i + b) /\ (k - 1) - b + 1 = k - b
            BY <1>1, <3>1, <3>4, <5>2
          <6> QED BY <6>1
        <5> QED BY <5>1, <5>2
      <4> HIDE DEF g
      <4>6. Z[k].weight = A[k - b + 1].weight /\ S[k - b + 1] = S[k - b] + A[k - b + 1].weight
        BY <4>1, <4>3
      <4>7. w \in Nat /\ T[b] \in Nat
        BY <1>1, <1>o
      <4> QED BY <3>f, <4>2, <4>4, <4>5, <4>6, <4>7
    <3> QED BY <3>2, <3>3, <3>4
  <2> HIDE DEF f
  <2> QED BY <1>2, <2>1, <2>2, <2>3 DEF Sums
<1>6. f[m] = S[n] - w + T[b]
  <2>1. m \in 0..m
    BY <1>m
  <2>2. f[m] = g(m)
    BY <2>1
  <2>3. CASE m < i
    <3>1. m = n - 1 /\ i = n /\ b = 0 /\ m = i - 1
      BY <1>1, <1>m, <2>3
    <3>2. g(m) = S[i - 1] /\ T[b] = 0
      BY <1>3, <2>3, <3>1
    <3> HIDE DEF g, f
    <3> QED BY <1>1, <1>o, <2>2, <3>1, <3>2
  <2>4. CASE ~(m < i) /\ m < i + b
    <3>1. i = n /\ m - i + 1 = b
      BY <1>1, <1>m, <2>4
    <3>2. g(m) = S[i - 1] + T[b]
      BY <2>4, <3>1
    <3> HIDE DEF g, f
    <3> QED BY <1>1, <1>o, <2>2, <3>1, <3>2
  <2>5. CASE ~(m < i) /\ ~(m < i + b)
    <3>1. m - b + 1 = n
      BY <1>1, <1>m
    <3>2. g(m) = S[n] - w + T[b]
      BY <2>5, <3>1
    <3> HIDE DEF g, f
    <3> QED BY <2>2, <3>2
  <2> QED BY <2>3, <2>4, <2>5
<1> HIDE DEF f, g
<1>7. SumOf(Z) = S[n] - w + T[b]
  BY <1>2, <1>5, <1>6, SumIs
<1> QED BY <1>4, <1>7 DEF Z, w

(* The largest of the children of a full split can give what rounding added.  *)
LEMMA RebalancedIs ==
  ASSUME NEW A \in Seq(Kid), Len(A) \in 2..MaxSplitChildren,
         \A i \in 1..Len(A) : A[i].weight >= 1,
         SumOf(A) <= SplitTotal + (MaxSplitChildren - 1)
  PROVE  LET Z == Rebalanced(A)
         IN /\ Z \in Seq(Kid) /\ Len(Z) = Len(A) /\ Full(Z)
            /\ \A k \in 1..Len(A) : Z[k].node = A[k].node
<1> DEFINE n == Len(A) i == Largest(A) big == A[i].weight sum == SumOf(A)
           w == AtLeastOne(big + SplitTotal - sum) Z == [A EXCEPT ![i].weight = w]
           M == MaxSplitChildren
<1>1. n \in Nat /\ n >= 2 /\ n <= M /\ M \in Nat /\ SplitTotal \in Nat /\ SplitTotal >= M * M
  BY TotalIs, KidsOf
<1>2. i \in 1..n /\ \A j \in 1..n : A[j].weight <= big
  BY <1>1, LargestIs
<1>3. big \in Nat /\ sum \in Nat
  BY <1>2, KidsOf, SumIsNat
<1> HIDE DEF i, big, sum
<1>4. sum <= n * big
  BY <1>2, <1>3, BoundedSum DEF sum
<1>5. big + SplitTotal - sum >= 1 /\ big + SplitTotal - sum \in Nat
  <2>1. CASE sum <= SplitTotal
    <3>1. big >= 1
      BY <1>2 DEF big
    <3> QED BY <1>1, <1>3, <2>1, <3>1
  <2>2. CASE sum > SplitTotal
    <3> DEFINE nb == n * big nm == n * M mm == M * M
    <3>1. big >= M
      <4> SUFFICES ASSUME ~(big >= M) PROVE FALSE
        OBVIOUS
      <4>1. big <= M
        BY <1>1, <1>3
      <4>2. nb <= nm /\ nm <= mm
        BY <1>1, <1>3, <4>1
      <4>3. nb \in Nat /\ nm \in Nat /\ mm \in Nat /\ sum <= nb /\ SplitTotal >= mm
        BY <1>1, <1>3, <1>4
      <4> HIDE DEF nb, nm, mm, n, M
      <4> QED BY <1>1, <1>3, <2>2, <4>2, <4>3
    <3>2. sum <= SplitTotal + (M - 1)
      BY DEF sum
    <3> HIDE DEF nb, nm, mm, n, M
    <3> QED BY <1>1, <1>3, <3>1, <3>2
  <2> QED BY <1>1, <1>3, <2>1, <2>2
<1>6. w \in Nat /\ w >= 1 /\ w = big + SplitTotal - sum
  <2> DEFINE v == big + SplitTotal - sum
  <2>1. v >= 1 /\ v \in Nat
    BY <1>5
  <2> HIDE DEF v
  <2>2. AtLeastOne(v) = v
    BY <2>1 DEF AtLeastOne
  <2> QED BY <2>1, <2>2 DEF v
<1>7. Rebalanced(A) = Z
  BY DEF Rebalanced, i, big, sum
<1> HIDE DEF w, n
<1>8. /\ Z \in Seq(Kid) /\ Len(Z) = n
      /\ \A k \in 1..n : Z[k].node = A[k].node /\ Z[k].weight = IF k = i THEN w ELSE A[k].weight
      /\ SumOf(Z) = sum - big + w
  <2>1. i \in 1..Len(A)
    BY <1>2 DEF n
  <2> HIDE DEF Z
  <2>2. /\ Z \in Seq(Kid) /\ Len(Z) = Len(A)
        /\ \A k \in 1..Len(A) : Z[k].node = A[k].node /\ Z[k].weight = IF k = i THEN w ELSE A[k].weight
        /\ SumOf(Z) = SumOf(A) - A[i].weight + w
    <3>1. Z = Reweighed(A, i, w)
      BY DEF Z, Reweighed
    <3> QED BY <1>6, <2>1, <3>1, ReweighedIs
  <2> QED BY <2>2 DEF n, sum, big
<1> HIDE DEF Z
<1>9. SumOf(Z) = SplitTotal
  BY <1>1, <1>3, <1>6, <1>8
<1>10. \A k \in 1..n : Z[k].weight >= 1
  BY <1>6, <1>8 DEF n
<1>11. Full(Z)
  BY <1>1, <1>8, <1>9, <1>10 DEF Full
<1> QED BY <1>7, <1>8, <1>11 DEF n

(* Z has the nodes of B in the place of the i-th node of A. *)
Joins(A, i, B, Z) ==
    /\ Z \in Seq(Kid) /\ Len(Z) = Len(A) + Len(B) - 1
    /\ \A k \in 1..Len(Z) :
         Z[k].node = IF k < i THEN A[k].node
                     ELSE IF k < i + Len(B) THEN B[k - i + 1].node ELSE A[k - Len(B) + 1].node

\* A flatten of one full split into another leaves a full split: the largest child has
\* the weight that rounding needs (normalize_child).
LEMMA FlattenFits ==
  ASSUME NEW A \in Seq(Kid), NEW B \in Seq(Kid), Full(A), Full(B), NEW i \in 1..Len(A),
         Len(A) + Len(B) - 1 <= MaxSplitChildren
  PROVE  LET Z == Rebalanced(Spliced(A, i, Scaled(B, A[i].weight)))
         IN Joins(A, i, B, Z) /\ Full(Z)
<1> DEFINE a == Len(A) b == Len(B) slot == A[i].weight C == Scaled(B, slot) Y == Spliced(A, i, C)
           Z == Rebalanced(Y)
<1>1. /\ a \in Nat /\ b \in Nat /\ i \in 1..a /\ a >= 2 /\ b >= 2 /\ a + b - 1 <= MaxSplitChildren
      /\ slot \in Nat /\ MaxSplitChildren \in Nat /\ SplitTotal \in Nat
      /\ SumOf(A) = SplitTotal /\ SumOf(B) = SplitTotal
      /\ \A k \in 1..a : A[k].weight >= 1
  BY KidsOf, TotalIs DEF Full
<1>2. C \in Seq(Kid) /\ Len(C) = b /\ \A k \in 1..b : C[k].node = B[k].node /\ C[k].weight >= 1
  BY <1>1, ScaledIs
<1>3. SumOf(C) <= slot + b /\ SumOf(C) \in Nat
  BY <1>1, <1>2, ScaledSum, SumIsNat
<1> HIDE DEF C, slot
<1>4. /\ Y \in Seq(Kid) /\ Len(Y) = a + b - 1
      /\ \A k \in 1..Len(Y) :
           Y[k] = IF k < i THEN A[k] ELSE IF k < i + b THEN C[k - i + 1] ELSE A[k - b + 1]
  <2>1. /\ Y \in Seq(Kid) /\ Len(Y) = a + Len(C) - 1
        /\ \A k \in 1..Len(Y) :
             Y[k] = IF k < i THEN A[k] ELSE IF k < i + Len(C) THEN C[k - i + 1] ELSE A[k - Len(C) + 1]
    <3> HIDE DEF Y
    <3> QED BY <1>2, SplicedIs DEF Y
  <2> HIDE DEF Y
  <2> QED BY <1>2, <2>1
<1>5. SumOf(Y) = SplitTotal - slot + SumOf(C)
  BY <1>1, <1>2, SplicedSum DEF slot
<1> HIDE DEF Y, a, b
<1>6. ASSUME NEW k \in 1..Len(Y)
      PROVE  /\ Y[k].weight >= 1
             /\ Y[k].node = IF k < i THEN A[k].node
                            ELSE IF k < i + b THEN B[k - i + 1].node ELSE A[k - b + 1].node
  <2>1. CASE k < i
    <3>1. k \in 1..a
      BY <1>1, <2>1
    <3> QED BY <1>1, <1>4, <2>1, <3>1
  <2>2. CASE ~(k < i) /\ k < i + b
    <3>1. k \in Nat /\ i \in Nat /\ b \in Nat
      BY <1>1, <1>4
    <3>2. k - i + 1 \in 1..b
      BY <2>2, <3>1
    <3> QED BY <1>2, <1>4, <2>2, <3>2
  <2>3. CASE ~(k < i) /\ ~(k < i + b)
    <3>1. k - b + 1 \in 1..a
      BY <1>1, <1>4, <2>3
    <3> QED BY <1>1, <1>4, <2>3, <3>1
  <2> QED BY <2>1, <2>2, <2>3
<1>7. /\ Z \in Seq(Kid) /\ Len(Z) = Len(Y) /\ Full(Z)
      /\ \A k \in 1..Len(Y) : Z[k].node = Y[k].node
  <2>1. Len(Y) \in 2..MaxSplitChildren
    BY <1>1, <1>4
  <2>2. SumOf(Y) <= SplitTotal + (MaxSplitChildren - 1)
    <3>1. SplitTotal - slot + SumOf(C) <= SplitTotal + b
      BY <1>1, <1>3
    <3> QED BY <1>1, <1>3, <1>5, <3>1
  <2>3. \A k \in 1..Len(Y) : Y[k].weight >= 1
    BY <1>6
  <2> HIDE DEF Z
  <2> QED BY <1>4, <2>1, <2>2, <2>3, RebalancedIs DEF Z
<1> HIDE DEF Z
<1>8. Joins(A, i, B, Z)
  BY <1>4, <1>6, <1>7 DEF Joins, a, b
<1> QED BY <1>7, <1>8 DEF Z, Y, C, slot

(* Z has the nodes of A but the i-th. *)
Drops(A, i, Z) ==
    /\ Z \in Seq(Kid) /\ Len(Z) = Len(A) - 1
    /\ \A k \in 1..Len(Z) : Z[k].node = IF k < i THEN A[k].node ELSE A[k + 1].node

\* The neighbour of a removed child has its weight, so that the sum stays
\* (remove_pane).
LEMMA WithoutIs ==
  ASSUME NEW A \in Seq(Kid), Len(A) >= 2, NEW i \in 1..Len(A)
  PROVE  LET Z == Without(A, i) R == RemoveAt(A, i)
         IN /\ Drops(A, i, Z) /\ SumOf(Z) = SumOf(A)
            /\ R \in Seq(Kid) /\ Len(R) = Len(A) - 1 /\ Heir(i) \in 1..Len(R)
            /\ \A k \in 1..Len(Z) : Z[k] = IF k = Heir(i) THEN [R[k] EXCEPT !.weight = @ + A[i].weight] ELSE R[k]
            /\ (\A k \in 1..Len(A) : A[k].weight >= 1) => \A k \in 1..Len(Z) : Z[k].weight >= 1
<1> DEFINE n == Len(A) R == RemoveAt(A, i) h == Heir(i) w == R[h].weight + A[i].weight
           Z == [R EXCEPT ![h].weight = w]
<1>1. n \in Nat /\ n >= 2 /\ i \in 1..n /\ A[i].weight \in Nat
  BY KidsOf
<1>2. /\ R \in Seq(Kid) /\ Len(R) = n - 1
      /\ \A k \in 1..(n - 1) : R[k] = IF k < i THEN A[k] ELSE A[k + 1]
  <2> HIDE DEF R
  <2> QED BY RemovedIs DEF R
<1>3. h \in 1..(n - 1)
  BY <1>1 DEF Heir
<1>4. SumOf(R) = SumOf(A) - A[i].weight
  BY RemovedSum
<1> HIDE DEF R, h, n
<1>5. R[h].weight \in Nat /\ w \in Nat /\ R[h] \in Kid
  BY <1>1, <1>2, <1>3, KidsOf
<1> HIDE DEF w
<1>6. /\ Z \in Seq(Kid) /\ Len(Z) = n - 1
      /\ \A k \in 1..(n - 1) : Z[k].node = R[k].node /\ Z[k].weight = IF k = h THEN w ELSE R[k].weight
      /\ SumOf(Z) = SumOf(R) - R[h].weight + w
  <2>1. h \in 1..Len(R)
    BY <1>2, <1>3
  <2> HIDE DEF Z
  <2>2. /\ Z \in Seq(Kid) /\ Len(Z) = Len(R)
        /\ \A k \in 1..Len(R) : Z[k].node = R[k].node /\ Z[k].weight = IF k = h THEN w ELSE R[k].weight
        /\ SumOf(Z) = SumOf(R) - R[h].weight + w
    <3>1. Z = Reweighed(R, h, w)
      BY DEF Z, Reweighed
    <3> QED BY <1>2, <1>5, <2>1, <3>1, ReweighedIs
  <2> QED BY <1>2, <2>2
<1>7. Without(A, i) = Z
  BY DEF Without, R, h, w
<1>8. SumOf(Z) = SumOf(A)
  <2>1. SumOf(A) \in Nat
    BY SumIsNat
  <2> HIDE DEF Z
  <2> QED BY <1>1, <1>4, <1>5, <1>6, <2>1 DEF w
<1>9. \A k \in 1..(n - 1) : Z[k] = IF k = h THEN [R[k] EXCEPT !.weight = @ + A[i].weight] ELSE R[k]
  <2>1. DOMAIN R = 1..(n - 1)
    BY <1>2, KidsOf
  <2> QED BY <1>3, <2>1 DEF w
<1> HIDE DEF Z
<1>10. ASSUME NEW k \in 1..(n - 1), \A j \in 1..n : A[j].weight >= 1
       PROVE  Z[k].weight >= 1
  <2>1. k \in 1..n /\ k + 1 \in 1..n /\ h \in 1..n /\ h + 1 \in 1..n
    BY <1>1, <1>3
  <2>2. R[k].weight >= 1 /\ R[h].weight >= 1
    BY <1>2, <1>3, <1>10, <2>1
  <2>3. w >= 1
    BY <1>1, <1>5, <2>2 DEF w
  <2> QED BY <1>6, <2>2, <2>3
<1>11. Drops(A, i, Z)
  <2>1. \A k \in 1..(n - 1) : Z[k].node = IF k < i THEN A[k].node ELSE A[k + 1].node
    BY <1>2, <1>6
  <2> QED BY <1>6, <2>1 DEF Drops, n
<1> QED BY <1>1, <1>2, <1>3, <1>6, <1>7, <1>8, <1>9, <1>10, <1>11 DEF n, R, h

-----------------------------------------------------------------------------
(* The nodes of an edited list.                                               *)

NodesOf(A) == {A[i].node : i \in 1..Len(A)}
Distinct(A) == \A i, j \in 1..Len(A) : A[i].node = A[j].node => i = j

\* The nodes of a list into which another was spliced.
LEMMA JoinsNodes ==
  ASSUME NEW A \in Seq(Kid), NEW B \in Seq(Kid), NEW i \in 1..Len(A), NEW Z, Joins(A, i, B, Z),
         Distinct(A)
  PROVE  NodesOf(Z) = (NodesOf(A) \ {A[i].node}) \cup NodesOf(B)
<1> DEFINE a == Len(A) b == Len(B)
<1>1. a \in Nat /\ b \in Nat /\ i \in 1..a /\ Len(Z) = a + b - 1
  BY KidsOf DEF Joins
<1>2. \A k \in 1..Len(Z) :
         Z[k].node = IF k < i THEN A[k].node
                     ELSE IF k < i + b THEN B[k - i + 1].node ELSE A[k - b + 1].node
  BY DEF Joins
<1>3. \A j, k \in 1..a : A[j].node = A[k].node => j = k
  BY DEF Distinct
<1> HIDE DEF a, b
<1>4. ASSUME NEW k \in 1..Len(Z)
      PROVE  \/ \E j \in 1..a : j # i /\ Z[k].node = A[j].node
             \/ \E j \in 1..b : Z[k].node = B[j].node
  <2>1. CASE k < i
    <3>1. k \in 1..a /\ k # i
      BY <1>1, <2>1
    <3> QED BY <1>2, <2>1, <3>1
  <2>2. CASE ~(k < i) /\ k < i + b
    <3>1. k - i + 1 \in 1..b
      BY <1>1, <2>2
    <3> QED BY <1>2, <2>2, <3>1
  <2>3. CASE ~(k < i) /\ ~(k < i + b)
    <3>1. k - b + 1 \in 1..a /\ k - b + 1 # i
      BY <1>1, <2>3
    <3> QED BY <1>2, <2>3, <3>1
  <2> QED BY <2>1, <2>2, <2>3
<1>5. ASSUME NEW j \in 1..a, j # i PROVE \E k \in 1..Len(Z) : Z[k].node = A[j].node
  <2>1. CASE j < i
    <3>1. j \in 1..Len(Z)
      BY <1>1, <2>1
    <3> QED BY <1>2, <2>1, <3>1
  <2>2. CASE j > i
    <3> DEFINE k == j + b - 1
    <3>1. k \in 1..Len(Z) /\ ~(k < i) /\ ~(k < i + b) /\ k - b + 1 = j
      BY <1>1, <2>2
    <3> QED BY <1>2, <3>1
  <2> QED BY <1>1, <1>5, <2>1, <2>2
<1>6. ASSUME NEW j \in 1..b PROVE \E k \in 1..Len(Z) : Z[k].node = B[j].node
  <2> DEFINE k == j + i - 1
  <2>1. k \in 1..Len(Z) /\ ~(k < i) /\ k < i + b /\ k - i + 1 = j
    BY <1>1
  <2> QED BY <1>2, <2>1
<1>7. ASSUME NEW x PROVE x \in NodesOf(Z) <=> (x \in NodesOf(A) /\ x # A[i].node) \/ x \in NodesOf(B)
  <2>1. x \in NodesOf(Z) <=> \E k \in 1..Len(Z) : x = Z[k].node
    BY DEF NodesOf
  <2>2. x \in NodesOf(A) <=> \E k \in 1..a : x = A[k].node
    BY DEF NodesOf, a
  <2>3. x \in NodesOf(B) <=> \E k \in 1..b : x = B[k].node
    BY DEF NodesOf, b
  <2>4. \A j \in 1..a : j # i <=> A[j].node # A[i].node
    BY <1>1, <1>3
  <2>5. ASSUME x \in NodesOf(Z) PROVE (x \in NodesOf(A) /\ x # A[i].node) \/ x \in NodesOf(B)
    BY <1>4, <2>1, <2>2, <2>3, <2>4, <2>5, Zenon
  <2>6. ASSUME x \in NodesOf(A), x # A[i].node PROVE x \in NodesOf(Z)
    BY <1>5, <2>1, <2>2, <2>4, <2>6, Zenon
  <2>7. ASSUME x \in NodesOf(B) PROVE x \in NodesOf(Z)
    BY <1>6, <2>1, <2>3, <2>7, Zenon
  <2> QED BY <2>5, <2>6, <2>7
<1> QED BY <1>7

\* No node is there twice after a splice of two lists that have none in common.
LEMMA JoinsDistinct ==
  ASSUME NEW A \in Seq(Kid), NEW B \in Seq(Kid), NEW i \in 1..Len(A), NEW Z, Joins(A, i, B, Z),
         Distinct(A), Distinct(B), \A j \in 1..Len(A) : j # i => A[j].node \notin NodesOf(B)
  PROVE  Distinct(Z)
<1> DEFINE a == Len(A) b == Len(B)
           In(k) == IF k < i THEN k ELSE IF k < i + b THEN 0 ELSE k - b + 1
<1>1. a \in Nat /\ b \in Nat /\ i \in 1..a /\ Len(Z) = a + b - 1
  BY KidsOf DEF Joins
<1>2. \A k \in 1..Len(Z) :
         Z[k].node = IF k < i THEN A[k].node
                     ELSE IF k < i + b THEN B[k - i + 1].node ELSE A[k - b + 1].node
  BY DEF Joins
<1>3. /\ \A j, k \in 1..a : A[j].node = A[k].node => j = k
      /\ \A j, k \in 1..b : B[j].node = B[k].node => j = k
      /\ \A j \in 1..a, k \in 1..b : j # i => A[j].node # B[k].node
  BY DEF Distinct, NodesOf
<1> HIDE DEF a, b
<1>4. ASSUME NEW k \in 1..Len(Z)
      PROVE  \/ k < i /\ k \in 1..a /\ Z[k].node = A[k].node /\ k # i
             \/ ~(k < i) /\ k < i + b /\ k - i + 1 \in 1..b /\ Z[k].node = B[k - i + 1].node
             \/ ~(k < i) /\ ~(k < i + b) /\ k - b + 1 \in 1..a /\ Z[k].node = A[k - b + 1].node /\ k - b + 1 > i
  <2>1. CASE k < i
    <3>1. k \in 1..a /\ k # i
      BY <1>1, <2>1
    <3> QED BY <1>2, <2>1, <3>1
  <2>2. CASE ~(k < i) /\ k < i + b
    <3>1. k - i + 1 \in 1..b
      BY <1>1, <2>2
    <3> QED BY <1>2, <2>2, <3>1
  <2>3. CASE ~(k < i) /\ ~(k < i + b)
    <3>1. k - b + 1 \in 1..a /\ k - b + 1 > i
      BY <1>1, <2>3
    <3> QED BY <1>2, <2>3, <3>1
  <2> QED BY <2>1, <2>2, <2>3
<1>5. ASSUME NEW j \in 1..Len(Z), NEW k \in 1..Len(Z), Z[j].node = Z[k].node PROVE j = k
  <2>0. j \in Nat /\ k \in Nat /\ i \in Nat /\ b \in Nat
    BY <1>1
  <2>1. CASE j < i
    <3>1. j \in 1..a /\ Z[j].node = A[j].node /\ j # i
      BY <1>4, <2>1
    <3>2. CASE k < i
      BY <1>3, <1>4, <1>5, <3>1, <3>2
    <3>3. CASE ~(k < i) /\ k < i + b
      <4>1. k - i + 1 \in 1..b /\ Z[k].node = B[k - i + 1].node
        BY <1>4, <3>3
      <4> QED BY <1>3, <1>5, <3>1, <4>1
    <3>4. CASE ~(k < i) /\ ~(k < i + b)
      <4>1. k - b + 1 \in 1..a /\ Z[k].node = A[k - b + 1].node /\ k - b + 1 > i
        BY <1>4, <3>4
      <4>2. j = k - b + 1
        BY <1>3, <1>5, <3>1, <4>1
      <4> QED BY <2>0, <2>1, <4>1, <4>2
    <3> QED BY <3>2, <3>3, <3>4
  <2>2. CASE ~(j < i) /\ j < i + b
    <3>1. j - i + 1 \in 1..b /\ Z[j].node = B[j - i + 1].node
      BY <1>4, <2>2
    <3>2. CASE k < i
      <4>1. k \in 1..a /\ Z[k].node = A[k].node /\ k # i
        BY <1>4, <3>2
      <4> QED BY <1>3, <1>5, <3>1, <4>1
    <3>3. CASE ~(k < i) /\ k < i + b
      <4>1. k - i + 1 \in 1..b /\ Z[k].node = B[k - i + 1].node
        BY <1>4, <3>3
      <4>2. j - i + 1 = k - i + 1
        BY <1>3, <1>5, <3>1, <4>1
      <4> QED BY <2>0, <4>2
    <3>4. CASE ~(k < i) /\ ~(k < i + b)
      <4>1. k - b + 1 \in 1..a /\ Z[k].node = A[k - b + 1].node /\ k - b + 1 # i
        BY <1>4, <2>0, <3>4
      <4> QED BY <1>3, <1>5, <3>1, <4>1
    <3> QED BY <3>2, <3>3, <3>4
  <2>3. CASE ~(j < i) /\ ~(j < i + b)
    <3>1. j - b + 1 \in 1..a /\ Z[j].node = A[j - b + 1].node /\ j - b + 1 > i /\ j - b + 1 # i
      BY <1>4, <2>0, <2>3
    <3>2. CASE k < i
      <4>1. k \in 1..a /\ Z[k].node = A[k].node
        BY <1>4, <3>2
      <4>2. k = j - b + 1
        BY <1>3, <1>5, <3>1, <4>1
      <4> QED BY <2>0, <3>1, <3>2, <4>2
    <3>3. CASE ~(k < i) /\ k < i + b
      <4>1. k - i + 1 \in 1..b /\ Z[k].node = B[k - i + 1].node
        BY <1>4, <3>3
      <4> QED BY <1>3, <1>5, <3>1, <4>1
    <3>4. CASE ~(k < i) /\ ~(k < i + b)
      <4>1. k - b + 1 \in 1..a /\ Z[k].node = A[k - b + 1].node
        BY <1>4, <3>4
      <4>2. j - b + 1 = k - b + 1
        BY <1>3, <1>5, <3>1, <4>1
      <4> QED BY <2>0, <4>2
    <3> QED BY <3>2, <3>3, <3>4
  <2> QED BY <2>1, <2>2, <2>3
<1> QED BY <1>5 DEF Distinct

\* The nodes of a list without one of them.
LEMMA DropsNodes ==
  ASSUME NEW A \in Seq(Kid), NEW i \in 1..Len(A), NEW Z, Drops(A, i, Z), Distinct(A)
  PROVE  NodesOf(Z) = NodesOf(A) \ {A[i].node} /\ Distinct(Z)
<1> DEFINE a == Len(A)
<1>1. a \in Nat /\ i \in 1..a /\ Len(Z) = a - 1
  BY KidsOf DEF Drops
<1>2. \A k \in 1..Len(Z) : Z[k].node = IF k < i THEN A[k].node ELSE A[k + 1].node
  BY DEF Drops
<1>3. \A j, k \in 1..a : A[j].node = A[k].node => j = k
  BY DEF Distinct
<1> HIDE DEF a
<1>4. ASSUME NEW k \in 1..Len(Z)
      PROVE  \/ k < i /\ k \in 1..a /\ Z[k].node = A[k].node /\ k # i
             \/ ~(k < i) /\ k + 1 \in 1..a /\ Z[k].node = A[k + 1].node /\ k + 1 > i /\ k + 1 # i
  <2>1. CASE k < i
    <3>1. k \in 1..a /\ k # i
      BY <1>1, <2>1
    <3> QED BY <1>2, <2>1, <3>1
  <2>2. CASE ~(k < i)
    <3>1. k + 1 \in 1..a /\ k + 1 > i /\ k + 1 # i
      BY <1>1, <2>2
    <3> QED BY <1>2, <2>2, <3>1
  <2> QED BY <2>1, <2>2
<1>5. ASSUME NEW j \in 1..a, j # i PROVE \E k \in 1..Len(Z) : Z[k].node = A[j].node
  <2>1. CASE j < i
    <3>1. j \in 1..Len(Z)
      BY <1>1, <2>1
    <3> QED BY <1>2, <2>1, <3>1
  <2>2. CASE j > i
    <3>1. j - 1 \in 1..Len(Z) /\ ~(j - 1 < i) /\ (j - 1) + 1 = j
      BY <1>1, <2>2
    <3> QED BY <1>2, <3>1
  <2> QED BY <1>1, <1>5, <2>1, <2>2
<1>6. ASSUME NEW x PROVE x \in NodesOf(Z) <=> x \in NodesOf(A) /\ x # A[i].node
  <2>1. x \in NodesOf(Z) <=> \E k \in 1..Len(Z) : x = Z[k].node
    BY DEF NodesOf
  <2>2. x \in NodesOf(A) <=> \E k \in 1..a : x = A[k].node
    BY DEF NodesOf, a
  <2>4. \A j \in 1..a : j # i <=> A[j].node # A[i].node
    BY <1>1, <1>3
  <2>5. ASSUME x \in NodesOf(Z) PROVE x \in NodesOf(A) /\ x # A[i].node
    BY <1>4, <2>1, <2>2, <2>4, <2>5, Zenon
  <2>6. ASSUME x \in NodesOf(A), x # A[i].node PROVE x \in NodesOf(Z)
    BY <1>5, <2>1, <2>2, <2>4, <2>6, Zenon
  <2> QED BY <2>5, <2>6
<1>7. ASSUME NEW j \in 1..Len(Z), NEW k \in 1..Len(Z), Z[j].node = Z[k].node PROVE j = k
  <2>0. j \in Nat /\ k \in Nat /\ i \in Nat
    BY <1>1
  <2>1. CASE j < i /\ k < i
    BY <1>3, <1>4, <1>7, <2>1
  <2>2. CASE ~(j < i) /\ ~(k < i)
    <3>1. j + 1 = k + 1
      BY <1>3, <1>4, <1>7, <2>2
    <3> QED BY <2>0, <3>1
  <2>3. CASE j < i /\ ~(k < i)
    <3>1. j = k + 1 /\ k + 1 > i
      BY <1>3, <1>4, <1>7, <2>3
    <3> QED BY <2>0, <2>3, <3>1
  <2>4. CASE ~(j < i) /\ k < i
    <3>1. k = j + 1 /\ j + 1 > i
      BY <1>3, <1>4, <1>7, <2>4
    <3> QED BY <2>0, <2>4, <3>1
  <2> QED BY <2>1, <2>2, <2>3, <2>4
<1> QED BY <1>6, <1>7 DEF Distinct

(* Z has the node x before the one of A at that place. *)
Adds(A, at, x, Z) ==
    /\ Z \in Seq(Kid) /\ Len(Z) = Len(A) + 1
    /\ \A k \in 1..Len(Z) :
         Z[k].node = IF k < at THEN A[k].node ELSE IF k = at THEN x ELSE A[k - 1].node

\* The nodes of a list with one more.
LEMMA AddsNodes ==
  ASSUME NEW A \in Seq(Kid), NEW at \in 1..(Len(A) + 1), NEW x, NEW Z, Adds(A, at, x, Z),
         Distinct(A), x \notin NodesOf(A)
  PROVE  NodesOf(Z) = NodesOf(A) \cup {x} /\ Distinct(Z)
<1> DEFINE a == Len(A)
<1>1. a \in Nat /\ at \in 1..(a + 1) /\ at \in Nat /\ Len(Z) = a + 1
  BY KidsOf DEF Adds
<1>2. \A k \in 1..Len(Z) : Z[k].node = IF k < at THEN A[k].node ELSE IF k = at THEN x ELSE A[k - 1].node
  BY DEF Adds
<1>3. (\A j, k \in 1..a : A[j].node = A[k].node => j = k) /\ \A k \in 1..a : A[k].node # x
  BY DEF Distinct, NodesOf
<1> HIDE DEF a
<1>4. ASSUME NEW k \in 1..Len(Z)
      PROVE  \/ k < at /\ k \in 1..a /\ Z[k].node = A[k].node
             \/ k = at /\ Z[k].node = x
             \/ k > at /\ k - 1 \in 1..a /\ Z[k].node = A[k - 1].node
  <2>1. CASE k < at
    <3>1. k \in 1..a
      BY <1>1, <2>1
    <3> QED BY <1>2, <2>1, <3>1
  <2>2. CASE k = at
    BY <1>1, <1>2, <2>2
  <2>3. CASE k > at
    <3>1. k - 1 \in 1..a /\ ~(k < at) /\ k # at
      BY <1>1, <2>3
    <3> QED BY <1>2, <2>3, <3>1
  <2> QED BY <1>1, <2>1, <2>2, <2>3
<1>5. ASSUME NEW j \in 1..a PROVE \E k \in 1..Len(Z) : Z[k].node = A[j].node
  <2>1. CASE j < at
    <3>1. j \in 1..Len(Z)
      BY <1>1, <2>1
    <3> QED BY <1>2, <2>1, <3>1
  <2>2. CASE ~(j < at)
    <3>1. j + 1 \in 1..Len(Z) /\ ~(j + 1 < at) /\ j + 1 # at /\ (j + 1) - 1 = j
      BY <1>1, <2>2
    <3> QED BY <1>2, <3>1
  <2> QED BY <2>1, <2>2
<1>6. at \in 1..Len(Z) /\ Z[at].node = x
  <2>1. at \in 1..Len(Z) /\ ~(at < at)
    BY <1>1
  <2> QED BY <1>2, <2>1
<1>7. ASSUME NEW y PROVE y \in NodesOf(Z) <=> y \in NodesOf(A) \/ y = x
  <2>1. y \in NodesOf(Z) <=> \E k \in 1..Len(Z) : y = Z[k].node
    BY DEF NodesOf
  <2>2. y \in NodesOf(A) <=> \E k \in 1..a : y = A[k].node
    BY DEF NodesOf, a
  <2> QED BY <1>4, <1>5, <1>6, <2>1, <2>2
<1>8. ASSUME NEW j \in 1..Len(Z), NEW k \in 1..Len(Z), Z[j].node = Z[k].node PROVE j = k
  <2>0. j \in Nat /\ k \in Nat
    BY <1>1
  <2>1. CASE j = at \/ k = at
    BY <1>3, <1>4, <1>8, <2>1
  <2>2. CASE j < at /\ k < at
    BY <1>3, <1>4, <1>8, <2>2
  <2>3. CASE j > at /\ k > at
    <3>1. j - 1 = k - 1
      BY <1>1, <1>3, <1>4, <1>8, <2>0, <2>3
    <3> QED BY <2>0, <3>1
  <2>4. CASE j < at /\ k > at
    <3>1. j = k - 1
      BY <1>1, <1>3, <1>4, <1>8, <2>0, <2>4
    <3> QED BY <1>1, <2>0, <2>4, <3>1
  <2>5. CASE j > at /\ k < at
    <3>1. k = j - 1
      BY <1>1, <1>3, <1>4, <1>8, <2>0, <2>5
    <3> QED BY <1>1, <2>0, <2>5, <3>1
  <2> QED BY <1>1, <2>0, <2>1, <2>2, <2>3, <2>4, <2>5
<1> QED BY <1>7, <1>8 DEF Distinct

-----------------------------------------------------------------------------
(* What makes splits a tree: r is the root, S the splits and K[s] the nodes    *)
(* of split s.  No node is in two splits, no split is loose, none is missing,  *)
(* and every set of splits has one that none of them holds.                    *)

Grounded(S, K) == \A C \in SUBSET S : C # {} => \E s \in C : \A t \in C : s \notin K[t]

Frame(r, S, K) ==
    /\ S \subseteq SplitIds
    /\ \A s, t \in S : \A x \in K[s] : x \in K[t] => s = t
    /\ \A s \in S : r \notin K[s]
    /\ \A s \in S : s # r => \E t \in S : s \in K[t]
    /\ r \in SplitIds => r \in S
    /\ \A s \in S : \A x \in K[s] : x \in SplitIds => x \in S
    /\ Grounded(S, K)

NodesIn(r, S, K) == {r} \cup UNION {K[s] : s \in S}

\* A node is the root or a node of a split.
LEMMA InNodes ==
  ASSUME NEW r, NEW S, NEW K, NEW x
  PROVE  x \in NodesIn(r, S, K) <=> x = r \/ \E s \in S : x \in K[s]
BY DEF NodesIn

\* Two splits do not hold each other.
LEMMA NoLoop ==
  ASSUME NEW r, NEW S, NEW K, Frame(r, S, K), NEW s \in S, NEW t \in S, s \in K[t]
  PROVE  t \notin K[s]
<1> SUFFICES ASSUME t \in K[s] PROVE FALSE
  OBVIOUS
<1>1. {s, t} \in SUBSET S /\ {s, t} # {}
  OBVIOUS
<1>2. PICK x \in {s, t} : \A y \in {s, t} : x \notin K[y]
  BY <1>1 DEF Frame, Grounded
<1> QED BY <1>2

\* A tree of several nodes has a split for its root.
LEMMA RootIsSplit ==
  ASSUME NEW r, NEW S, NEW K, Frame(r, S, K), S # {}
  PROVE  r \in S
<1>1. PICK s \in S : \A t \in S : s \notin K[t]
  BY DEF Frame, Grounded
<1> QED BY <1>1 DEF Frame

KidsDissolved(S, K, s, n, L) == \A t \in S \ {n} : L[t] = IF t = s THEN (K[s] \ {n}) \cup K[n] ELSE K[t]
KidsDropped(S, K, s, p, L) == \A t \in S : L[t] = IF t = s THEN K[s] \ {p} ELSE K[t]
KidsUncovered(S, K, r, L) == \A t \in S \ {r} : L[t] = K[t]
KidsGrafted(S, K, s, q, T, J, L) ==
    /\ \A t \in S : L[t] = IF t = s THEN K[s] \cup {q} ELSE K[t]
    /\ \A t \in T : L[t] = J[t]
KidsCovered(S, K, p, n, L) ==
    /\ \A t \in S : L[t] = IF p \in K[t] THEN (K[t] \ {p}) \cup {n} ELSE K[t]
    /\ L[n] = {p}

(* A split gives its nodes to the one that holds it. *)
LEMMA FrameDissolved ==
  ASSUME NEW r, NEW S, NEW K, Frame(r, S, K), NEW s \in S, NEW n \in S, n \in K[s],
         NEW L, KidsDissolved(S, K, s, n, L)
  PROVE  Frame(r, S \ {n}, L) /\ n # s /\ n # r /\ NodesIn(r, S \ {n}, L) = NodesIn(r, S, K) \ {n}
<1> USE DEF KidsDissolved
<1> DEFINE T == S \ {n}
<1>1. n # s /\ n # r /\ n \notin K[n]
  BY NoLoop DEF Frame
<1>2. \A t \in T : \A x : x \in L[t] <=> (x \in K[t] /\ x # n) \/ (t = s /\ x \in K[n])
  <2> SUFFICES ASSUME NEW t \in T, NEW x
               PROVE  x \in L[t] <=> (x \in K[t] /\ x # n) \/ (t = s /\ x \in K[n])
    OBVIOUS
  <2>1. CASE t = s
    BY <1>1, <2>1
  <2>2. CASE t # s
    <3>1. n \notin K[t]
      BY <2>2 DEF Frame
    <3> QED BY <2>2, <3>1
  <2> QED BY <2>1, <2>2
<1>3. T \subseteq SplitIds
  BY DEF Frame
<1>4. \A t, u \in T : \A x \in L[t] : x \in L[u] => t = u
  BY <1>1, <1>2 DEF Frame
<1>5. \A t \in T : r \notin L[t]
  BY <1>2 DEF Frame
<1>6. ASSUME NEW t \in T, t # r PROVE \E u \in T : t \in L[u]
  <2>1. PICK u \in S : t \in K[u]
    BY <1>6 DEF Frame
  <2>2. CASE u = n
    BY <1>1, <1>2, <2>1, <2>2
  <2>3. CASE u # n
    BY <1>2, <2>1, <2>3
  <2> QED BY <2>2, <2>3
<1>7. r \in SplitIds => r \in T
  BY <1>1 DEF Frame
<1>8. \A t \in T : \A x \in L[t] : x \in SplitIds => x \in T
  BY <1>1, <1>2 DEF Frame
<1>9. ASSUME NEW C \in SUBSET T, C # {} PROVE \E t \in C : \A u \in C : t \notin L[u]
  <2>1. CASE s \in C
    <3>1. C \cup {n} \in SUBSET S /\ C \cup {n} # {}
      OBVIOUS
    <3>2. PICK t \in C \cup {n} : \A u \in C \cup {n} : t \notin K[u]
      BY <3>1 DEF Frame, Grounded
    <3>3. t \in C
      BY <2>1, <3>2
    <3>4. \A u \in C : t \notin L[u]
      BY <1>2, <3>2
    <3> QED BY <3>3, <3>4
  <2>2. CASE s \notin C
    <3>1. PICK t \in C : \A u \in C : t \notin K[u]
      BY <1>9 DEF Frame, Grounded
    <3>2. \A u \in C : t \notin L[u]
      BY <1>2, <2>2, <3>1
    <3> QED BY <3>2
  <2> QED BY <2>1, <2>2
<1>10. Frame(r, T, L)
  BY <1>3, <1>4, <1>5, <1>6, <1>7, <1>8, <1>9 DEF Frame, Grounded
<1>11. ASSUME NEW x PROVE x \in NodesIn(r, T, L) <=> x \in NodesIn(r, S, K) /\ x # n
  <2>1. CASE x = n
    <3>1. \A t \in T : n \notin L[t]
      BY <1>1, <1>2
    <3> QED BY <1>1, <2>1, <3>1, InNodes
  <2>2. CASE x # n
    <3>1. (\E t \in T : x \in L[t]) <=> \E t \in S : x \in K[t]
      BY <1>1, <1>2, <2>2
    <3> QED BY <2>2, <3>1, InNodes
  <2> QED BY <2>1, <2>2
<1> QED BY <1>1, <1>10, <1>11

(* A node that is no split is gone. *)
LEMMA FrameDropped ==
  ASSUME NEW r, NEW S, NEW K, Frame(r, S, K), NEW s \in S, NEW p, p \in K[s], p \notin S,
         NEW L, KidsDropped(S, K, s, p, L)
  PROVE  Frame(r, S, L) /\ NodesIn(r, S, L) = NodesIn(r, S, K) \ {p}
<1> USE DEF KidsDropped
<1>1. \A t \in S : \A x : x \in L[t] <=> x \in K[t] /\ x # p
  BY DEF Frame
<1>2. ASSUME NEW C \in SUBSET S, C # {} PROVE \E t \in C : \A u \in C : t \notin L[u]
  <2>1. PICK t \in C : \A u \in C : t \notin K[u]
    BY <1>2 DEF Frame, Grounded
  <2> QED BY <1>1, <2>1
<1>3. Frame(r, S, L)
  BY <1>1, <1>2 DEF Frame, Grounded
<1>4. ASSUME NEW x PROVE x \in NodesIn(r, S, L) <=> x \in NodesIn(r, S, K) /\ x # p
  <2>1. r # p
    BY DEF Frame
  <2> QED BY <1>1, <2>1, InNodes
<1> QED BY <1>3, <1>4

Uncovers(c, r, S, K, L) ==
    Frame(c, S \ {r}, L) /\ c # r /\ NodesIn(c, S \ {r}, L) = NodesIn(r, S, K) \ {r}

(* The root gives way to its only node. *)
LEMMA FrameUncovered ==
  ASSUME NEW r, NEW S, NEW K, Frame(r, S, K), r \in S, NEW c, K[r] = {c},
         NEW L, KidsUncovered(S, K, r, L)
  PROVE  Uncovers(c, r, S, K, L)
<1> USE DEF KidsUncovered
<1> DEFINE T == S \ {r}
<1>1. c # r /\ c \in K[r]
  BY DEF Frame
<1>2. T \subseteq SplitIds
  BY DEF Frame
<1>3. \A s, t \in T : \A x \in L[s] : x \in L[t] => s = t
  BY DEF Frame
<1>4. \A s \in T : c \notin L[s]
  BY <1>1 DEF Frame
<1>5. ASSUME NEW s \in T, s # c PROVE \E t \in T : s \in L[t]
  <2>1. PICK t \in S : s \in K[t]
    BY DEF Frame
  <2>2. t # r
    BY <1>5, <2>1
  <2> QED BY <2>1, <2>2
<1>6. c \in SplitIds => c \in T
  BY <1>1 DEF Frame
<1>7. \A s \in T : \A x \in L[s] : x \in SplitIds => x \in T
  BY DEF Frame
<1>8. ASSUME NEW C \in SUBSET T, C # {} PROVE \E t \in C : \A u \in C : t \notin L[u]
  <2>1. C \in SUBSET S
    OBVIOUS
  <2>2. PICK t \in C : \A u \in C : t \notin K[u]
    BY <1>8, <2>1 DEF Frame, Grounded
  <2> QED BY <2>2
<1>9. Frame(c, T, L)
  BY <1>2, <1>3, <1>4, <1>5, <1>6, <1>7, <1>8 DEF Frame, Grounded
<1>10. ASSUME NEW x PROVE x \in NodesIn(c, T, L) <=> x \in NodesIn(r, S, K) /\ x # r
  <2>1. x \in NodesIn(c, T, L) <=> x = c \/ \E s \in T : x \in K[s]
    <3>1. (\E s \in T : x \in L[s]) <=> \E s \in T : x \in K[s]
      OBVIOUS
    <3> QED BY <3>1, InNodes
  <2>2. x \in NodesIn(r, S, K) <=> x = r \/ \E s \in S : x \in K[s]
    BY InNodes
  <2>3. \A s \in S : r \notin K[s]
    BY DEF Frame
  <2> QED BY <1>1, <2>1, <2>2, <2>3
<1> QED BY <1>1, <1>9, <1>10 DEF Uncovers

Grafts(r, S, K, q, T, J, L) ==
    /\ Frame(r, S \cup T, L) /\ S \cap T = {}
    /\ NodesIn(r, S \cup T, L) = NodesIn(r, S, K) \cup NodesIn(q, T, J)

(* A split takes the root of another tree. *)
LEMMA FrameGrafted ==
  ASSUME NEW r, NEW S, NEW K, Frame(r, S, K), NEW q, NEW T, NEW J, Frame(q, T, J),
         \A x \in NodesIn(r, S, K) : x \notin NodesIn(q, T, J), NEW s \in S,
         NEW L, KidsGrafted(S, K, s, q, T, J, L)
  PROVE  Grafts(r, S, K, q, T, J, L)
<1> USE DEF KidsGrafted
<1> DEFINE U == S \cup T
<1>1. \A x : x \in NodesIn(r, S, K) <=> x = r \/ \E t \in S : x \in K[t]
  BY InNodes
<1>2. \A x : x \in NodesIn(q, T, J) <=> x = q \/ \E t \in T : x \in J[t]
  BY InNodes
<1>3. (\A t \in S : t \in NodesIn(r, S, K)) /\ \A t \in T : t \in NodesIn(q, T, J)
  <2>1. ASSUME NEW t \in S PROVE t \in NodesIn(r, S, K)
    BY <1>1 DEF Frame
  <2>2. ASSUME NEW t \in T PROVE t \in NodesIn(q, T, J)
    BY <1>2 DEF Frame
  <2> QED BY <2>1, <2>2
<1>4. S \cap T = {} /\ q \notin S /\ r \notin T /\ q # r
  BY <1>1, <1>2, <1>3
<1>5. \A t \in S : \A x : x \in L[t] <=> x \in K[t] \/ (t = s /\ x = q)
  OBVIOUS
<1>6. /\ \A t \in S : \A x : x \in K[t] => x \notin T /\ x # q /\ \A u \in T : x \notin J[u]
      /\ \A t \in T : \A x : x \in J[t] => x \notin S /\ x # r /\ \A u \in S : x \notin K[u]
  BY <1>1, <1>2, <1>3
<1>7. U \subseteq SplitIds
  BY DEF Frame
<1>8. ASSUME NEW t \in U, NEW u \in U, NEW x, x \in L[t], x \in L[u] PROVE t = u
  <2>1. CASE t \in S /\ u \in S
    BY <1>5, <1>6, <1>8, <2>1 DEF Frame
  <2>2. CASE t \in T /\ u \in T
    BY <1>8, <2>2 DEF Frame
  <2>3. \A v \in T : q \notin J[v]
    BY DEF Frame
  <2>4. CASE t \in S /\ u \in T
    BY <1>5, <1>6, <1>8, <2>3, <2>4
  <2>5. CASE t \in T /\ u \in S
    BY <1>5, <1>6, <1>8, <2>3, <2>5
  <2> QED BY <2>1, <2>2, <2>4, <2>5
<1>9. \A t \in U : r \notin L[t]
  BY <1>4, <1>5, <1>6 DEF Frame
<1>10. ASSUME NEW t \in U, t # r PROVE \E u \in U : t \in L[u]
  <2>1. CASE t \in S
    BY <1>5, <1>10, <2>1 DEF Frame
  <2>2. CASE t = q
    BY <1>5, <2>2
  <2>3. CASE t \in T /\ t # q
    BY <2>3 DEF Frame
  <2> QED BY <2>1, <2>2, <2>3
<1>11. r \in SplitIds => r \in U
  BY DEF Frame
<1>12. ASSUME NEW t \in U, NEW x \in L[t], x \in SplitIds PROVE x \in U
  <2>1. CASE t \in S
    BY <1>5, <1>12, <2>1 DEF Frame
  <2>2. CASE t \in T
    BY <1>12, <2>2 DEF Frame
  <2> QED BY <2>1, <2>2
<1>13. ASSUME NEW C \in SUBSET U, C # {} PROVE \E t \in C : \A u \in C : t \notin L[u]
  <2>1. CASE C \cap S # {}
    <3>1. PICK t \in C \cap S : \A u \in C \cap S : t \notin K[u]
      BY <2>1 DEF Frame, Grounded
    <3>2. \A u \in C : t \notin L[u]
      BY <1>4, <1>5, <1>6, <3>1
    <3> QED BY <3>2
  <2>2. CASE C \cap S = {}
    <3>1. C \in SUBSET T
      BY <2>2
    <3>2. PICK t \in C : \A u \in C : t \notin J[u]
      BY <1>13, <3>1 DEF Frame, Grounded
    <3> QED BY <3>1, <3>2
  <2> QED BY <2>1, <2>2
<1>14. Frame(r, U, L)
  BY <1>7, <1>8, <1>9, <1>10, <1>11, <1>12, <1>13 DEF Frame, Grounded
<1>15. ASSUME NEW x
       PROVE  x \in NodesIn(r, U, L) <=> x \in NodesIn(r, S, K) \/ x \in NodesIn(q, T, J)
  <2>1. x \in NodesIn(r, U, L) <=> x = r \/ \E t \in U : x \in L[t]
    BY InNodes
  <2>2. (\E t \in U : x \in L[t]) <=> (\E t \in S : x \in L[t]) \/ \E t \in T : x \in J[t]
    OBVIOUS
  <2>3. (\E t \in S : x \in L[t]) <=> (\E t \in S : x \in K[t]) \/ x = q
    BY <1>5
  <2> QED BY <1>1, <1>2, <2>1, <2>2, <2>3
<1> QED BY <1>4, <1>14, <1>15 DEF Grafts

Covers(r, S, K, p, n, L) ==
    LET q == IF p = r THEN n ELSE r
    IN /\ Frame(q, S \cup {n}, L)
       /\ NodesIn(q, S \cup {n}, L) = NodesIn(r, S, K) \cup {n}

(* A new split in the place of a node that is none, and it holds that node. *)
LEMMA FrameCovered ==
  ASSUME NEW r, NEW S, NEW K, Frame(r, S, K), NEW p \in NodesIn(r, S, K), p \notin S,
         NEW n \in SplitIds \ S, NEW L, KidsCovered(S, K, p, n, L)
  PROVE  Covers(r, S, K, p, n, L)
<1> USE DEF KidsCovered
<1> DEFINE q == IF p = r THEN n ELSE r U == S \cup {n}
<1>0. p = r \/ \E t \in S : p \in K[t]
  BY InNodes
<1>1. /\ p # n /\ p \notin SplitIds /\ n # r
      /\ \A t \in S : n \notin K[t]
      /\ p = r => \A t \in S : p \notin K[t]
  <2>1. p \notin SplitIds
    BY <1>0 DEF Frame
  <2> QED BY <2>1 DEF Frame
<1>2. /\ \A t \in S : \A x : x \in L[t] <=> (x \in K[t] /\ x # p) \/ (p \in K[t] /\ x = n)
      /\ \A x : x \in L[n] <=> x = p
  <2>1. ASSUME NEW t \in S, NEW x
        PROVE  x \in L[t] <=> (x \in K[t] /\ x # p) \/ (p \in K[t] /\ x = n)
    <3>1. CASE p \in K[t]
      <4>1. L[t] = (K[t] \ {p}) \cup {n}
        BY <3>1
      <4> QED BY <1>1, <3>1, <4>1
    <3>2. CASE p \notin K[t]
      <4>1. L[t] = K[t]
        BY <3>2
      <4> QED BY <1>1, <3>2, <4>1
    <3> QED BY <3>1, <3>2
  <2> QED BY <2>1
<1>3. U \subseteq SplitIds
  BY DEF Frame
<1>4. ASSUME NEW t \in U, NEW u \in U, NEW x, x \in L[t], x \in L[u] PROVE t = u
  <2>1. CASE t \in S /\ u \in S
    BY <1>1, <1>2, <1>4, <2>1 DEF Frame
  <2>2. CASE t = n /\ u \in S
    BY <1>1, <1>2, <1>4, <2>2
  <2>3. CASE t \in S /\ u = n
    BY <1>1, <1>2, <1>4, <2>3
  <2> QED BY <2>1, <2>2, <2>3
<1>5. ASSUME NEW t \in U PROVE q \notin L[t]
  <2>1. \A u \in S : r \notin K[u]
    BY DEF Frame
  <2>2. CASE p = r
    <3>1. q = n
      BY <2>2
    <3> HIDE DEF q
    <3> QED BY <1>1, <1>2, <2>2, <3>1
  <2>3. CASE p # r
    <3>1. q = r
      BY <2>3
    <3> HIDE DEF q
    <3> QED BY <1>1, <1>2, <2>1, <2>3, <3>1
  <2> QED BY <2>2, <2>3
<1>6. ASSUME NEW t \in U, t # q PROVE \E u \in U : t \in L[u]
  <2>1. CASE t = n
    BY <1>0, <1>1, <1>2, <1>6, <2>1
  <2>2. CASE t \in S /\ t = r
    BY <1>1, <1>6, <2>2 DEF Frame
  <2>3. CASE t \in S /\ t # r
    <3>1. PICK u \in S : t \in K[u]
      BY <2>3 DEF Frame
    <3>2. t # p
      BY <2>3
    <3> QED BY <1>2, <3>1, <3>2
  <2> QED BY <2>1, <2>2, <2>3
<1>7. q \in SplitIds => q \in U
  BY DEF Frame
<1>8. ASSUME NEW t \in U, NEW x \in L[t], x \in SplitIds PROVE x \in U
  <2>1. CASE t \in S
    BY <1>2, <1>8, <2>1 DEF Frame
  <2>2. CASE t = n
    BY <1>1, <1>8, <2>2
  <2> QED BY <2>1, <2>2
<1>9. ASSUME NEW C \in SUBSET U, C # {} PROVE \E t \in C : \A u \in C : t \notin L[u]
  <2>1. CASE C \cap S # {}
    <3>1. PICK t \in C \cap S : \A u \in C \cap S : t \notin K[u]
      BY <2>1 DEF Frame, Grounded
    <3>2. t # p /\ t # n
      OBVIOUS
    <3>3. ASSUME NEW u \in C PROVE t \notin L[u]
      <4>1. CASE u = n
        BY <1>2, <3>2, <4>1
      <4>2. CASE u \in S
        BY <1>2, <3>1, <3>2, <4>2
      <4> QED BY <4>1, <4>2
    <3> QED BY <3>3
  <2>2. CASE C \cap S = {}
    <3>1. C = {n}
      BY <1>9, <2>2
    <3> QED BY <1>1, <1>2, <3>1
  <2> QED BY <2>1, <2>2
<1>10. Frame(q, U, L)
  BY <1>3, <1>4, <1>5, <1>6, <1>7, <1>8, <1>9 DEF Frame, Grounded
<1>11. ASSUME NEW x PROVE x \in NodesIn(q, U, L) <=> x \in NodesIn(r, S, K) \/ x = n
  <2>1. x \in NodesIn(q, U, L) <=> x = q \/ \E t \in U : x \in L[t]
    BY InNodes
  <2>2. x \in NodesIn(r, S, K) <=> x = r \/ \E t \in S : x \in K[t]
    BY InNodes
  <2>3. (\E t \in U : x \in L[t]) <=> (\E t \in S : x \in L[t]) \/ x = p
    BY <1>2
  <2>4. CASE x = n
    <3>1. q = n \/ \E t \in S : n \in L[t]
      BY <1>0, <1>2
    <3> QED BY <2>1, <2>4, <3>1
  <2>5. CASE x = p
    BY <2>1, <2>3, <2>5, <1>1
  <2>6. CASE x # n /\ x # p
    <3>1. (\E t \in S : x \in L[t]) <=> \E t \in S : x \in K[t]
      BY <1>2, <2>6
    <3>2. x = q <=> x = r
      BY <2>6
    <3> QED BY <2>1, <2>2, <2>3, <2>6, <3>1, <3>2
  <2> QED BY <2>4, <2>5, <2>6
<1> QED BY <1>10, <1>11 DEF Covers

-----------------------------------------------------------------------------
(* Layouts.                                                                   *)

Split == [axis : Axes, children : Seq(Kid)]
KidsOn(l) == [s \in Splits(l) |-> NodesOf(Children(l, s))]

Typed(l) ==
    /\ l = Layout(l.root, l.splits) /\ l.root \in Ends
    /\ IsFiniteSet(Splits(l)) /\ l.splits \in [Splits(l) -> Split]

Tree(l) ==
    /\ Typed(l)
    /\ \A s \in Splits(l) : Distinct(Children(l, s))
    /\ Frame(l.root, Splits(l), KidsOn(l))

(* No split but n could be one with the split that holds it. *)
Almost(l, n) ==
    /\ Tree(l)
    /\ \A s \in Splits(l) : Full(Children(l, s))
    /\ \A s \in Splits(l) : \A x \in NodesOf(Children(l, s)) : x # n => ~Merges(l, s, x)

Sound(l) ==
    /\ Tree(l)
    /\ \A s \in Splits(l) : Full(Children(l, s))
    /\ \A s \in Splits(l) : \A x \in NodesOf(Children(l, s)) : ~Merges(l, s, x)

\* A split has an axis and a list of children.
LEMMA SplitIs ==
  ASSUME NEW l, Typed(l), NEW s \in Splits(l)
  PROVE  /\ Children(l, s) \in Seq(Kid) /\ l.splits[s].axis \in Axes
         /\ l.splits[s] = [axis |-> l.splits[s].axis, children |-> Children(l, s)]
         /\ KidsOn(l)[s] = NodesOf(Children(l, s))
<1>1. l.splits[s] \in Split
  BY DEF Typed
<1> QED BY <1>1 DEF Split, Children, KidsOn

\* The nodes of a layout are the root and what its splits hold.
LEMMA NodesAre ==
  ASSUME NEW l, Typed(l)
  PROVE  /\ \A x : x \in ChildrenOf(l) <=> \E s \in Splits(l) : \E i \in 1..Len(Children(l, s)) : Children(l, s)[i] = x
         /\ Nodes(l) = NodesIn(l.root, Splits(l), KidsOn(l))
<1>1. ASSUME NEW s \in Splits(l) PROVE DOMAIN Children(l, s) = 1..Len(Children(l, s))
  BY SplitIs, KidsOf
<1>2. ASSUME NEW x
      PROVE  x \in ChildrenOf(l) <=>
               \E s \in Splits(l) : \E i \in 1..Len(Children(l, s)) : Children(l, s)[i] = x
  <2>1. x \in ChildrenOf(l) <=> \E s \in Splits(l) : x \in ToSet(Children(l, s))
    BY DEF ChildrenOf
  <2>2. \A s \in Splits(l) : x \in ToSet(Children(l, s)) <=> \E i \in 1..Len(Children(l, s)) : Children(l, s)[i] = x
    BY <1>1 DEF ToSet
  <2> QED BY <2>1, <2>2
<1>3. ASSUME NEW x PROVE x \in Nodes(l) <=> x \in NodesIn(l.root, Splits(l), KidsOn(l))
  <2>1. x \in Nodes(l) <=> x = l.root \/ \E c \in ChildrenOf(l) : x = c.node
    BY DEF Nodes
  <2>2. (\E c \in ChildrenOf(l) : x = c.node) <=>
          \E s \in Splits(l) : \E i \in 1..Len(Children(l, s)) : Children(l, s)[i].node = x
    BY <1>2
  <2>3. \A s \in Splits(l) : x \in KidsOn(l)[s] <=> \E i \in 1..Len(Children(l, s)) : Children(l, s)[i].node = x
    BY DEF KidsOn, NodesOf
  <2> QED BY <2>1, <2>2, <2>3, InNodes
<1> QED BY <1>2, <1>3

\* A child is found again by its node: in its split and at its place.
LEMMA Held ==
  ASSUME NEW l, Tree(l), NEW s \in Splits(l), NEW i \in 1..Len(Children(l, s))
  PROVE  LET x == Children(l, s)[i].node
         IN /\ HolderOf(l, x) = s /\ Place(l, s, x) = i /\ x # l.root /\ x \in Nodes(l)
            /\ x \in NodesOf(Children(l, s)) /\ x # s
<1> DEFINE x == Children(l, s)[i].node
<1>1. Typed(l) /\ Frame(l.root, Splits(l), KidsOn(l)) /\ Distinct(Children(l, s))
  BY DEF Tree
<1>2. x \in NodesOf(Children(l, s)) /\ KidsOn(l)[s] = NodesOf(Children(l, s))
  BY <1>1, SplitIs DEF NodesOf
<1>3. DOMAIN Children(l, s) = 1..Len(Children(l, s)) /\ \A t \in Splits(l) : DOMAIN Children(l, t) = 1..Len(Children(l, t))
  BY <1>1, SplitIs, KidsOf
<1>4. ASSUME NEW t \in Splits(l), NEW j \in DOMAIN Children(l, t), Children(l, t)[j].node = x
      PROVE  t = s
  <2>1. x \in KidsOn(l)[t]
    BY <1>3, <1>4 DEF KidsOn, NodesOf
  <2> QED BY <1>1, <1>2, <2>1 DEF Frame
<1>5. ASSUME NEW j \in DOMAIN Children(l, s), Children(l, s)[j].node = x PROVE j = i
  BY <1>1, <1>3, <1>5 DEF Distinct
<1>6. x # l.root /\ x \in NodesIn(l.root, Splits(l), KidsOn(l))
  BY <1>1, <1>2, InNodes DEF Frame
<1>7. x # s
  BY <1>1, <1>2, NoLoop
<1> HIDE DEF x
<1>8. HolderOf(l, x) = s
  <2>1. \E j \in DOMAIN Children(l, s) : Holds(l, s, j, x)
    BY <1>3 DEF Holds, x
  <2>2. \A t \in Splits(l) : (\E j \in DOMAIN Children(l, t) : Holds(l, t, j, x)) => t = s
    BY <1>4 DEF Holds
  <2> QED BY <2>1, <2>2 DEF HolderOf
<1>9. Place(l, s, x) = i
  <2>1. Holds(l, s, i, x) /\ i \in DOMAIN Children(l, s)
    BY <1>3 DEF Holds, x
  <2>2. \A j \in DOMAIN Children(l, s) : Holds(l, s, j, x) => j = i
    BY <1>5 DEF Holds
  <2> QED BY <2>1, <2>2 DEF Place
<1> QED BY <1>1, <1>2, <1>6, <1>7, <1>8, <1>9, NodesAre DEF x

\* A node that is not the root has a split that holds it.
LEMMA Holder ==
  ASSUME NEW l, Tree(l), NEW x \in Nodes(l), x # l.root
  PROVE  LET s == HolderOf(l, x) i == Place(l, s, x)
         IN s \in Splits(l) /\ i \in 1..Len(Children(l, s)) /\ Children(l, s)[i].node = x
<1>1. Typed(l)
  BY DEF Tree
<1>2. PICK s \in Splits(l) : x \in KidsOn(l)[s]
  <2>1. x \in NodesIn(l.root, Splits(l), KidsOn(l))
    BY <1>1, NodesAre
  <2> QED BY <2>1, InNodes
<1>3. PICK i \in 1..Len(Children(l, s)) : Children(l, s)[i].node = x
  <2>1. x \in NodesOf(Children(l, s))
    BY <1>1, <1>2, SplitIs
  <2> QED BY <2>1 DEF NodesOf
<1>4. HolderOf(l, x) = s /\ Place(l, s, x) = i
  BY <1>3, Held
<1> QED BY <1>3, <1>4

\* `PaneLayout::new` accepts a sound layout.
LEMMA SoundIsValid ==
  ASSUME NEW l, Sound(l)
  PROVE  Valid(l)
<1>0. Tree(l) /\ Typed(l)
  BY DEF Sound, Tree
<1>1. \A s \in Splits(l) : DOMAIN Children(l, s) = 1..Len(Children(l, s))
  BY <1>0, SplitIs, KidsOf
<1>2. ASSUME NEW s \in Splits(l), NEW t \in Splits(l), NEW i \in DOMAIN Children(l, s),
             NEW j \in DOMAIN Children(l, t), Children(l, s)[i].node = Children(l, t)[j].node
      PROVE  s = t /\ i = j
  <2> DEFINE x == Children(l, s)[i].node
  <2>1. i \in 1..Len(Children(l, s)) /\ j \in 1..Len(Children(l, t))
    BY <1>1
  <2>2. HolderOf(l, x) = s /\ Place(l, s, x) = i
    BY <1>0, <2>1, Held
  <2>3. HolderOf(l, x) = t /\ Place(l, t, x) = j
    BY <1>0, <1>2, <2>1, Held
  <2> QED BY <2>2, <2>3
<1>3. ASSUME NEW c \in ChildrenOf(l) PROVE c.node # l.root
  <2>1. PICK s \in Splits(l) : \E i \in 1..Len(Children(l, s)) : Children(l, s)[i] = c
    BY <1>0, NodesAre
  <2>2. PICK i \in 1..Len(Children(l, s)) : Children(l, s)[i] = c
    BY <2>1
  <2> QED BY <1>0, <2>2, Held
<1>4. ASSUME NEW s \in Splits(l) PROVE Validated(l, s)
  <2>1. Full(Children(l, s)) /\ \A x \in NodesOf(Children(l, s)) : ~Merges(l, s, x)
    BY DEF Sound
  <2>2. Children(l, s) \in Seq(Kid)
    BY <1>0, SplitIs
  <2>3. ASSUME NEW i \in DOMAIN Children(l, s)
        PROVE  ~Merges(l, s, Children(l, s)[i].node) /\ Children(l, s)[i].weight > 0
    <3>1. i \in 1..Len(Children(l, s)) /\ Children(l, s)[i].weight \in Nat
      BY <1>1, <2>2, KidsOf
    <3>2. Children(l, s)[i].node \in NodesOf(Children(l, s)) /\ Children(l, s)[i].weight >= 1
      BY <2>1, <3>1 DEF NodesOf, Full
    <3> QED BY <2>1, <3>1, <3>2
  <2> QED BY <2>1, <2>3 DEF Validated, Full
<1>5. Once(l)
  BY <1>2, <1>3 DEF Once
<1> QED BY <1>4, <1>5 DEF Valid

\* A tree that `PaneLayout::new` accepts is sound.
LEMMA ValidIsSound ==
  ASSUME NEW l, Tree(l), Valid(l)
  PROVE  Sound(l)
<1>0. Typed(l)
  BY DEF Tree
<1>1. ASSUME NEW s \in Splits(l)
      PROVE  Full(Children(l, s)) /\ \A x \in NodesOf(Children(l, s)) : ~Merges(l, s, x)
  <2>1. Children(l, s) \in Seq(Kid)
    BY <1>0, SplitIs
  <2>2. DOMAIN Children(l, s) = 1..Len(Children(l, s)) /\ \A i \in 1..Len(Children(l, s)) : Children(l, s)[i].weight \in Nat
    BY <2>1, KidsOf
  <2>3. Validated(l, s)
    BY DEF Valid
  <2>4. \A i \in 1..Len(Children(l, s)) : ~Merges(l, s, Children(l, s)[i].node) /\ Children(l, s)[i].weight > 0
    BY <2>2, <2>3 DEF Validated
  <2>5. \A i \in 1..Len(Children(l, s)) : Children(l, s)[i].weight >= 1
    BY <2>2, <2>4
  <2>6. Len(Children(l, s)) \in 2..MaxSplitChildren /\ SumOf(Children(l, s)) = SplitTotal
    BY <2>3 DEF Validated
  <2> QED BY <2>4, <2>5, <2>6 DEF Full, NodesOf
<1> QED BY <1>1 DEF Sound

(* What it takes for a layout that was put together to be a tree. *)
LEMMA IsTree ==
  ASSUME NEW m, m = Layout(m.root, m.splits), m.root \in Ends, IsFiniteSet(Splits(m)),
         m.splits = [s \in Splits(m) |-> m.splits[s]],
         \A s \in Splits(m) : /\ m.splits[s] = [axis |-> m.splits[s].axis, children |-> Children(m, s)]
                              /\ m.splits[s].axis \in Axes /\ Children(m, s) \in Seq(Kid)
                              /\ Distinct(Children(m, s)),
         Frame(m.root, Splits(m), KidsOn(m))
  PROVE  Tree(m)
<1>1. ASSUME NEW s \in Splits(m) PROVE m.splits[s] \in Split
  <2> DEFINE a == m.splits[s].axis c == Children(m, s) e == m.splits[s]
  <2>1. e = [axis |-> a, children |-> c] /\ a \in Axes /\ c \in Seq(Kid)
    OBVIOUS
  <2> HIDE DEF a, c, e
  <2>2. e \in Split
    BY <2>1 DEF Split
  <2> QED BY <2>2 DEF e
<1>2. m.splits \in [Splits(m) -> Split]
  <2> DEFINE f == m.splits S == Splits(m)
  <2>1. f = [s \in S |-> f[s]] /\ \A s \in S : f[s] \in Split
    BY <1>1
  <2> HIDE DEF f, S
  <2>2. f \in [S -> Split]
    BY <2>1
  <2> QED BY <2>2 DEF f, S
<1>3. Typed(m)
  BY <1>2 DEF Typed
<1> QED BY <1>3 DEF Tree

\* Other children for one split change nothing else.
LEMMA WithChildrenIs ==
  ASSUME NEW l, Typed(l), NEW s \in Splits(l), NEW Z \in Seq(Kid)
  PROVE  LET m == WithChildren(l, s, Z)
         IN /\ m.root = l.root /\ m = Layout(m.root, m.splits) /\ Splits(m) = Splits(l)
            /\ m.splits = [t \in Splits(m) |-> m.splits[t]]
            /\ Children(m, s) = Z /\ m.splits[s].axis = l.splits[s].axis
            /\ m.splits[s] = [axis |-> m.splits[s].axis, children |-> Z]
            /\ \A t \in Splits(l) : t # s => m.splits[t] = l.splits[t] /\ Children(m, t) = Children(l, t)
<1> DEFINE e == [l.splits[s] EXCEPT !.children = Z] f == [l.splits EXCEPT ![s] = e]
           m == Layout(l.root, f)
<1>1. l.splits[s] = [axis |-> l.splits[s].axis, children |-> Children(l, s)]
  BY SplitIs
<1>2. e = [axis |-> l.splits[s].axis, children |-> Z]
  BY <1>1
<1>3. l.splits = [t \in Splits(l) |-> l.splits[t]] /\ DOMAIN l.splits = Splits(l)
  BY DEF Typed, Splits
<1>4. WithChildren(l, s, Z) = m
  BY DEF WithChildren
<1> HIDE DEF e
<1>5. f = [t \in Splits(l) |-> IF t = s THEN e ELSE l.splits[t]]
  BY <1>3
<1> HIDE DEF f
<1>6. m.root = l.root /\ m.splits = f
  BY DEF Layout
<1>7. Splits(m) = Splits(l)
  BY <1>5, <1>6 DEF Splits
<1>8. f[s] = e /\ \A t \in Splits(l) : t # s => f[t] = l.splits[t]
  BY <1>5
<1> HIDE DEF m
<1>9. m = Layout(m.root, m.splits)
  BY <1>6 DEF m
<1> QED BY <1>2, <1>4, <1>5, <1>6, <1>7, <1>8, <1>9 DEF Children

(* A split is gone and the one that held it has its nodes. *)
LEMMA DissolvedIs ==
  ASSUME NEW l, Tree(l), NEW s \in Splits(l), NEW i \in 1..Len(Children(l, s)),
         Children(l, s)[i].node \in Splits(l), NEW Z,
         Joins(Children(l, s), i, Children(l, Children(l, s)[i].node), Z)
  PROVE  LET n == Children(l, s)[i].node
             m == Dissolved(l, s, i, Z)
         IN /\ Tree(m) /\ m.root = l.root /\ Splits(m) = Splits(l) \ {n} /\ s \in Splits(m) /\ n # s
            /\ Children(m, s) = Z /\ m.splits[s].axis = l.splits[s].axis
            /\ \A t \in Splits(m) : t # s => m.splits[t] = l.splits[t] /\ Children(m, t) = Children(l, t)
            /\ NodesOf(Z) = (NodesOf(Children(l, s)) \ {n}) \cup NodesOf(Children(l, n))
            /\ PanesOf(m) = PanesOf(l)
<1> DEFINE A == Children(l, s) n == A[i].node B == Children(l, n)
           w == WithChildren(l, s, Z) T == Splits(l) \ {n}
           f == [t \in T |-> w.splits[t]] m == Layout(w.root, f)
<1>0. Typed(l) /\ Frame(l.root, Splits(l), KidsOn(l)) /\ n \in Splits(l)
  BY DEF Tree
<1>1. A \in Seq(Kid) /\ B \in Seq(Kid) /\ Distinct(A) /\ Distinct(B) /\ Joins(A, i, B, Z) /\ Z \in Seq(Kid)
  <2>1. A \in Seq(Kid) /\ B \in Seq(Kid)
    BY <1>0, SplitIs
  <2>2. Distinct(A) /\ Distinct(B)
    BY <1>0 DEF Tree
  <2>3. Joins(A, i, B, Z)
    OBVIOUS
  <2> HIDE DEF A, B
  <2>4. Z \in Seq(Kid)
    BY <2>3 DEF Joins
  <2> QED BY <2>1, <2>2, <2>3, <2>4
<1>2. /\ w.root = l.root /\ Splits(w) = Splits(l)
      /\ Children(w, s) = Z /\ w.splits[s].axis = l.splits[s].axis
      /\ w.splits[s] = [axis |-> w.splits[s].axis, children |-> Z]
      /\ \A t \in Splits(l) : t # s => w.splits[t] = l.splits[t] /\ Children(w, t) = Children(l, t)
  <2>1. Typed(l) /\ Z \in Seq(Kid)
    BY <1>0, <1>1
  <2> HIDE DEF f, A, n, B, T
  <2>2. LET v == WithChildren(l, s, Z)
        IN /\ v.root = l.root /\ v = Layout(v.root, v.splits) /\ Splits(v) = Splits(l)
           /\ v.splits = [t \in Splits(v) |-> v.splits[t]]
           /\ Children(v, s) = Z /\ v.splits[s].axis = l.splits[s].axis
           /\ v.splits[s] = [axis |-> v.splits[s].axis, children |-> Z]
           /\ \A t \in Splits(l) : t # s => v.splits[t] = l.splits[t] /\ Children(v, t) = Children(l, t)
    BY <2>1, WithChildrenIs
  <2> QED BY <2>2
<1>3. Dissolved(l, s, i, Z) = m
  <2>1. DOMAIN w.splits = Splits(l)
    BY <1>2 DEF Splits
  <2>2. Forget(w.splits, n) = f
    BY <2>1 DEF Forget
  <2>3. w.root = l.root
    BY <1>2
  <2> HIDE DEF f, w
  <2> QED BY <2>2, <2>3 DEF Dissolved, w
<1>4. n # s /\ n \in KidsOn(l)[s] /\ KidsOn(l)[s] = NodesOf(A) /\ KidsOn(l)[n] = NodesOf(B)
  <2> HIDE DEF w, f
  <2>1. n # s /\ n \in NodesOf(A)
    BY Held
  <2>2. KidsOn(l)[s] = NodesOf(A) /\ KidsOn(l)[n] = NodesOf(B)
    BY <1>0, SplitIs
  <2> QED BY <2>1, <2>2
<1> HIDE DEF w
<1>5. m.root = l.root /\ m.splits = f /\ m = Layout(m.root, m.splits)
  BY <1>2 DEF Layout
<1> HIDE DEF m
<1>6. Splits(m) = T /\ \A t \in T : m.splits[t] = w.splits[t] /\ Children(m, t) = Children(w, t)
  BY <1>5 DEF Splits, Children
<1>7. s \in T /\ Children(m, s) = Z /\ m.splits[s].axis = l.splits[s].axis
      /\ \A t \in T : t # s => m.splits[t] = l.splits[t] /\ Children(m, t) = Children(l, t)
  BY <1>2, <1>4, <1>6
<1> HIDE DEF A, n, B, T
<1>8. NodesOf(Z) = (NodesOf(A) \ {n}) \cup NodesOf(B)
  <2>1. i \in 1..Len(A) /\ A[i].node = n
    BY DEF A, n
  <2> QED BY <1>1, <2>1, JoinsNodes
<1>9. Distinct(Z)
  <2>1. ASSUME NEW j \in 1..Len(A), j # i PROVE A[j].node \notin NodesOf(B)
    <3>1. A[j].node \in NodesOf(A)
      BY DEF NodesOf
    <3>2. A[j].node \in KidsOn(l)[s] /\ KidsOn(l)[n] = NodesOf(B)
      BY <1>4, <3>1
    <3> QED BY <1>0, <1>4, <3>2 DEF Frame
  <2>2. i \in 1..Len(A)
    BY DEF A
  <2> QED BY <1>1, <2>1, <2>2, JoinsDistinct
<1>10. \A t \in T : KidsOn(m)[t] = IF t = s THEN (KidsOn(l)[s] \ {n}) \cup KidsOn(l)[n] ELSE KidsOn(l)[t]
  <2>1. ASSUME NEW t \in T PROVE KidsOn(m)[t] = NodesOf(Children(m, t))
    BY <1>6 DEF KidsOn
  <2>2. ASSUME NEW t \in T PROVE t \in Splits(l) /\ KidsOn(l)[t] = NodesOf(Children(l, t))
    BY <1>0, SplitIs DEF T
  <2> QED BY <1>4, <1>7, <1>8, <2>1, <2>2
<1>11. /\ Frame(l.root, T, KidsOn(m))
       /\ NodesIn(l.root, T, KidsOn(m)) = NodesIn(l.root, Splits(l), KidsOn(l)) \ {n}
  <2> DEFINE K == KidsOn(l) L == KidsOn(m) S == Splits(l) r == l.root
  <2>1. KidsDissolved(S, K, s, n, L)
    BY <1>10 DEF T, KidsDissolved
  <2>2. Frame(r, S, K) /\ s \in S /\ n \in S /\ n \in K[s]
    BY <1>0, <1>4
  <2> HIDE DEF K, L, S, r
  <2>3. Frame(r, S \ {n}, L)
    BY <2>1, <2>2, FrameDissolved
  <2>4. NodesIn(r, S \ {n}, L) = NodesIn(r, S, K) \ {n}
    BY <2>1, <2>2, FrameDissolved
  <2> QED BY <2>3, <2>4 DEF K, L, S, r, T
<1>12. Tree(m)
  <2>1. IsFiniteSet(Splits(m))
    <3>1. IsFiniteSet(Splits(l)) /\ T \subseteq Splits(l)
      BY <1>0 DEF Typed, T
    <3> QED BY <1>6, <3>1, FS_Subset
  <2>2. ASSUME NEW t \in T
        PROVE  /\ m.splits[t] = [axis |-> m.splits[t].axis, children |-> Children(m, t)]
               /\ m.splits[t].axis \in Axes /\ Children(m, t) \in Seq(Kid) /\ Distinct(Children(m, t))
    <3>1. t \in Splits(l)
      BY DEF T
    <3>2. CASE t = s
      BY <1>0, <1>1, <1>2, <1>6, <1>7, <1>9, <3>1, <3>2, SplitIs
    <3>3. CASE t # s
      <4>1. Distinct(Children(l, t))
        BY <3>1 DEF Tree
      <4> QED BY <1>0, <1>7, <3>1, <3>3, <4>1, SplitIs
    <3> QED BY <3>2, <3>3
  <2>3. m.splits = [t \in Splits(m) |-> m.splits[t]]
    BY <1>5, <1>6
  <2>4. m.root \in Ends
    BY <1>0, <1>5 DEF Typed
  <2> QED BY <1>5, <1>6, <1>11, <2>1, <2>2, <2>3, <2>4, IsTree
<1>13. PanesOf(m) = PanesOf(l)
  <2>1. Nodes(m) = NodesIn(l.root, T, KidsOn(m)) /\ Nodes(l) = NodesIn(l.root, Splits(l), KidsOn(l))
    BY <1>0, <1>5, <1>6, <1>12, NodesAre DEF Tree
  <2>2. Nodes(m) = Nodes(l) \ {n}
    BY <1>11, <2>1
  <2> QED BY <1>0, <1>6, <2>2 DEF PanesOf, T
<1> QED BY <1>3, <1>4, <1>5, <1>6, <1>7, <1>8, <1>12, <1>13 DEF A, n, B, T

\* The nodes of a tree are its panes and its splits.
LEMMA TreeNodes ==
  ASSUME NEW l, Tree(l)
  PROVE  /\ Splits(l) \subseteq SplitIds /\ Splits(l) \subseteq Nodes(l)
         /\ Nodes(l) = PanesOf(l) \cup Splits(l)
         /\ \A x \in PanesOf(l) : x \notin SplitIds
         /\ Splits(l) # {} => l.root \in Splits(l)
         /\ \A s \in Splits(l) : NodesOf(Children(l, s)) \subseteq Nodes(l)
<1> DEFINE r == l.root S == Splits(l) K == KidsOn(l) N == NodesIn(r, S, K)
<1>1. Typed(l) /\ Frame(r, S, K)
  BY DEF Tree
<1>2. Nodes(l) = N /\ \A s \in S : K[s] = NodesOf(Children(l, s))
  BY <1>1, NodesAre, SplitIs
<1> HIDE DEF r, S, K
<1>3. \A x : x \in N <=> x = r \/ \E s \in S : x \in K[s]
  BY InNodes
<1>4. S \subseteq SplitIds /\ S \subseteq N
  BY <1>1, <1>3 DEF Frame
<1>5. \A x \in N : x \in SplitIds => x \in S
  BY <1>1, <1>3 DEF Frame
<1>6. S # {} => r \in S
  BY <1>1, RootIsSplit
<1>7. \A s \in S : K[s] \subseteq N
  BY <1>3
<1> HIDE DEF N
<1>8. PanesOf(l) = N \ S
  BY <1>2 DEF PanesOf, S
<1> QED BY <1>2, <1>4, <1>5, <1>6, <1>7, <1>8 DEF r, S

\* A node is held once, and not by what it holds.
LEMMA OneHolder ==
  ASSUME NEW l, Tree(l), NEW s \in Splits(l), NEW x \in NodesOf(Children(l, s))
  PROVE  /\ x # l.root /\ x # s
         /\ \A t \in Splits(l) : x \in NodesOf(Children(l, t)) => t = s
         /\ x \in Splits(l) => s \notin NodesOf(Children(l, x))
<1> DEFINE r == l.root S == Splits(l) K == KidsOn(l)
<1>1. Typed(l) /\ Frame(r, S, K)
  BY DEF Tree
<1>2. \A t \in S : K[t] = NodesOf(Children(l, t))
  BY <1>1, SplitIs
<1> HIDE DEF r, S, K
<1>3. s \in S /\ x \in K[s]
  BY <1>2 DEF S
<1>4. x # r /\ \A t \in S : x \in K[t] => t = s
  BY <1>1, <1>3 DEF Frame
<1>5. x \in S => x # s /\ s \notin K[x]
  BY <1>1, <1>3, NoLoop
<1> QED BY <1>2, <1>3, <1>4, <1>5 DEF r, S

\* The children of a split of a tree, by place and by node.
LEMMA LengthIs ==
  ASSUME NEW l, Tree(l), NEW s \in Splits(l)
  PROVE  /\ Children(l, s) \in Seq(Kid) /\ Len(Children(l, s)) \in Nat
         /\ \A x \in NodesOf(Children(l, s)) : \E i \in 1..Len(Children(l, s)) : Children(l, s)[i].node = x
         /\ \A i \in 1..Len(Children(l, s)) : Children(l, s)[i].node \in NodesOf(Children(l, s))
<1>1. Children(l, s) \in Seq(Kid)
  BY SplitIs DEF Tree
<1>2. Len(Children(l, s)) \in Nat
  BY <1>1, KidsOf
<1> QED BY <1>1, <1>2 DEF NodesOf

(* Whether a split could be one with its holder: on the axes and the lengths.  *)
LEMMA MergesOn ==
  ASSUME NEW l, NEW s, NEW x, NEW m, NEW t,
         Merges(l, s, x), x \in Splits(m), m.splits[x].axis = l.splits[x].axis,
         m.splits[t].axis = l.splits[s].axis,
         Len(Children(l, s)) \in Nat, Len(Children(l, x)) \in Nat,
         Len(Children(m, t)) \in Nat, Len(Children(m, x)) \in Nat,
         Len(Children(m, t)) <= Len(Children(l, s)), Len(Children(m, x)) <= Len(Children(l, x))
  PROVE  Merges(m, t, x)
<1>1. Len(Children(l, s)) + Len(Children(l, x)) - 1 <= MaxSplitChildren /\ MaxSplitChildren \in Nat
  BY SplitAssumption DEF Merges
<1>2. Len(Children(m, t)) + Len(Children(m, x)) - 1 <= MaxSplitChildren
  BY <1>1
<1> QED BY <1>2 DEF Merges

(* m is l settled: the same panes, and no other splits. *)
Settles(l, m) ==
    Sound(m) /\ m.root = l.root /\ Splits(m) \subseteq Splits(l) /\ PanesOf(m) = PanesOf(l)

(* A flatten that happens: what it leaves. *)
LEMMA FlattenIs ==
  ASSUME NEW l, Tree(l), NEW s \in Splits(l), NEW i \in 1..Len(Children(l, s)),
         Merges(l, s, Children(l, s)[i].node),
         Full(Children(l, s)), Full(Children(l, Children(l, s)[i].node))
  PROVE  LET A == Children(l, s)
             n == A[i].node
             B == Children(l, n)
             m == Flattened(l, s, i)
         IN /\ Tree(m) /\ m.root = l.root /\ Splits(m) = Splits(l) \ {n} /\ s \in Splits(m) /\ n # s
            /\ Joins(A, i, B, Children(m, s)) /\ Full(Children(m, s)) /\ m.splits[s].axis = l.splits[s].axis
            /\ \A t \in Splits(m) : t # s => m.splits[t] = l.splits[t] /\ Children(m, t) = Children(l, t)
            /\ NodesOf(Children(m, s)) = (NodesOf(A) \ {n}) \cup NodesOf(B)
            /\ PanesOf(m) = PanesOf(l)
<1> DEFINE A == Children(l, s) n == A[i].node B == Children(l, n)
           Z == Rebalanced(Spliced(A, i, Scaled(B, A[i].weight)))
           m == Dissolved(l, s, i, Z)
<1>1. n \in Splits(l) /\ Len(A) + Len(B) - 1 <= MaxSplitChildren
  BY DEF Merges
<1>2. A \in Seq(Kid) /\ B \in Seq(Kid) /\ Full(A) /\ Full(B)
  BY <1>1, LengthIs
<1>3. Joins(A, i, B, Z) /\ Full(Z)
  <2> HIDE DEF A, B
  <2>1. i \in 1..Len(A)
    BY DEF A
  <2> QED BY <1>1, <1>2, <2>1, FlattenFits
<1>4. Flattened(l, s, i) = m
  BY DEF Flattened
<1> HIDE DEF Z
<1>5. /\ Tree(m) /\ m.root = l.root /\ Splits(m) = Splits(l) \ {n} /\ s \in Splits(m) /\ n # s
      /\ Children(m, s) = Z /\ m.splits[s].axis = l.splits[s].axis
      /\ \A t \in Splits(m) : t # s => m.splits[t] = l.splits[t] /\ Children(m, t) = Children(l, t)
      /\ NodesOf(Z) = (NodesOf(A) \ {n}) \cup NodesOf(B)
      /\ PanesOf(m) = PanesOf(l)
  BY <1>1, <1>3, DissolvedIs
<1> HIDE DEF A, B, n, m
<1> QED BY <1>3, <1>4, <1>5 DEF A, B, n

(* A flatten makes no room: what could be one after it could before. *)
LEMMA FlattenMerges ==
  ASSUME NEW l, Tree(l), NEW s \in Splits(l), NEW i \in 1..Len(Children(l, s)),
         Merges(l, s, Children(l, s)[i].node), \A t \in Splits(l) : Full(Children(l, t))
  PROVE  LET n == Children(l, s)[i].node
             m == Flattened(l, s, i)
         IN /\ \A t \in Splits(m) : Full(Children(m, t))
            /\ \A t \in Splits(m) : \A x \in NodesOf(Children(m, t)) : t # s /\ Merges(m, t, x) => Merges(l, t, x)
            /\ \A x \in NodesOf(Children(l, s)) : Merges(m, s, x) => Merges(l, s, x)
            /\ \A x \in NodesOf(Children(l, n)) : Merges(m, s, x) => Merges(l, n, x)
            /\ Len(Children(m, s)) = Len(Children(l, s)) + Len(Children(l, n)) - 1
<1> DEFINE A == Children(l, s) n == A[i].node B == Children(l, n) m == Flattened(l, s, i)
<1>1. n \in Splits(l) /\ l.splits[n].axis = l.splits[s].axis
  BY DEF Merges
<1>2. /\ Tree(m) /\ Splits(m) = Splits(l) \ {n} /\ s \in Splits(m) /\ n # s
      /\ Joins(A, i, B, Children(m, s)) /\ Full(Children(m, s)) /\ m.splits[s].axis = l.splits[s].axis
      /\ \A t \in Splits(m) : t # s => m.splits[t] = l.splits[t] /\ Children(m, t) = Children(l, t)
  BY <1>1, FlattenIs
<1>3. Len(A) \in Nat /\ Len(B) \in Nat /\ Len(A) >= 2 /\ Len(B) >= 2
  BY <1>1, LengthIs DEF Full
<1>4. Len(Children(m, s)) = Len(A) + Len(B) - 1
  BY <1>2 DEF Joins
<1> HIDE DEF A, n, B, m
<1>5. Len(Children(m, s)) >= Len(A) /\ Len(Children(m, s)) >= Len(B)
  BY <1>3, <1>4
<1>6. ASSUME NEW x, x \in Splits(m)
      PROVE  /\ x \in Splits(l) /\ x # n /\ l.splits[x].axis = m.splits[x].axis
             /\ Len(Children(l, x)) \in Nat /\ Len(Children(m, x)) \in Nat
             /\ Len(Children(l, x)) <= Len(Children(m, x))
  <2>1. x \in Splits(l) /\ x # n
    BY <1>2, <1>6
  <2>2. Len(Children(l, x)) \in Nat /\ Len(Children(m, x)) \in Nat
    BY <1>2, <1>6, <2>1, LengthIs
  <2>3. CASE x = s
    BY <1>2, <1>5, <2>1, <2>2, <2>3 DEF A
  <2>4. CASE x # s
    <3>1. m.splits[x] = l.splits[x] /\ Children(m, x) = Children(l, x)
      BY <1>2, <1>6, <2>4
    <3> QED BY <2>1, <2>2, <3>1
  <2> QED BY <2>3, <2>4
<1>7. ASSUME NEW t \in Splits(m), NEW x, Merges(m, t, x), t # s PROVE Merges(l, t, x)
  <2>1. x \in Splits(m)
    BY <1>7 DEF Merges
  <2>2. l.splits[t].axis = m.splits[t].axis /\ Len(Children(l, t)) <= Len(Children(m, t))
        /\ Len(Children(l, t)) \in Nat /\ Len(Children(m, t)) \in Nat
    BY <1>6
  <2> QED BY <1>6, <1>7, <2>1, <2>2, MergesOn
<1>8. ASSUME NEW x, Merges(m, s, x) PROVE Merges(l, s, x) /\ Merges(l, n, x)
  <2>1. x \in Splits(m)
    BY <1>8 DEF Merges
  <2>2. Len(Children(m, s)) \in Nat /\ m.splits[s].axis = l.splits[s].axis /\ m.splits[s].axis = l.splits[n].axis
    BY <1>1, <1>2, LengthIs
  <2>3. Merges(l, s, x)
    BY <1>3, <1>5, <1>6, <1>8, <2>1, <2>2, MergesOn DEF A
  <2>4. Merges(l, n, x)
    BY <1>3, <1>5, <1>6, <1>8, <2>1, <2>2, MergesOn DEF B
  <2> QED BY <2>3, <2>4
<1>9. \A t \in Splits(m) : Full(Children(m, t))
  <2> SUFFICES ASSUME NEW t \in Splits(m) PROVE Full(Children(m, t))
    OBVIOUS
  <2>1. CASE t = s
    BY <1>2, <2>1
  <2>2. CASE t # s
    BY <1>2, <1>6, <2>2
  <2> QED BY <2>1, <2>2
<1> QED BY <1>4, <1>7, <1>8, <1>9 DEF A, n, B, m

(* One split that could be one with its holder: it is, and the layout is sound. *)
LEMMA FlattenSettles ==
  ASSUME NEW l, NEW s \in Splits(l), NEW i \in 1..Len(Children(l, s)),
         Almost(l, Children(l, s)[i].node)
  PROVE  Settles(l, Flattened(l, s, i)) /\ s \in Splits(Flattened(l, s, i))
<1> DEFINE A == Children(l, s) n == A[i].node B == Children(l, n) m == Flattened(l, s, i)
<1>1. /\ Tree(l) /\ \A t \in Splits(l) : Full(Children(l, t))
      /\ \A t \in Splits(l) : \A x \in NodesOf(Children(l, t)) : x # n => ~Merges(l, t, x)
  BY DEF Almost
<1>2. n \in NodesOf(A)
  BY <1>1, LengthIs
<1>3. \A t \in Splits(l) : n \in NodesOf(Children(l, t)) => t = s
  BY <1>1, <1>2, OneHolder
<1>4. CASE ~Merges(l, s, n)
  <2>1. m = l
    BY <1>4 DEF Flattened
  <2>2. \A t \in Splits(l) : \A x \in NodesOf(Children(l, t)) : ~Merges(l, t, x)
    BY <1>1, <1>3, <1>4
  <2> HIDE DEF A, n, B, m
  <2>3. Sound(l)
    BY <1>1, <2>2 DEF Sound
  <2>4. Settles(l, m) /\ s \in Splits(m)
    BY <2>1, <2>3 DEF Settles
  <2> QED BY <2>4 DEF m
<1>5. CASE Merges(l, s, n)
  <2>1. n \in Splits(l)
    BY <1>5 DEF Merges
  <2>2. /\ Tree(m) /\ m.root = l.root /\ Splits(m) = Splits(l) \ {n} /\ s \in Splits(m) /\ n # s
        /\ \A t \in Splits(m) : t # s => m.splits[t] = l.splits[t] /\ Children(m, t) = Children(l, t)
        /\ NodesOf(Children(m, s)) = (NodesOf(A) \ {n}) \cup NodesOf(B)
        /\ PanesOf(m) = PanesOf(l)
    BY <1>1, <1>5, <2>1, FlattenIs
  <2>3. /\ \A t \in Splits(m) : Full(Children(m, t))
        /\ \A t \in Splits(m) : \A x \in NodesOf(Children(m, t)) : t # s /\ Merges(m, t, x) => Merges(l, t, x)
        /\ \A x \in NodesOf(A) : Merges(m, s, x) => Merges(l, s, x)
        /\ \A x \in NodesOf(B) : Merges(m, s, x) => Merges(l, n, x)
    BY <1>1, <1>5, FlattenMerges
  <2>4. n \notin NodesOf(B)
    BY <1>1, <1>2, <2>1, <2>2, OneHolder
  <2> HIDE DEF A, n, B, m
  <2>5. ASSUME NEW t \in Splits(m), NEW x \in NodesOf(Children(m, t)) PROVE ~Merges(m, t, x)
    <3>1. CASE t # s
      <4>1. t \in Splits(l) /\ x \in NodesOf(Children(l, t)) /\ x # n
        BY <1>3, <2>2, <3>1
      <4> QED BY <1>1, <2>3, <3>1, <4>1
    <3>2. CASE t = s
      <4>1. \/ x \in NodesOf(A) /\ x # n
            \/ x \in NodesOf(B) /\ x # n
        BY <2>2, <2>4, <3>2
      <4>2. x \in NodesOf(A) /\ x # n => ~Merges(l, s, x)
        BY <1>1 DEF A
      <4>3. x \in NodesOf(B) /\ x # n => ~Merges(l, n, x)
        BY <1>1, <2>1 DEF B
      <4> QED BY <2>3, <3>2, <4>1, <4>2, <4>3
    <3> QED BY <3>1, <3>2
  <2>6. Settles(l, m) /\ s \in Splits(m)
    BY <2>2, <2>3, <2>5 DEF Settles, Sound
  <2> QED BY <2>6 DEF m
<1> QED BY <1>4, <1>5

\* Where every split has two children, normalizing is flattening.
LEMMA NormalizeIs ==
  ASSUME NEW l, NEW s \in Splits(l), NEW i \in 1..Len(Children(l, s)),
         \A t \in Splits(l) : Full(Children(l, t))
  PROVE  NormalizeChild(l, s, i) = Flattened(l, s, i)
<1> DEFINE n == Children(l, s)[i].node
<1>1. ~(n \in Splits(l) /\ Len(Children(l, n)) = 1)
  <2>1. ASSUME n \in Splits(l) PROVE Len(Children(l, n)) # 1
    <3> DEFINE k == Len(Children(l, n))
    <3>1. k \in 2..MaxSplitChildren
      BY <2>1 DEF Full
    <3> HIDE DEF k
    <3>2. k # 1
      BY <3>1, SplitAssumption
    <3> QED BY <3>2 DEF k
  <2> QED BY <2>1
<1>2. Collapsed(l, s, i) = l
  BY <1>1 DEF Collapsed
<1> QED BY <1>2 DEF NormalizeChild

\* A sound layout has nothing to normalize.
LEMMA SoundStays ==
  ASSUME NEW l, Sound(l), NEW s \in Splits(l), NEW i \in 1..Len(Children(l, s))
  PROVE  NormalizeChild(l, s, i) = l
<1>1. Tree(l) /\ \A t \in Splits(l) : Full(Children(l, t))
  BY DEF Sound
<1>2. Children(l, s)[i].node \in NodesOf(Children(l, s))
  BY <1>1, LengthIs
<1>3. ~Merges(l, s, Children(l, s)[i].node)
  BY <1>2 DEF Sound
<1>4. Flattened(l, s, i) = l
  BY <1>3 DEF Flattened
<1> QED BY <1>1, <1>4, NormalizeIs

\* Where one split alone could be one with its holder, normalizing it leaves a sound
\* layout.
LEMMA NormalizeSettles ==
  ASSUME NEW l, NEW s \in Splits(l), NEW i \in 1..Len(Children(l, s)),
         Almost(l, Children(l, s)[i].node)
  PROVE  Settles(l, NormalizeChild(l, s, i)) /\ s \in Splits(NormalizeChild(l, s, i))
<1>1. \A t \in Splits(l) : Full(Children(l, t))
  BY DEF Almost
<1>2. NormalizeChild(l, s, i) = Flattened(l, s, i)
  BY <1>1, NormalizeIs
<1> QED BY <1>2, FlattenSettles

-----------------------------------------------------------------------------
(* Steps from a first value: they are defined, and what each step keeps, all   *)
(* of them have.                                                              *)

\* What the first value has and each step keeps, all have.
LEMMA Along ==
  ASSUME NEW n \in Nat, NEW U, NEW f, f[0] \in U[0],
         \A i \in 1..n : f[i - 1] \in U[i - 1] => f[i] \in U[i]
  PROVE  \A i \in 0..n : f[i] \in U[i]
<1> DEFINE Bad == {i \in 0..n : f[i] \notin U[i]}
<1>1. Bad = {}
  <2> SUFFICES ASSUME Bad # {} PROVE FALSE
    OBVIOUS
  <2>1. PICK m \in Bad : \A k \in Bad : m <= k
    <3>1. Bad \subseteq Nat
      OBVIOUS
    <3> HIDE DEF Bad
    <3> QED BY <3>1, LeastOf
  <2>2. m \in 1..n /\ m - 1 \in 0..n /\ ~(m <= m - 1)
    BY <2>1
  <2>3. f[m - 1] \in U[m - 1]
    BY <2>1, <2>2
  <2> QED BY <2>1, <2>2, <2>3
<1> QED BY <1>1

Leads(n, U, g) == \A i \in 1..n : \A u \in U[i - 1] : g[u] \in U[i]
Steps(f, n, a, g) == f = [i \in 0..n |-> IF i = 0 THEN a ELSE g[f[i - 1]]]

\* A function of steps from a first value exists, and what each step keeps, all values
\* have.
LEMMA Iterates ==
  ASSUME NEW n \in Nat, NEW U, NEW g, NEW a \in U[0], Leads(n, U, g)
  PROVE  \E f : Steps(f, n, a, g) /\ \A i \in 0..n : f[i] \in U[i]
<1> DEFINE To(j, f) == f[0] = a /\ \A i \in 1..j : f[i] = g[f[i - 1]]
           Good(j) == \E f : To(j, f)
           Bad == {j \in 0..n : ~Good(j)}
<1>1. Bad = {}
  <2> SUFFICES ASSUME Bad # {} PROVE FALSE
    OBVIOUS
  <2>1. PICK m \in Bad : \A j \in Bad : m <= j
    <3>1. Bad \subseteq Nat
      OBVIOUS
    <3> HIDE DEF Bad
    <3> QED BY <3>1, LeastOf
  <2>2. m # 0
    <3> DEFINE z == [i \in 0..0 |-> a]
    <3>1. z[0] = a /\ \A i \in 1..0 : z[i] = g[z[i - 1]]
      OBVIOUS
    <3> HIDE DEF z
    <3>2. Good(0)
      BY <3>1
    <3> QED BY <2>1, <3>2
  <2>3. m \in 1..n /\ m - 1 \in 0..n /\ ~(m <= m - 1) /\ m \in Nat
    BY <2>1, <2>2
  <2>4. Good(m - 1)
    <3> HIDE DEF Good
    <3> QED BY <2>1, <2>3
  <2>5. PICK f : f[0] = a /\ \A i \in 1..(m - 1) : f[i] = g[f[i - 1]]
    BY <2>4
  <2> DEFINE h == [i \in 0..m |-> IF i = m THEN g[f[m - 1]] ELSE f[i]]
  <2>6. h[0] = a
    BY <2>3, <2>5
  <2>7. ASSUME NEW i \in 1..m PROVE h[i] = g[h[i - 1]]
    <3>1. i \in 0..m /\ i - 1 \in 0..m /\ i - 1 # m
      BY <2>3
    <3>2. h[i - 1] = f[i - 1]
      BY <3>1
    <3>3. CASE i = m
      BY <3>1, <3>2, <3>3
    <3>4. CASE i # m
      <4>1. i \in 1..(m - 1) /\ h[i] = f[i]
        BY <2>3, <3>1, <3>4
      <4> QED BY <2>5, <3>2, <4>1
    <3> QED BY <3>3, <3>4
  <2> HIDE DEF h
  <2>8. Good(m)
    BY <2>6, <2>7
  <2> QED BY <2>1, <2>8
<1>2. PICK e : e[0] = a /\ \A i \in 1..n : e[i] = g[e[i - 1]]
  <2>1. Good(n)
    <3> HIDE DEF Good
    <3>1. n \in 0..n
      OBVIOUS
    <3> QED BY <1>1, <3>1
  <2> QED BY <2>1
<1> DEFINE f == [i \in 0..n |-> e[i]]
<1>3. \A i \in 0..n : f[i] = IF i = 0 THEN a ELSE g[f[i - 1]]
  <2> SUFFICES ASSUME NEW i \in 0..n PROVE f[i] = IF i = 0 THEN a ELSE g[f[i - 1]]
    OBVIOUS
  <2>1. CASE i = 0
    BY <1>2, <2>1
  <2>2. CASE i # 0
    <3>1. i \in 1..n /\ i - 1 \in 0..n
      BY <2>2
    <3>2. f[i] = e[i] /\ f[i - 1] = e[i - 1]
      BY <3>1
    <3> QED BY <1>2, <2>2, <3>1, <3>2
  <2> QED BY <2>1, <2>2
<1>4. f = [i \in 0..n |-> f[i]]
  OBVIOUS
<1> HIDE DEF f
<1>5. f = [i \in 0..n |-> IF i = 0 THEN a ELSE g[f[i - 1]]]
  BY <1>3, <1>4
<1>6. f[0] \in U[0] /\ \A i \in 1..n : f[i - 1] \in U[i - 1] => f[i] \in U[i]
  <2>1. ASSUME NEW i \in 1..n, f[i - 1] \in U[i - 1] PROVE f[i] \in U[i]
    <3>1. i \in 0..n /\ i # 0
      OBVIOUS
    <3>2. f[i] = g[f[i - 1]]
      BY <1>3, <3>1
    <3> QED BY <2>1, <3>2 DEF Leads
  <2>2. f[0] = a
    <3>1. 0 \in 0..n
      OBVIOUS
    <3> QED BY <1>3, <3>1
  <2> QED BY <2>1, <2>2
<1>7. \A i \in 0..n : f[i] \in U[i]
  BY <1>6, Along
<1> QED BY <1>5, <1>7 DEF Steps

AllLayouts == [root : Ends, splits : UNION {[S -> Split] : S \in SUBSET SplitIds}]

\* Trees are members of a set, as the values of a function of steps have to be.
LEMMA TreeIn ==
  ASSUME NEW l, Tree(l)
  PROVE  l \in AllLayouts
<1> DEFINE r == l.root f == l.splits S == Splits(l)
<1>1. l = [root |-> r, splits |-> f] /\ r \in Ends /\ f \in [S -> Split]
  BY DEF Tree, Typed, Layout
<1>2. S \in SUBSET SplitIds
  BY DEF Tree, Frame
<1> HIDE DEF r, f, S
<1>3. f \in UNION {[T -> Split] : T \in SUBSET SplitIds}
  BY <1>1, <1>2
<1> QED BY <1>1, <1>3 DEF AllLayouts

-----------------------------------------------------------------------------
(* The children of a split that has lost one, from the first to the last.      *)

(* All is well but for what s holds from its k-th child on, and s itself.      *)
Swept(l, s, k) ==
    /\ Tree(l) /\ s \in Splits(l) /\ \A t \in Splits(l) : Full(Children(l, t))
    /\ \A t \in Splits(l) : \A x \in NodesOf(Children(l, t)) : t # s /\ x # s => ~Merges(l, t, x)
    /\ k \in Nat /\ k >= 1
    /\ \A j \in 1..Len(Children(l, s)) : j < k => ~Merges(l, s, Children(l, s)[j].node)

KeepsPanes(l, m) == m.root = l.root /\ Splits(m) \subseteq Splits(l) /\ PanesOf(m) = PanesOf(l)

\* One child of the sweep: those before it can not be one with the split, and the next
\* index is the next child's.
LEMMA SweepStep ==
  ASSUME NEW l, NEW s, NEW k \in 1..Len(Children(l, s)), Swept(l, s, k)
  PROVE  LET m == NormalizeChild(l, s, k)
             next == k + 1 + Len(Children(m, s)) - Len(Children(l, s))
         IN Swept(m, s, next) /\ KeepsPanes(l, m) /\ Len(Children(m, s)) - next = Len(Children(l, s)) - k - 1
<1> DEFINE A == Children(l, s) n == A[k].node B == Children(l, n) m == Flattened(l, s, k)
           C == Children(m, s) next == k + 1 + Len(C) - Len(A)
<1>1. /\ Tree(l) /\ s \in Splits(l) /\ \A t \in Splits(l) : Full(Children(l, t))
      /\ \A t \in Splits(l) : \A x \in NodesOf(Children(l, t)) : t # s /\ x # s => ~Merges(l, t, x)
      /\ k \in Nat /\ k >= 1
      /\ \A j \in 1..Len(A) : j < k => ~Merges(l, s, A[j].node)
  BY DEF Swept
<1>2. NormalizeChild(l, s, k) = m
  BY <1>1, NormalizeIs
<1>3. A \in Seq(Kid) /\ Len(A) \in Nat /\ n \in NodesOf(A)
  BY <1>1, LengthIs
<1>4. CASE ~Merges(l, s, n)
  <2>1. m = l
    BY <1>4 DEF Flattened
  <2> HIDE DEF m
  <2>2. C = A
    BY <2>1
  <2>3. next = k + 1 /\ next \in Nat /\ next >= 1
    BY <1>1, <1>3, <2>2
  <2>4. ASSUME NEW j \in 1..Len(A), j < next PROVE ~Merges(l, s, A[j].node)
    <3>1. j < k \/ j = k
      BY <1>1, <1>3, <2>3, <2>4
    <3> QED BY <1>1, <1>4, <3>1
  <2>5. Len(C) - next = Len(A) - k - 1
    BY <1>1, <1>3, <2>2, <2>3
  <2> HIDE DEF next, C
  <2>6. Swept(l, s, next) /\ KeepsPanes(l, l)
    BY <1>1, <2>3, <2>4 DEF Swept, KeepsPanes
  <2> QED BY <1>2, <2>1, <2>5, <2>6 DEF next, C
<1>5. CASE Merges(l, s, n)
  <2>1. n \in Splits(l)
    BY <1>5 DEF Merges
  <2>2. /\ Tree(m) /\ m.root = l.root /\ Splits(m) = Splits(l) \ {n} /\ s \in Splits(m) /\ n # s
        /\ Joins(A, k, B, C)
        /\ \A t \in Splits(m) : t # s => m.splits[t] = l.splits[t] /\ Children(m, t) = Children(l, t)
        /\ PanesOf(m) = PanesOf(l)
    BY <1>1, <1>5, <2>1, FlattenIs
  <2>3. /\ \A t \in Splits(m) : Full(Children(m, t))
        /\ \A t \in Splits(m) : \A x \in NodesOf(Children(m, t)) : t # s /\ Merges(m, t, x) => Merges(l, t, x)
        /\ \A x \in NodesOf(A) : Merges(m, s, x) => Merges(l, s, x)
        /\ \A x \in NodesOf(B) : Merges(m, s, x) => Merges(l, n, x)
        /\ Len(C) = Len(A) + Len(B) - 1
    BY <1>1, <1>5, FlattenMerges
  <2>4. B \in Seq(Kid) /\ Len(B) \in Nat /\ Len(B) >= 2
    BY <1>1, <2>1, LengthIs DEF Full
  <2>5. s \notin NodesOf(B)
    BY <1>1, <1>3, <2>1, OneHolder
  <2> HIDE DEF A, n, B, m, C
  <2>6. next = k + Len(B) /\ next \in Nat /\ next >= 1 /\ Len(C) - next = Len(A) - k - 1
    BY <1>1, <1>3, <2>3, <2>4
  <2>7. ASSUME NEW j \in 1..Len(C), j < next PROVE ~Merges(m, s, C[j].node)
    <3>1. C[j].node = IF j < k THEN A[j].node
                      ELSE IF j < k + Len(B) THEN B[j - k + 1].node ELSE A[j - Len(B) + 1].node
      BY <2>2 DEF Joins
    <3>2. CASE j < k
      <4>1. j \in 1..Len(A) /\ C[j].node = A[j].node
        BY <1>1, <1>3, <3>1, <3>2 DEF A
      <4>2. A[j].node \in NodesOf(A)
        BY <4>1 DEF NodesOf
      <4> QED BY <1>1, <2>3, <3>2, <4>1, <4>2
    <3>3. CASE ~(j < k)
      <4>1. j < k + Len(B) /\ j - k + 1 \in 1..Len(B) /\ C[j].node = B[j - k + 1].node
        BY <1>1, <2>4, <2>6, <2>7, <3>1, <3>3
      <4>2. B[j - k + 1].node \in NodesOf(B)
        BY <4>1 DEF NodesOf
      <4>3. B[j - k + 1].node # s
        BY <2>5, <4>2
      <4>4. ~Merges(l, n, B[j - k + 1].node)
        BY <1>1, <2>1, <2>2, <4>2, <4>3 DEF B
      <4> QED BY <2>3, <4>1, <4>2, <4>4
    <3> QED BY <3>2, <3>3
  <2>8. ASSUME NEW t \in Splits(m), NEW x \in NodesOf(Children(m, t)), t # s, x # s PROVE ~Merges(m, t, x)
    <3>1. t \in Splits(l) /\ x \in NodesOf(Children(l, t))
      BY <2>2, <2>8
    <3> QED BY <1>1, <2>3, <2>8, <3>1
  <2> HIDE DEF next
  <2>9. Swept(m, s, next)
    BY <2>2, <2>3, <2>6, <2>7, <2>8 DEF Swept, C
  <2>10. KeepsPanes(l, m)
    BY <2>2 DEF KeepsPanes
  <2> QED BY <1>2, <2>6, <2>9, <2>10 DEF next, A, C
<1> QED BY <1>4, <1>5

(* A split that keeps several children: at most the split itself could be one  *)
(* with its holder afterwards.                                                *)
LEMMA SweepSettles ==
  ASSUME NEW l, NEW s, Swept(l, s, 1)
  PROVE  LET m == NormalizeAll(l, s) IN Almost(m, s) /\ s \in Splits(m) /\ KeepsPanes(l, m)
<1> DEFINE n == Len(Children(l, s))
           Step(last) ==
             LET before == Len(Children(last.layout, s))
                 next == NormalizeChild(last.layout, s, last.index)
             IN [layout |-> next, index |-> last.index + 1 + Len(Children(next, s)) - before]
           first == [layout |-> l, index |-> 1]
           Done(f) == f = [k \in 0..n |-> IF k = 0 THEN first ELSE Step(f[k - 1])]
           done == CHOOSE f : Done(f)
           X == [layout : AllLayouts, index : Nat]
           g == [u \in X |-> Step(u)]
           In(k, u) == /\ Swept(u.layout, s, u.index) /\ KeepsPanes(l, u.layout)
                       /\ Len(Children(u.layout, s)) - u.index + 1 = n - k
           U == [k \in 0..n |-> {u \in X : In(k, u)}]
<1>1. Tree(l) /\ s \in Splits(l) /\ Full(Children(l, s))
  BY DEF Swept
<1>2. n \in Nat /\ n > 1
  <2>1. n \in Nat
    BY <1>1, LengthIs
  <2>2. n \in 2..MaxSplitChildren
    BY <1>1 DEF Full
  <2> HIDE DEF n
  <2> QED BY <2>1, <2>2, SplitAssumption
<1>3. NormalizeAll(l, s) = done[n].layout
  <2>1. NormalizeAll(l, s) = IF n > 1 THEN done[n].layout ELSE l
    BY Zenon DEF NormalizeAll
  <2> HIDE DEF done, n
  <2> QED BY <1>2, <2>1
<1>4. first \in U[0]
  <2>1. l \in AllLayouts
    BY <1>1, TreeIn
  <2>2. first \in X /\ first.layout = l /\ first.index = 1
    BY <2>1
  <2>3. KeepsPanes(l, l)
    BY DEF KeepsPanes
  <2>4. n - 1 + 1 = n - 0 /\ 0 \in 0..n
    BY <1>2
  <2> HIDE DEF first
  <2>5. In(0, first)
    BY <2>2, <2>3, <2>4
  <2> HIDE DEF In, X
  <2> QED BY <2>2, <2>4, <2>5
<1>5. ASSUME NEW k \in 1..n, NEW u \in U[k - 1] PROVE Step(u) \in U[k] /\ u \in X
  <2> DEFINE a == u.layout b == u.index m == NormalizeChild(a, s, b)
             c == b + 1 + Len(Children(m, s)) - Len(Children(a, s)) w == Step(u)
  <2>1. k - 1 \in 0..n /\ k \in 0..n
    BY <1>2
  <2>2. u \in X /\ In(k - 1, u)
    <3> HIDE DEF In, X
    <3> QED BY <2>1
  <2>3. Swept(a, s, b) /\ KeepsPanes(l, a) /\ Len(Children(a, s)) - b + 1 = n - (k - 1)
    BY <2>2
  <2>4. Len(Children(a, s)) \in Nat /\ b \in Nat /\ b >= 1
    <3>1. Tree(a) /\ s \in Splits(a) /\ b \in Nat /\ b >= 1
      BY <2>3 DEF Swept
    <3> QED BY <3>1, LengthIs
  <2>5. b \in 1..Len(Children(a, s))
    <3> HIDE DEF a, b, n
    <3> QED BY <1>2, <2>3, <2>4
  <2>6. Swept(m, s, c) /\ KeepsPanes(a, m) /\ Len(Children(m, s)) - c = Len(Children(a, s)) - b - 1
    BY <2>3, <2>5, SweepStep
  <2>7. w.layout = m /\ w.index = c /\ w = [layout |-> m, index |-> c]
    OBVIOUS
  <2>8. m \in AllLayouts /\ c \in Nat
    <3>1. Tree(m) /\ c \in Nat
      BY <2>6 DEF Swept
    <3> QED BY <3>1, TreeIn
  <2>9. KeepsPanes(l, m)
    BY <2>3, <2>6 DEF KeepsPanes
  <2>10. Len(Children(m, s)) \in Nat
    <3>1. Tree(m) /\ s \in Splits(m)
      BY <2>6 DEF Swept
    <3> QED BY <3>1, LengthIs
  <2> HIDE DEF a, b, m, c, w
  <2>11. Len(Children(m, s)) - c + 1 = n - k
    <3> DEFINE p == Len(Children(a, s)) q == Len(Children(m, s))
    <3>1. p - b + 1 = n - (k - 1) /\ q - c = p - b - 1 /\ p \in Nat /\ q \in Nat /\ b \in Nat /\ c \in Nat
      BY <2>3, <2>4, <2>6, <2>8, <2>10
    <3> HIDE DEF n, p, q
    <3>2. q - c + 1 = n - k
      BY <1>2, <3>1
    <3> QED BY <3>2 DEF q
  <2>12. w \in X
    BY <2>7, <2>8
  <2>13. In(k, w)
    BY <2>6, <2>7, <2>9, <2>11
  <2> HIDE DEF X, In
  <2>14. w \in U[k]
    BY <2>1, <2>12, <2>13
  <2> QED BY <2>2, <2>14 DEF w
<1> HIDE DEF Step, In, X, first
<1>6. \A k \in 1..n : \A u \in U[k - 1] : g[u] \in U[k] /\ g[u] = Step(u)
  BY <1>5
<1> HIDE DEF g, U
<1>7. PICK d : Steps(d, n, first, g) /\ \A k \in 0..n : d[k] \in U[k]
  <2>1. Leads(n, U, g)
    BY <1>6 DEF Leads
  <2> HIDE DEF n
  <2> QED BY <1>2, <1>4, <2>1, Iterates
<1>8. Done(d)
  <2>1. \A k \in 0..n : k = 0 \/ (k \in 1..n /\ k - 1 \in 0..n)
    BY <1>2
  <2> HIDE DEF n
  <2>2. \A k \in 0..n : k # 0 => g[d[k - 1]] = Step(d[k - 1])
    BY <1>6, <1>7, <2>1
  <2>3. [k \in 0..n |-> IF k = 0 THEN first ELSE g[d[k - 1]]] = [k \in 0..n |-> IF k = 0 THEN first ELSE Step(d[k - 1])]
    BY <2>2
  <2> QED BY <1>7, <2>3 DEF Steps
<1>9. Done(done)
  <2> HIDE DEF Done
  <2> QED BY <1>8
<1> HIDE DEF done
<1>10. done[0] \in U[0] /\ \A k \in 1..n : done[k - 1] \in U[k - 1] => done[k] \in U[k]
  <2>1. \A k \in 0..n : done[k] = IF k = 0 THEN first ELSE Step(done[k - 1])
    <3> HIDE DEF n
    <3> QED BY <1>9
  <2>2. 0 \in 0..n /\ \A k \in 1..n : k # 0 /\ k \in 0..n
    BY <1>2
  <2> HIDE DEF n
  <2>3. done[0] = first /\ \A k \in 1..n : done[k] = Step(done[k - 1])
    BY <2>1, <2>2
  <2> QED BY <1>4, <1>6, <2>3
<1>11. done[n] \in U[n]
  <2>1. n \in 0..n
    BY <1>2
  <2> HIDE DEF n
  <2> QED BY <1>2, <1>10, <2>1, Along
<1> DEFINE m == done[n].layout i == done[n].index
<1>12. Swept(m, s, i) /\ KeepsPanes(l, m) /\ Len(Children(m, s)) - i + 1 = n - n
  <2>1. n \in 0..n
    BY <1>2
  <2> HIDE DEF n
  <2>2. In(n, done[n])
    BY <1>11, <2>1 DEF U
  <2> QED BY <2>2 DEF In
<1> HIDE DEF m, i
<1>13. \A j \in 1..Len(Children(m, s)) : j < i
  <2>1. Len(Children(m, s)) \in Nat /\ i \in Nat
    <3>1. Tree(m) /\ s \in Splits(m) /\ i \in Nat
      BY <1>12 DEF Swept
    <3> QED BY <3>1, LengthIs
  <2> HIDE DEF n
  <2> QED BY <1>2, <1>12, <2>1
<1>14. Almost(m, s) /\ s \in Splits(m)
  <2>1. /\ Tree(m) /\ s \in Splits(m) /\ \A t \in Splits(m) : Full(Children(m, t))
        /\ \A t \in Splits(m) : \A x \in NodesOf(Children(m, t)) : t # s /\ x # s => ~Merges(m, t, x)
        /\ \A j \in 1..Len(Children(m, s)) : ~Merges(m, s, Children(m, s)[j].node)
    BY <1>12, <1>13 DEF Swept
  <2>2. \A x \in NodesOf(Children(m, s)) : ~Merges(m, s, x)
    BY <2>1, LengthIs
  <2> QED BY <2>1, <2>2 DEF Almost
<1> QED BY <1>3, <1>12, <1>14 DEF m

-----------------------------------------------------------------------------
(* The splits above, from the one that held the pane.                         *)

Climb(f, n, first) == f = [k \in 0..n |-> IF k = 0 THEN first ELSE Up(f[k - 1])]

\* From the second layout on, nothing changes.
LEMMA ClimbRests ==
  ASSUME NEW n \in Nat, n >= 1, NEW first, NEW m, NEW C,
         Up(first) \in [layout : {m}, at : C],
         \A u \in [layout : {m}, at : C] : Up(u) \in [layout : {m}, at : C]
  PROVE  (\E f : Climb(f, n, first)) /\ \A f : Climb(f, n, first) => f[n].layout = m
<1> DEFINE X == [layout : {m}, at : C]
           g == [u \in X \cup {first} |-> Up(u)]
           U == [k \in 0..n |-> IF k = 0 THEN {first} ELSE X]
<1>1. first \in U[0]
  OBVIOUS
<1>2. ASSUME NEW k \in 1..n, NEW u \in U[k - 1] PROVE Up(u) \in U[k] /\ g[u] = Up(u)
  <2>1. k - 1 \in 0..n /\ k \in 0..n /\ k # 0
    OBVIOUS
  <2>2. u = first \/ u \in X
    BY <2>1
  <2>3. Up(u) \in X
    BY <2>2
  <2> HIDE DEF X
  <2> QED BY <2>1, <2>2, <2>3
<1> HIDE DEF g
<1>3. Leads(n, U, g)
  BY <1>2 DEF Leads
<1>4. \A k \in 0..n : k = 0 \/ (k # 0 /\ k \in 1..n)
  OBVIOUS
<1> HIDE DEF U
<1>5. PICK d : Steps(d, n, first, g) /\ \A k \in 0..n : d[k] \in U[k]
  BY <1>1, <1>3, Iterates
<1>6. Climb(d, n, first)
  <2>1. \A k \in 0..n : k \in 1..n => k - 1 \in 0..n
    OBVIOUS
  <2>2. \A k \in 0..n : k # 0 => g[d[k - 1]] = Up(d[k - 1])
    BY <1>2, <1>4, <1>5, <2>1
  <2>3. [k \in 0..n |-> IF k = 0 THEN first ELSE g[d[k - 1]]] = [k \in 0..n |-> IF k = 0 THEN first ELSE Up(d[k - 1])]
    BY <2>2
  <2> QED BY <1>5, <2>3 DEF Steps, Climb
<1>7. ASSUME NEW f, Climb(f, n, first) PROVE f[n].layout = m
  <2>1. \A k \in 0..n : f[k] = IF k = 0 THEN first ELSE Up(f[k - 1])
    BY <1>7 DEF Climb
  <2>2. f[0] \in U[0] /\ \A k \in 1..n : f[k - 1] \in U[k - 1] => f[k] \in U[k]
    <3>1. \A k \in 1..n : k \in 0..n /\ k # 0
      OBVIOUS
    <3>2. f[0] = first /\ \A k \in 1..n : f[k] = Up(f[k - 1])
      BY <2>1, <3>1
    <3> QED BY <1>1, <1>2, <3>2
  <2>3. \A k \in 0..n : f[k] \in U[k]
    BY <2>2, Along
  <2>4. f[n] \in X
    <3>1. n \in 0..n /\ n # 0
      OBVIOUS
    <3> QED BY <2>3, <3>1 DEF U
  <2> QED BY <2>4
<1> QED BY <1>6, <1>7

Smaller(l, s, i) == WithChildren(l, s, Without(Children(l, s), i))

\* A removal is the climb from the split that held the pane, when the climb comes to
\* rest.
LEMMA RemovedClimbs ==
  ASSUME NEW l, IsFiniteSet(Splits(l)), Splits(l) # {}, NEW target, NEW s, NEW i,
         s = HolderOf(l, target), i = Place(l, s, target), NEW m, NEW C,
         Up([layout |-> NormalizeAll(Smaller(l, s, i), s), at |-> s]) \in [layout : {m}, at : C],
         \A u \in [layout : {m}, at : C] : Up(u) \in [layout : {m}, at : C]
  PROVE  RemovedWithin(l, target) = m
<1> DEFINE n == Cardinality(Splits(l))
           first == [layout |-> NormalizeAll(Smaller(l, s, i), s), at |-> s]
           Done(f) == f = [k \in 0..n |-> IF k = 0 THEN first ELSE Up(f[k - 1])]
           done == CHOOSE f : Done(f)
<1>1. n \in Nat /\ n >= 1
  <2>1. n \in Nat /\ n # 0
    BY FS_CardinalityType, FS_EmptySet
  <2> HIDE DEF n
  <2> QED BY <2>1
<1>2. RemovedWithin(l, target) = done[n].layout
  BY Zenon DEF RemovedWithin, Smaller
<1> HIDE DEF n, first
<1>3. (\E f : Climb(f, n, first)) /\ \A f : Climb(f, n, first) => f[n].layout = m
  BY <1>1, ClimbRests DEF first
<1>4. \A f : Done(f) <=> Climb(f, n, first)
  BY DEF Climb
<1> HIDE DEF Done
<1>5. Done(done)
  BY <1>3, <1>4
<1> QED BY <1>2, <1>3, <1>4, <1>5

\* A climb in a sound layout changes nothing.
LEMMA SoundClimbs ==
  ASSUME NEW l, Sound(l), NEW u \in [layout : {l}, at : Splits(l)]
  PROVE  Up(u) \in [layout : {l}, at : Splits(l)]
<1> DEFINE c == u.at a == HolderOf(l, c) i == Place(l, a, c)
<1>1. u.layout = l /\ c \in Splits(l)
  OBVIOUS
<1>2. CASE c = l.root
  BY <1>1, <1>2 DEF Up
<1>3. CASE c # l.root
  <2>1. Tree(l)
    BY DEF Sound
  <2>2. c \in Nodes(l)
    BY <1>1, <2>1, TreeNodes
  <2>3. a \in Splits(l) /\ i \in 1..Len(Children(l, a))
    BY <1>3, <2>1, <2>2, Holder
  <2>4. NormalizeChild(l, a, i) = l
    BY <2>3, SoundStays
  <2>5. Up(u) = [layout |-> l, at |-> a]
    BY <1>1, <1>3, <2>4 DEF Up
  <2> HIDE DEF a
  <2> QED BY <2>3, <2>5
<1> QED BY <1>2, <1>3

\* What removal leaves once one step up has settled the layout.
LEMMA RemovedSettles ==
  ASSUME NEW l, IsFiniteSet(Splits(l)), Splits(l) # {}, NEW target, NEW s, NEW i,
         s = HolderOf(l, target), i = Place(l, s, target), NEW m, Sound(m),
         Up([layout |-> NormalizeAll(Smaller(l, s, i), s), at |-> s]) \in [layout : {m}, at : Splits(m)]
  PROVE  RemovedWithin(l, target) = m
<1>1. \A u \in [layout : {m}, at : Splits(m)] : Up(u) \in [layout : {m}, at : Splits(m)]
  BY SoundClimbs
<1> QED BY <1>1, RemovedClimbs

-----------------------------------------------------------------------------
(* A pane is removed.                                                         *)

\* Z has the weights of A.
SameWeights(A, Z) == Len(Z) = Len(A) /\ \A k \in 1..Len(A) : Z[k].weight = A[k].weight

\* The weights decide the sum, and whether a split is full.
LEMMA SameSum ==
  ASSUME NEW A \in Seq(Kid), NEW Z \in Seq(Kid), SameWeights(A, Z)
  PROVE  SumOf(Z) = SumOf(A) /\ (Full(A) => Full(Z))
<1>1. Sums(PrefixSums(A), A)
  BY PrefixSumsAre
<1>2. Sums(PrefixSums(A), Z)
  BY <1>1 DEF Sums, SameWeights
<1>3. SumOf(A) = PrefixSums(A)[Len(A)] /\ SumOf(Z) = PrefixSums(A)[Len(Z)]
  BY <1>1, <1>2, SumIs
<1>4. SumOf(Z) = SumOf(A)
  BY <1>3 DEF SameWeights
<1>5. Full(A) => Full(Z)
  BY <1>4 DEF Full, SameWeights
<1> QED BY <1>4, <1>5

Renamed(A, i, x) == [A EXCEPT ![i].node = x]

\* Another node in the place of one: the weights stay.
LEMMA RenamedIs ==
  ASSUME NEW A \in Seq(Kid), NEW i \in 1..Len(A), NEW x \in Ends
  PROVE  LET Z == Renamed(A, i, x)
         IN /\ Z \in Seq(Kid) /\ SameWeights(A, Z)
            /\ \A k \in 1..Len(A) : Z[k].node = IF k = i THEN x ELSE A[k].node
<1> DEFINE n == Len(A) e == [A[i] EXCEPT !.node = x] Z == [A EXCEPT ![i] = e]
<1>1. n \in Nat /\ DOMAIN A = 1..n /\ i \in 1..n /\ \A k \in 1..n : A[k] \in Kid
  BY KidsOf
<1>2. e \in Kid /\ e.node = x /\ e.weight = A[i].weight
  BY <1>1 DEF Kid
<1>3. Z = Renamed(A, i, x)
  BY DEF Renamed
<1> HIDE DEF e
<1>4. Z \in Seq(Kid) /\ Len(Z) = n /\ \A k \in 1..n : Z[k] = IF k = i THEN e ELSE A[k]
  BY <1>1, <1>2, ExceptSeq
<1> HIDE DEF Z
<1>5. \A k \in 1..n : Z[k].node = (IF k = i THEN x ELSE A[k].node) /\ Z[k].weight = A[k].weight
  BY <1>2, <1>4
<1> QED BY <1>3, <1>4, <1>5 DEF SameWeights

\* The nodes of the splits, when one has other children.
LEMMA KidsRewritten ==
  ASSUME NEW l, Typed(l), NEW s \in Splits(l), NEW Z \in Seq(Kid), NEW t \in Splits(l)
  PROVE  KidsOn(WithChildren(l, s, Z))[t] = IF t = s THEN NodesOf(Z) ELSE KidsOn(l)[t]
<1> DEFINE m == WithChildren(l, s, Z)
<1>1. /\ m.root = l.root /\ m = Layout(m.root, m.splits) /\ Splits(m) = Splits(l)
      /\ m.splits = [u \in Splits(m) |-> m.splits[u]]
      /\ Children(m, s) = Z /\ m.splits[s].axis = l.splits[s].axis
      /\ m.splits[s] = [axis |-> m.splits[s].axis, children |-> Z]
      /\ \A u \in Splits(l) : u # s => m.splits[u] = l.splits[u] /\ Children(m, u) = Children(l, u)
  BY WithChildrenIs
<1> HIDE DEF m
<1>2. KidsOn(m)[t] = NodesOf(Children(m, t)) /\ KidsOn(l)[t] = NodesOf(Children(l, t))
  BY <1>1 DEF KidsOn
<1> QED BY <1>1, <1>2 DEF m

\* A layout with other children in one split is a tree when its nodes make one.
LEMMA RewrittenIs ==
  ASSUME NEW l, Tree(l), NEW s \in Splits(l), NEW Z \in Seq(Kid), Distinct(Z),
         Frame(l.root, Splits(l), KidsOn(WithChildren(l, s, Z)))
  PROVE  Tree(WithChildren(l, s, Z))
<1> DEFINE m == WithChildren(l, s, Z)
<1>0. Typed(l) /\ IsFiniteSet(Splits(l)) /\ l.root \in Ends
  BY DEF Tree, Typed
<1>1. /\ m.root = l.root /\ m = Layout(m.root, m.splits) /\ Splits(m) = Splits(l)
      /\ m.splits = [t \in Splits(m) |-> m.splits[t]]
      /\ Children(m, s) = Z /\ m.splits[s].axis = l.splits[s].axis
      /\ m.splits[s] = [axis |-> m.splits[s].axis, children |-> Z]
      /\ \A t \in Splits(l) : t # s => m.splits[t] = l.splits[t] /\ Children(m, t) = Children(l, t)
  BY <1>0, WithChildrenIs
<1>2. Frame(m.root, Splits(m), KidsOn(m))
  BY <1>1
<1> HIDE DEF m
<1>3. ASSUME NEW t \in Splits(m)
      PROVE  /\ m.splits[t] = [axis |-> m.splits[t].axis, children |-> Children(m, t)]
             /\ m.splits[t].axis \in Axes /\ Children(m, t) \in Seq(Kid) /\ Distinct(Children(m, t))
  <2>1. /\ l.splits[t] = [axis |-> l.splits[t].axis, children |-> Children(l, t)]
        /\ l.splits[t].axis \in Axes /\ Children(l, t) \in Seq(Kid) /\ Distinct(Children(l, t))
    BY <1>0, <1>1, SplitIs DEF Tree
  <2>2. CASE t = s
    BY <1>1, <2>1, <2>2
  <2>3. CASE t # s
    BY <1>1, <2>1, <2>3
  <2> QED BY <2>2, <2>3
<1>4. Tree(m)
  BY <1>0, <1>1, <1>2, <1>3, IsTree
<1> QED BY <1>4 DEF m

\* A pane that is dropped from a split leaves a tree without the pane.
LEMMA DroppedIs ==
  ASSUME NEW l, Tree(l), NEW s \in Splits(l), NEW i \in 1..Len(Children(l, s)),
         Children(l, s)[i].node \notin Splits(l), NEW Z, Drops(Children(l, s), i, Z)
  PROVE  LET p == Children(l, s)[i].node
             m == WithChildren(l, s, Z)
         IN /\ Tree(m) /\ m.root = l.root /\ Splits(m) = Splits(l)
            /\ Children(m, s) = Z /\ m.splits[s].axis = l.splits[s].axis
            /\ \A t \in Splits(m) : t # s => m.splits[t] = l.splits[t] /\ Children(m, t) = Children(l, t)
            /\ PanesOf(m) = PanesOf(l) \ {p}
            /\ NodesOf(Z) = NodesOf(Children(l, s)) \ {p}
<1> DEFINE A == Children(l, s) p == A[i].node m == WithChildren(l, s, Z)
           K == KidsOn(l) L == KidsOn(m) S == Splits(l) r == l.root
<1>1. Typed(l) /\ A \in Seq(Kid) /\ Distinct(A) /\ p \in NodesOf(A) /\ Frame(r, S, K) /\ K[s] = NodesOf(A)
  <2>1. Typed(l) /\ Distinct(A) /\ Frame(r, S, K)
    BY DEF Tree
  <2>2. A \in Seq(Kid) /\ K[s] = NodesOf(A) /\ p \in NodesOf(A)
    BY <2>1, SplitIs, LengthIs
  <2> QED BY <2>1, <2>2
<1>2. Z \in Seq(Kid) /\ NodesOf(Z) = NodesOf(A) \ {p} /\ Distinct(Z)
  <2>1. Z \in Seq(Kid)
    BY DEF Drops
  <2>2. i \in 1..Len(A) /\ Drops(A, i, Z)
    OBVIOUS
  <2> HIDE DEF A
  <2>3. NodesOf(Z) = NodesOf(A) \ {A[i].node} /\ Distinct(Z)
    BY <1>1, <2>2, DropsNodes
  <2> QED BY <2>1, <2>3
<1>3. /\ m.root = l.root /\ m = Layout(m.root, m.splits) /\ Splits(m) = Splits(l)
      /\ m.splits = [u \in Splits(m) |-> m.splits[u]]
      /\ Children(m, s) = Z /\ m.splits[s].axis = l.splits[s].axis
      /\ m.splits[s] = [axis |-> m.splits[s].axis, children |-> Z]
      /\ \A u \in Splits(l) : u # s => m.splits[u] = l.splits[u] /\ Children(m, u) = Children(l, u)
  BY <1>1, <1>2, WithChildrenIs
<1>4. KidsDropped(S, K, s, p, L)
  <2>1. \A t \in S : L[t] = IF t = s THEN NodesOf(Z) ELSE K[t]
    BY <1>1, <1>2, KidsRewritten
  <2> HIDE DEF L, K, S, A, p
  <2> QED BY <1>1, <1>2, <2>1 DEF KidsDropped
<1>5. p \notin S /\ s \in S /\ p \in K[s]
  BY <1>1
<1>6. Frame(r, S, L)
  <2> HIDE DEF L, K, S, p, r
  <2> QED BY <1>1, <1>4, <1>5, FrameDropped
<1>7. NodesIn(r, S, L) = NodesIn(r, S, K) \ {p}
  <2> HIDE DEF L, K, S, p, r
  <2> QED BY <1>1, <1>4, <1>5, FrameDropped
<1>8. Tree(m)
  BY <1>2, <1>6, RewrittenIs
<1>9. PanesOf(m) = PanesOf(l) \ {p}
  <2>1. Nodes(m) = NodesIn(r, S, L) /\ Nodes(l) = NodesIn(r, S, K)
    BY <1>1, <1>3, <1>8, NodesAre DEF Tree
  <2> HIDE DEF p, L, K, m, r
  <2> QED BY <1>3, <1>7, <2>1 DEF PanesOf, S
<1> HIDE DEF A, p, m
<1> QED BY <1>2, <1>3, <1>8, <1>9 DEF A, p, m

(* All is well but for s and for what could be one with s.                     *)
Around(l, s) ==
    /\ Tree(l) /\ s \in Splits(l)
    /\ \A t \in Splits(l) : t # s => Full(Children(l, t))
    /\ \A t \in Splits(l) : \A x \in NodesOf(Children(l, t)) : t # s /\ x # s => ~Merges(l, t, x)

\* A split that loses a pane: only its own merges, and its holder's, may be due.
LEMMA SmallerIs ==
  ASSUME NEW l, Sound(l), NEW s \in Splits(l), NEW i \in 1..Len(Children(l, s)),
         Children(l, s)[i].node \notin Splits(l)
  PROVE  LET A == Children(l, s)
             m == Smaller(l, s, i)
         IN /\ Around(m, s) /\ m.root = l.root /\ Splits(m) = Splits(l)
            /\ Len(Children(m, s)) = Len(A) - 1 /\ SumOf(Children(m, s)) = SplitTotal
            /\ \A k \in 1..Len(Children(m, s)) : Children(m, s)[k].weight >= 1
            /\ Len(A) \in 2..MaxSplitChildren /\ Len(A) \in Nat
            /\ PanesOf(m) = PanesOf(l) \ {A[i].node}
<1> DEFINE A == Children(l, s) p == A[i].node Z == Without(A, i) m == WithChildren(l, s, Z)
<1>1. Tree(l) /\ \A t \in Splits(l) : Full(Children(l, t))
  BY DEF Sound
<1>2. A \in Seq(Kid) /\ Len(A) \in Nat /\ Len(A) \in 2..MaxSplitChildren /\ Len(A) >= 2
  <2>1. A \in Seq(Kid) /\ Len(A) \in Nat
    BY <1>1, LengthIs
  <2>2. Len(A) \in 2..MaxSplitChildren
    BY <1>1 DEF Full
  <2>3. Len(A) >= 2
    <3> DEFINE n == Len(A)
    <3>1. n \in 2..MaxSplitChildren /\ n \in Nat
      BY <2>1, <2>2
    <3> HIDE DEF n
    <3>2. n >= 2
      BY <3>1, SplitAssumption
    <3> QED BY <3>2 DEF n
  <2> QED BY <2>1, <2>2, <2>3
<1>3. Full(A) /\ SumOf(A) = SplitTotal /\ \A k \in 1..Len(A) : A[k].weight >= 1
  BY <1>1 DEF Full
<1>4. /\ Drops(A, i, Z) /\ SumOf(Z) = SumOf(A) /\ Len(Z) = Len(A) - 1
      /\ \A k \in 1..Len(Z) : Z[k].weight >= 1
  <2>1. i \in 1..Len(A)
    OBVIOUS
  <2> HIDE DEF A, Z
  <2>2. Drops(A, i, Z) /\ SumOf(Z) = SumOf(A)
    BY <1>2, <2>1, WithoutIs DEF Z
  <2>3. (\A k \in 1..Len(A) : A[k].weight >= 1) => \A k \in 1..Len(Z) : Z[k].weight >= 1
    BY <1>2, <2>1, WithoutIs DEF Z
  <2>4. Len(Z) = Len(A) - 1
    BY <2>2 DEF Drops
  <2> QED BY <1>3, <2>2, <2>3, <2>4
<1>5. Smaller(l, s, i) = m
  BY DEF Smaller
<1> HIDE DEF Z
<1>6. /\ Tree(m) /\ m.root = l.root /\ Splits(m) = Splits(l)
      /\ Children(m, s) = Z /\ m.splits[s].axis = l.splits[s].axis
      /\ \A t \in Splits(m) : t # s => m.splits[t] = l.splits[t] /\ Children(m, t) = Children(l, t)
      /\ PanesOf(m) = PanesOf(l) \ {p}
  BY <1>1, <1>4, DroppedIs
<1>7. ASSUME NEW t \in Splits(m), NEW x \in NodesOf(Children(m, t)), t # s, x # s PROVE ~Merges(m, t, x)
  <2>1. m.splits[t] = l.splits[t] /\ Children(m, t) = Children(l, t) /\ t \in Splits(l)
    BY <1>6, <1>7
  <2>2. ~Merges(l, t, x)
    BY <2>1 DEF Sound
  <2>3. x \in Splits(m) => m.splits[x] = l.splits[x] /\ Children(m, x) = Children(l, x) /\ x \in Splits(l)
    BY <1>6, <1>7
  <2> HIDE DEF m
  <2> QED BY <2>1, <2>2, <2>3 DEF Merges
<1>8. Around(m, s)
  <2>1. \A t \in Splits(m) : t # s => Full(Children(m, t))
    BY <1>1, <1>6
  <2> HIDE DEF m
  <2> QED BY <1>6, <1>7, <2>1 DEF Around
<1> HIDE DEF A, m
<1> QED BY <1>2, <1>3, <1>4, <1>5, <1>6, <1>8 DEF A

(* A split with one child is gone: the child is in its place, and may flatten. *)
LEMMA CollapseSettles ==
  ASSUME NEW l, NEW s, Around(l, s), Len(Children(l, s)) = 1,
         NEW a \in Splits(l), NEW j \in 1..Len(Children(l, a)), Children(l, a)[j].node = s
  PROVE  Settles(l, NormalizeChild(l, a, j)) /\ a \in Splits(NormalizeChild(l, a, j))
<1> DEFINE B == Children(l, a) Z == Children(l, s) c == Z[1].node W == Renamed(B, j, c)
           m == Dissolved(l, a, j, W)
<1>1. /\ Tree(l) /\ s \in Splits(l) /\ \A t \in Splits(l) : t # s => Full(Children(l, t))
      /\ \A t \in Splits(l) : \A x \in NodesOf(Children(l, t)) : t # s /\ x # s => ~Merges(l, t, x)
  BY DEF Around
<1>2. B \in Seq(Kid) /\ Z \in Seq(Kid) /\ c \in Ends /\ Len(B) \in Nat /\ s \in NodesOf(B) /\ a # s
      /\ \A t \in Splits(l) : s \in NodesOf(Children(l, t)) => t = a
  <2>1. B \in Seq(Kid) /\ Z \in Seq(Kid) /\ Len(B) \in Nat /\ s \in NodesOf(B)
    BY <1>1, LengthIs
  <2>2. 1 \in 1..Len(Z)
    OBVIOUS
  <2>3. c \in Ends
    <3> HIDE DEF Z
    <3> QED BY <2>1, <2>2, KidsOf
  <2> QED BY <1>1, <2>1, <2>3, OneHolder
<1>3. /\ W \in Seq(Kid) /\ SameWeights(B, W)
      /\ \A k \in 1..Len(B) : W[k].node = IF k = j THEN c ELSE B[k].node
  <2>1. j \in 1..Len(B)
    OBVIOUS
  <2> HIDE DEF B, c
  <2>2. W \in Seq(Kid) /\ SameWeights(B, W)
    BY <1>2, <2>1, RenamedIs
  <2>3. \A k \in 1..Len(B) : W[k].node = IF k = j THEN c ELSE B[k].node
    BY <1>2, <2>1, RenamedIs
  <2> QED BY <2>2, <2>3
<1>4. Full(W) /\ Len(W) = Len(B)
  <2>1. Full(B)
    BY <1>1, <1>2
  <2> HIDE DEF W
  <2> QED BY <1>2, <1>3, <2>1, SameSum DEF SameWeights
<1>5. Collapsed(l, a, j) = m
  <2>1. B[j].node = s
    OBVIOUS
  <2>2. s \in Splits(l) /\ Len(Z) = 1
    BY <1>1
  <2> QED BY <2>1, <2>2 DEF Collapsed, Renamed
<1> HIDE DEF W
<1>6. Joins(B, j, Z, W)
  <2>1. j \in 1..Len(B) /\ Len(Z) = 1
    OBVIOUS
  <2> HIDE DEF B, Z
  <2>2. Len(W) = Len(B) + Len(Z) - 1
    BY <1>2, <1>4, <2>1
  <2>3. ASSUME NEW k \in 1..Len(W)
        PROVE  W[k].node = IF k < j THEN B[k].node
                           ELSE IF k < j + Len(Z) THEN Z[k - j + 1].node ELSE B[k - Len(Z) + 1].node
    <3>1. k \in 1..Len(B)
      BY <1>4
    <3>2. CASE k = j
      <4>1. k - j + 1 = 1 /\ ~(k < j) /\ k < j + Len(Z)
        BY <2>1, <3>2
      <4> QED BY <1>3, <3>1, <3>2, <4>1 DEF c
    <3>3. CASE k < j
      BY <1>3, <3>1, <3>3
    <3>4. CASE k > j
      <4>1. k - Len(Z) + 1 = k /\ ~(k < j) /\ ~(k < j + Len(Z)) /\ k # j
        BY <2>1, <3>4
      <4> QED BY <1>3, <3>1, <4>1
    <3> QED BY <2>1, <3>2, <3>3, <3>4
  <2> QED BY <1>3, <2>2, <2>3 DEF Joins
<1>7. /\ Tree(m) /\ m.root = l.root /\ Splits(m) = Splits(l) \ {s} /\ a \in Splits(m)
      /\ Children(m, a) = W /\ m.splits[a].axis = l.splits[a].axis
      /\ \A t \in Splits(m) : t # a => m.splits[t] = l.splits[t] /\ Children(m, t) = Children(l, t)
      /\ NodesOf(W) = (NodesOf(B) \ {s}) \cup NodesOf(Z)
      /\ PanesOf(m) = PanesOf(l)
  <2>1. Joins(Children(l, a), j, Children(l, Children(l, a)[j].node), W) /\ Children(l, a)[j].node \in Splits(l)
    BY <1>1, <1>6
  <2> HIDE DEF B, Z, m
  <2>2. LET n == Children(l, a)[j].node
        IN /\ Tree(m) /\ m.root = l.root /\ Splits(m) = Splits(l) \ {n} /\ a \in Splits(m) /\ n # a
           /\ Children(m, a) = W /\ m.splits[a].axis = l.splits[a].axis
           /\ \A t \in Splits(m) : t # a => m.splits[t] = l.splits[t] /\ Children(m, t) = Children(l, t)
           /\ NodesOf(W) = (NodesOf(Children(l, a)) \ {n}) \cup NodesOf(Children(l, n))
           /\ PanesOf(m) = PanesOf(l)
    BY <1>1, <2>1, DissolvedIs DEF m
  <2> QED BY <2>2 DEF B, Z
<1>8. W[j].node = c /\ NodesOf(Z) = {c}
  <2>1. j \in 1..Len(B) /\ Len(Z) = 1
    OBVIOUS
  <2> HIDE DEF B, Z
  <2>2. NodesOf(Z) = {Z[k].node : k \in 1..1}
    BY <2>1 DEF NodesOf
  <2>3. {Z[k].node : k \in 1..1} = {c}
    BY DEF c
  <2> QED BY <1>3, <2>1, <2>2, <2>3
<1> HIDE DEF m
<1>9. Almost(m, Children(m, a)[j].node)
  <2>1. \A t \in Splits(m) : Full(Children(m, t))
    BY <1>1, <1>4, <1>7
  <2>2. ASSUME NEW x, x \in Splits(m)
        PROVE  m.splits[x].axis = l.splits[x].axis /\ Len(Children(m, x)) = Len(Children(l, x)) /\ x \in Splits(l)
    BY <1>4, <1>7, <2>2
  <2>3. ASSUME NEW t \in Splits(m), NEW x \in NodesOf(Children(m, t)), x # c PROVE ~Merges(m, t, x)
    <3>1. x \in NodesOf(Children(l, t)) /\ x # s
      <4>1. CASE t = a
        BY <1>7, <1>8, <2>3, <4>1
      <4>2. CASE t # a
        BY <1>2, <1>7, <4>2
      <4> QED BY <4>1, <4>2
    <3>2. ~Merges(l, t, x)
      BY <1>1, <1>7, <3>1
    <3> QED BY <2>2, <3>2 DEF Merges
  <2> QED BY <1>7, <1>8, <2>1, <2>3 DEF Almost
<1>10. j \in 1..Len(Children(m, a))
  BY <1>4, <1>7
<1>11. Settles(m, Flattened(m, a, j)) /\ a \in Splits(Flattened(m, a, j))
  BY <1>7, <1>9, <1>10, FlattenSettles
<1>12. NormalizeChild(l, a, j) = Flattened(m, a, j)
  BY <1>5 DEF NormalizeChild
<1> HIDE DEF B, Z
<1>13. Settles(l, Flattened(m, a, j))
  BY <1>7, <1>11 DEF Settles
<1> QED BY <1>11, <1>12, <1>13

Uncovered(l, s, c) == Layout(c, Forget(l.splits, s))

(* The root gives way to its only child.                                      *)
LEMMA UncoveredIs ==
  ASSUME NEW l, NEW s, Around(l, s), s = l.root, Len(Children(l, s)) = 1
  PROVE  LET m == Uncovered(l, s, Children(l, s)[1].node)
         IN Sound(m) /\ Splits(m) \subseteq Splits(l) /\ PanesOf(m) = PanesOf(l)
<1> DEFINE Z == Children(l, s) c == Z[1].node S == Splits(l) T == S \ {s} K == KidsOn(l)
           f == [t \in T |-> l.splits[t]] m == Layout(c, f)
<1>1. /\ Tree(l) /\ Typed(l) /\ s \in S /\ \A t \in S : t # s => Full(Children(l, t))
      /\ \A t \in S : \A x \in NodesOf(Children(l, t)) : t # s /\ x # s => ~Merges(l, t, x)
      /\ IsFiniteSet(S) /\ Frame(s, S, K) /\ K[s] = NodesOf(Z)
  <2>1. Tree(l) /\ Typed(l) /\ s \in S
    BY DEF Around, Tree
  <2>2. K[s] = NodesOf(Z)
    BY <2>1, SplitIs
  <2>3. Frame(s, S, K) /\ IsFiniteSet(S)
    BY <2>1 DEF Tree, Typed
  <2> QED BY <2>1, <2>2, <2>3 DEF Around
<1>2. Z \in Seq(Kid) /\ c \in Ends /\ NodesOf(Z) = {c}
  <2>1. Z \in Seq(Kid)
    BY <1>1, LengthIs
  <2>2. 1 \in 1..Len(Z) /\ Len(Z) = 1
    OBVIOUS
  <2> HIDE DEF Z
  <2>3. c \in Ends
    BY <2>1, <2>2, KidsOf
  <2>4. NodesOf(Z) = {Z[k].node : k \in 1..1}
    BY <2>2 DEF NodesOf
  <2>5. {Z[k].node : k \in 1..1} = {c}
    BY DEF c
  <2> QED BY <2>1, <2>3, <2>4, <2>5
<1>3. Uncovered(l, s, c) = m
  <2>1. Forget(l.splits, s) = f
    BY DEF Forget, Splits
  <2> HIDE DEF f
  <2> QED BY <2>1 DEF Uncovered
<1> HIDE DEF Z, c
<1>4. m.root = c /\ m.splits = f /\ m = Layout(m.root, m.splits)
  BY DEF Layout
<1> HIDE DEF m
<1>5. Splits(m) = T /\ \A t \in T : m.splits[t] = l.splits[t] /\ Children(m, t) = Children(l, t)
  BY <1>4 DEF Splits, Children
<1>6. KidsUncovered(S, K, s, KidsOn(m))
  <2>1. ASSUME NEW t \in T PROVE KidsOn(m)[t] = K[t]
    <3>1. KidsOn(m)[t] = NodesOf(Children(m, t))
      BY <1>5 DEF KidsOn
    <3>2. K[t] = NodesOf(Children(l, t))
      BY <1>1, SplitIs
    <3> QED BY <1>5, <3>1, <3>2
  <2> HIDE DEF S, K
  <2> QED BY <2>1 DEF KidsUncovered
<1>7. Frame(c, T, KidsOn(m)) /\ c # s /\ NodesIn(c, T, KidsOn(m)) = NodesIn(s, S, K) \ {s}
  <2> DEFINE L == KidsOn(m)
  <2>1. K[s] = {c} /\ s \in S /\ KidsUncovered(S, K, s, L)
    BY <1>1, <1>2, <1>6
  <2> HIDE DEF S, K, L
  <2>2. Uncovers(c, s, S, K, L)
    BY <1>1, <2>1, FrameUncovered
  <2> QED BY <2>2 DEF L, Uncovers
<1>9. Tree(m)
  <2>1. IsFiniteSet(Splits(m))
    BY <1>1, <1>5, FS_Subset
  <2>2. ASSUME NEW t \in Splits(m)
        PROVE  /\ m.splits[t] = [axis |-> m.splits[t].axis, children |-> Children(m, t)]
               /\ m.splits[t].axis \in Axes /\ Children(m, t) \in Seq(Kid) /\ Distinct(Children(m, t))
    <3>1. Distinct(Children(l, t)) /\ t \in Splits(l)
      BY <1>1, <1>5 DEF Tree
    <3> QED BY <1>1, <1>5, <3>1, SplitIs
  <2>3. m.splits = [t \in Splits(m) |-> m.splits[t]]
    BY <1>4, <1>5
  <2>4. Frame(m.root, Splits(m), KidsOn(m))
    BY <1>4, <1>5, <1>7
  <2> QED BY <1>2, <1>4, <2>1, <2>2, <2>3, <2>4, IsTree
<1>10. PanesOf(m) = PanesOf(l)
  <2>1. Nodes(m) = NodesIn(c, T, KidsOn(m)) /\ Nodes(l) = NodesIn(s, S, K)
    BY <1>1, <1>4, <1>5, <1>9, NodesAre DEF Tree
  <2>2. Nodes(m) = Nodes(l) \ {s}
    BY <1>7, <2>1
  <2> QED BY <1>1, <1>5, <2>2 DEF PanesOf
<1>11. Sound(m)
  <2>1. \A t \in Splits(m) : Full(Children(m, t))
    BY <1>1, <1>5
  <2>2. ASSUME NEW t \in Splits(m), NEW x \in NodesOf(Children(m, t)) PROVE ~Merges(m, t, x)
    <3>1. x \in NodesOf(Children(l, t)) /\ t \in S /\ t # s
      BY <1>5
    <3>2. x # s
      BY <1>1, <3>1, OneHolder
    <3>3. ~Merges(l, t, x)
      BY <1>1, <3>1, <3>2
    <3> QED BY <1>5, <3>3 DEF Merges
  <2> QED BY <1>9, <2>1, <2>2 DEF Sound
<1> QED BY <1>3, <1>5, <1>10, <1>11 DEF c, Z

\* A removal from a layout of several panes leaves a layout that is sound, without
\* the pane and with no other split or pane.
LEMMA RemovalIsSound ==
  ASSUME NEW l, Sound(l), NEW p \in PanesOf(l), p # l.root
  PROVE  LET m == WithoutPane(l, p)
         IN Sound(m) /\ Splits(m) \subseteq Splits(l) /\ PanesOf(m) = PanesOf(l) \ {p}
<1> DEFINE s == HolderOf(l, p) A == Children(l, s) i == Place(l, s, p) m == Smaller(l, s, i)
           left == RemovedWithin(l, p)
           Good(w) == Sound(w) /\ Splits(w) \subseteq Splits(l) /\ PanesOf(w) = PanesOf(l) \ {p}
<1> SUFFICES Good(WithoutPane(l, p))
  OBVIOUS
<1>1. Tree(l) /\ IsFiniteSet(Splits(l)) /\ p \in Nodes(l) /\ p \notin Splits(l)
  BY DEF Sound, Tree, Typed, PanesOf
<1>2. s \in Splits(l) /\ i \in 1..Len(A) /\ A[i].node = p
  BY <1>1, Holder
<1>3. /\ Around(m, s) /\ m.root = l.root /\ Splits(m) = Splits(l)
      /\ Len(Children(m, s)) = Len(A) - 1 /\ SumOf(Children(m, s)) = SplitTotal
      /\ \A k \in 1..Len(Children(m, s)) : Children(m, s)[k].weight >= 1
      /\ Len(A) \in 2..MaxSplitChildren /\ Len(A) \in Nat
      /\ PanesOf(m) = PanesOf(l) \ {A[i].node}
  BY <1>1, <1>2, SmallerIs
<1>4. Tree(m) /\ s \in Splits(m)
  BY <1>3 DEF Around
<1> HIDE DEF s, i, m
<1>5. ASSUME NEW w, Sound(w), w.root = l.root, Splits(w) # {}, left = w, Good(w)
      PROVE  Good(WithoutPane(l, p))
  <2>1. w.root \in Splits(w)
    BY <1>5, TreeNodes DEF Sound
  <2>2. Len(Children(w, w.root)) # 1
    <3> DEFINE n == Len(Children(w, w.root))
    <3>1. n \in 2..MaxSplitChildren
      BY <1>5, <2>1 DEF Sound, Full
    <3> HIDE DEF n
    <3>2. n # 1
      BY <3>1, SplitAssumption
    <3> QED BY <3>2 DEF n
  <2>3. WithoutPane(l, p) = w
    BY <1>5, <2>2 DEF WithoutPane
  <2> HIDE DEF Good
  <2> QED BY <1>5, <2>3
<1>6. CASE Len(A) > 2
  <2> DEFINE a == NormalizeAll(m, s)
  <2>1. Swept(m, s, 1)
    <3>1. Len(Children(m, s)) \in 2..MaxSplitChildren
      <4> DEFINE n == Len(A)
      <4>1. n \in 2..MaxSplitChildren /\ n > 2 /\ n \in Nat /\ Len(Children(m, s)) = n - 1
        BY <1>3, <1>6
      <4> HIDE DEF n
      <4> QED BY <4>1, SplitAssumption
    <3>2. Full(Children(m, s))
      BY <1>3, <3>1 DEF Full
    <3>3. \A t \in Splits(m) : Full(Children(m, t))
      BY <1>3, <3>2 DEF Around
    <3>4. \A j \in 1..Len(Children(m, s)) : ~(j < 1)
      <4>1. Len(Children(m, s)) \in Nat
        BY <1>4, LengthIs
      <4> QED BY <4>1
    <3> QED BY <1>3, <3>3, <3>4 DEF Around, Swept
  <2>2. Almost(a, s) /\ s \in Splits(a) /\ KeepsPanes(m, a)
    BY <2>1, SweepSettles
  <2>3. Tree(a) /\ a.root = l.root /\ PanesOf(a) = PanesOf(l) \ {p} /\ Splits(a) \subseteq Splits(l)
    BY <1>2, <1>3, <2>2 DEF KeepsPanes, Almost
  <2> DEFINE first == [layout |-> a, at |-> s]
  <2> HIDE DEF a
  <2>4. CASE s = a.root
    <3>1. Sound(a)
      <4>1. \A t \in Splits(a) : \A x \in NodesOf(Children(a, t)) : x # s
        BY <2>3, <2>4, OneHolder
      <4> QED BY <2>2, <4>1 DEF Almost, Sound
    <3>2. Up(first) = first
      BY <2>4 DEF Up
    <3>3. Up(first) \in [layout : {a}, at : Splits(a)]
      BY <2>2, <3>2
    <3>4. left = a
      BY <1>1, <1>2, <3>1, <3>3, RemovedSettles DEF a, m, s, i
    <3>5. Good(a)
      BY <2>3, <3>1
    <3> QED BY <1>5, <2>2, <2>3, <3>1, <3>4, <3>5
  <2>5. CASE s # a.root
    <3> DEFINE b == HolderOf(a, s) j == Place(a, b, s) w == NormalizeChild(a, b, j)
    <3>1. s \in Nodes(a)
      BY <2>2, <2>3, TreeNodes
    <3>2. b \in Splits(a) /\ j \in 1..Len(Children(a, b)) /\ Children(a, b)[j].node = s
      BY <2>3, <2>5, <3>1, Holder
    <3>3. Settles(a, w) /\ b \in Splits(w)
      BY <2>2, <3>2, NormalizeSettles
    <3>4. Up(first) = [layout |-> w, at |-> b]
      BY <2>5 DEF Up
    <3> HIDE DEF b, w
    <3>5. Up(first) \in [layout : {w}, at : Splits(w)]
      BY <3>3, <3>4
    <3>6. Sound(w)
      BY <3>3 DEF Settles
    <3>7. left = w
      BY <1>1, <1>2, <3>6, <3>5, RemovedSettles DEF a, m, s, i
    <3>8. w.root = l.root /\ Good(w)
      BY <2>3, <3>3 DEF Settles
    <3> QED BY <1>5, <3>3, <3>6, <3>7, <3>8
  <2> QED BY <2>4, <2>5
<1>7. CASE Len(A) = 2
  <2> DEFINE first == [layout |-> m, at |-> s]
  <2>1. Len(Children(m, s)) = 1
    BY <1>3, <1>7
  <2>2. NormalizeAll(m, s) = m
    <3>1. ~(Len(Children(m, s)) > 1)
      BY <2>1
    <3> QED BY <3>1, Zenon DEF NormalizeAll
  <2>3. CASE s = m.root
    <3> DEFINE c == Children(m, s)[1].node w == Uncovered(m, s, c)
    <3>1. Sound(w) /\ Splits(w) \subseteq Splits(m) /\ PanesOf(w) = PanesOf(m)
      BY <1>3, <2>1, <2>3, UncoveredIs
    <3>2. Up(first) = first
      BY <2>3 DEF Up
    <3>3. ASSUME NEW u \in [layout : {m}, at : {s}] PROVE Up(u) \in [layout : {m}, at : {s}]
      <4>1. u = first
        OBVIOUS
      <4> QED BY <3>2, <4>1
    <3>4. left = m
      <4>1. first \in [layout : {m}, at : {s}]
        OBVIOUS
      <4>2. Up([layout |-> NormalizeAll(m, s), at |-> s]) = first
        BY <2>2, <3>2
      <4>3. Up([layout |-> NormalizeAll(m, s), at |-> s]) \in [layout : {m}, at : {s}]
        BY <4>1, <4>2
      <4>4. s = HolderOf(l, p) /\ i = Place(l, s, p) /\ m = Smaller(l, s, i) /\ Splits(l) # {}
        BY <1>2 DEF m, s, i
      <4> HIDE DEF first
      <4> DEFINE C == {s}
      <4>5. /\ Up([layout |-> NormalizeAll(Smaller(l, s, i), s), at |-> s]) \in [layout : {m}, at : C]
            /\ \A u \in [layout : {m}, at : C] : Up(u) \in [layout : {m}, at : C]
        BY <3>3, <4>3, <4>4
      <4> HIDE DEF C
      <4> QED BY <1>1, <4>4, <4>5, RemovedClimbs
    <3>5. WithoutPane(l, p) = w
      <4>1. Len(Children(left, left.root)) = 1 /\ left.root = s
        BY <2>1, <2>3, <3>4
      <4>2. Children(left, left.root)[1].node = c /\ Layout(c, Forget(left.splits, left.root)) = w
        BY <3>4, <4>1 DEF Uncovered
      <4> HIDE DEF w, c, left
      <4> QED BY <4>1, <4>2 DEF WithoutPane, left
    <3> HIDE DEF w
    <3>6. Good(w)
      BY <1>2, <1>3, <3>1
    <3> HIDE DEF Good
    <3> QED BY <3>5, <3>6
  <2>4. CASE s # m.root
    <3> DEFINE b == HolderOf(m, s) j == Place(m, b, s) w == NormalizeChild(m, b, j)
    <3>1. s \in Nodes(m)
      BY <1>4, TreeNodes
    <3>2. b \in Splits(m) /\ j \in 1..Len(Children(m, b)) /\ Children(m, b)[j].node = s
      BY <1>4, <2>4, <3>1, Holder
    <3>3. Settles(m, w) /\ b \in Splits(w)
      BY <1>3, <2>1, <3>2, CollapseSettles
    <3>4. Up(first) = [layout |-> w, at |-> b]
      BY <2>4 DEF Up
    <3> HIDE DEF b, w
    <3>5. Up([layout |-> NormalizeAll(m, s), at |-> s]) \in [layout : {w}, at : Splits(w)]
      BY <2>2, <3>3, <3>4
    <3>6. Sound(w)
      BY <3>3 DEF Settles
    <3>7. left = w
      BY <1>1, <1>2, <3>6, <3>5, RemovedSettles DEF m, s, i
    <3>8. w.root = l.root /\ Good(w)
      BY <1>2, <1>3, <3>3 DEF Settles
    <3> QED BY <1>5, <3>3, <3>6, <3>7, <3>8
  <2> QED BY <2>3, <2>4
<1>8. Len(A) > 2 \/ Len(A) = 2
  <2> DEFINE n == Len(A)
  <2>1. n \in 2..MaxSplitChildren /\ n \in Nat
    BY <1>3
  <2> HIDE DEF n
  <2>2. n > 2 \/ n = 2
    BY <2>1, SplitAssumption
  <2> QED BY <2>2 DEF n
<1> HIDE DEF Good, A
<1> QED BY <1>6, <1>7, <1>8

-----------------------------------------------------------------------------
(* A tree is inserted.                                                        *)

\* The splits of two layouts, each with its own children.
LEMMA TogetherIs ==
  ASSUME NEW l, Typed(l), NEW ins, Typed(ins)
  PROVE  LET m == Together(l, ins)
         IN /\ Typed(m) /\ m.root = l.root /\ Splits(m) = Splits(l) \cup Splits(ins)
            /\ \A t \in Splits(l) : m.splits[t] = l.splits[t] /\ Children(m, t) = Children(l, t)
            /\ \A t \in Splits(ins) : t \notin Splits(l) =>
                  m.splits[t] = ins.splits[t] /\ Children(m, t) = Children(ins, t)
<1> DEFINE S == Splits(l) T == Splits(ins)
           f == [t \in S \cup T |-> IF t \in S THEN l.splits[t] ELSE ins.splits[t]] m == Layout(l.root, f)
<1>1. Together(l, ins) = m
  BY DEF Together
<1>2. /\ l.root \in Ends /\ IsFiniteSet(S) /\ IsFiniteSet(T)
      /\ (\A t \in S : l.splits[t] \in Split) /\ \A t \in T : ins.splits[t] \in Split
  BY DEF Typed
<1> HIDE DEF S, T
<1>3. m.root = l.root /\ m.splits = f /\ m = Layout(m.root, m.splits)
  BY DEF Layout
<1>4. f \in [S \cup T -> Split] /\ DOMAIN f = S \cup T
  BY <1>2
<1>5. /\ \A t \in S : f[t] = l.splits[t]
      /\ \A t \in T : t \notin S => f[t] = ins.splits[t]
  OBVIOUS
<1>6. IsFiniteSet(S \cup T)
  BY <1>2, FS_Union
<1> HIDE DEF f, m
<1>7. Splits(m) = S \cup T
  BY <1>3, <1>4 DEF Splits
<1>8. Typed(m)
  BY <1>2, <1>3, <1>4, <1>6, <1>7 DEF Typed
<1> QED BY <1>1, <1>3, <1>5, <1>7, <1>8 DEF S, T, Children

Apart(l, ins) == \A x \in Nodes(l) : x \notin Nodes(ins)

\* A child of the one layout is held in both as it was.
LEMMA TogetherHolds ==
  ASSUME NEW l, Tree(l), NEW ins, Tree(ins), Apart(l, ins),
         NEW s \in Splits(l), NEW i \in 1..Len(Children(l, s))
  PROVE  LET m == Together(l, ins)
             x == Children(l, s)[i].node
         IN HolderOf(m, x) = s /\ Place(m, s, x) = i
<1> DEFINE m == Together(l, ins) x == Children(l, s)[i].node
<1>1. Typed(l) /\ Typed(ins)
  BY DEF Tree
<1>2. /\ Typed(m) /\ m.root = l.root /\ Splits(m) = Splits(l) \cup Splits(ins)
      /\ \A t \in Splits(l) : m.splits[t] = l.splits[t] /\ Children(m, t) = Children(l, t)
      /\ \A t \in Splits(ins) : t \notin Splits(l) =>
            m.splits[t] = ins.splits[t] /\ Children(m, t) = Children(ins, t)
  BY <1>1, TogetherIs
<1>3. /\ HolderOf(l, x) = s /\ Place(l, s, x) = i /\ x \in Nodes(l)
      /\ x \in NodesOf(Children(l, s))
  BY Held
<1> HIDE DEF m, x
<1>4. DOMAIN Children(l, s) = 1..Len(Children(l, s)) /\ Children(l, s)[i].node = x
  BY <1>1, SplitIs, KidsOf DEF x
<1>5. ASSUME NEW t \in Splits(m), NEW j \in DOMAIN Children(m, t), Children(m, t)[j].node = x
      PROVE  t = s
  <2>1. CASE t \in Splits(l)
    <3>1. j \in 1..Len(Children(l, t)) /\ Children(l, t)[j].node = x
      BY <1>1, <1>2, <1>5, <2>1, SplitIs, KidsOf
    <3>2. x \in NodesOf(Children(l, t))
      BY <3>1 DEF NodesOf
    <3> QED BY <1>3, <2>1, <3>2, OneHolder
  <2>2. CASE t \notin Splits(l)
    <3>1. t \in Splits(ins) /\ Children(m, t) = Children(ins, t)
      BY <1>2, <2>2
    <3>2. j \in 1..Len(Children(ins, t)) /\ Children(ins, t)[j].node = x
      BY <1>1, <1>5, <3>1, SplitIs, KidsOf
    <3>3. x \in NodesOf(Children(ins, t))
      BY <3>2 DEF NodesOf
    <3>4. x \in Nodes(ins)
      BY <3>1, <3>3, TreeNodes
    <3> QED BY <1>3, <3>4 DEF Apart
  <2> QED BY <2>1, <2>2
<1>6. HolderOf(m, x) = s
  <2>1. s \in Splits(m) /\ \E j \in DOMAIN Children(m, s) : Holds(m, s, j, x)
    BY <1>2, <1>4 DEF Holds
  <2>2. \A t \in Splits(m) : (\E j \in DOMAIN Children(m, t) : Holds(m, t, j, x)) => t = s
    BY <1>5 DEF Holds
  <2> QED BY <2>1, <2>2 DEF HolderOf
<1>7. Place(m, s, x) = i
  <2>1. Children(m, s) = Children(l, s)
    BY <1>2
  <2>2. Place(m, s, x) = Place(l, s, x)
    BY <2>1 DEF Place, Holds
  <2> QED BY <1>3, <2>2
<1> QED BY <1>6, <1>7 DEF m, x

Grafted(l, ins, s, Z) == WithChildren(Together(l, ins), s, Z)

\* A split that takes the root of another tree leaves a tree with the panes of both.
LEMMA GraftedIs ==
  ASSUME NEW l, Tree(l), NEW ins, Tree(ins), Apart(l, ins), NEW s \in Splits(l),
         NEW at \in 1..(Len(Children(l, s)) + 1), NEW Z, Adds(Children(l, s), at, ins.root, Z)
  PROVE  LET m == Grafted(l, ins, s, Z)
         IN /\ Tree(m) /\ m.root = l.root /\ Splits(m) = Splits(l) \cup Splits(ins)
            /\ Children(m, s) = Z /\ m.splits[s].axis = l.splits[s].axis
            /\ \A t \in Splits(l) : t # s => m.splits[t] = l.splits[t] /\ Children(m, t) = Children(l, t)
            /\ \A t \in Splits(ins) : m.splits[t] = ins.splits[t] /\ Children(m, t) = Children(ins, t)
            /\ PanesOf(m) = PanesOf(l) \cup PanesOf(ins)
            /\ NodesOf(Z) = NodesOf(Children(l, s)) \cup {ins.root}
            /\ Splits(l) \cap Splits(ins) = {}
<1> DEFINE A == Children(l, s) q == ins.root both == Together(l, ins) m == WithChildren(both, s, Z)
           S == Splits(l) T == Splits(ins) K == KidsOn(l) J == KidsOn(ins) L == KidsOn(m) r == l.root
<1>1. Typed(l) /\ Typed(ins) /\ Frame(r, S, K) /\ Frame(q, T, J) /\ Distinct(A)
      /\ \A t \in T : Distinct(Children(ins, t))
  BY DEF Tree
<1>2. Nodes(l) = NodesIn(r, S, K) /\ Nodes(ins) = NodesIn(q, T, J) /\ NodesOf(A) \subseteq Nodes(l)
      /\ q \in Nodes(ins) /\ S \subseteq Nodes(l) /\ T \subseteq Nodes(ins)
  <2>1. Nodes(l) = NodesIn(r, S, K) /\ Nodes(ins) = NodesIn(q, T, J)
    BY <1>1, NodesAre
  <2>2. NodesOf(A) \subseteq Nodes(l) /\ S \subseteq Nodes(l) /\ T \subseteq Nodes(ins)
    BY TreeNodes
  <2>3. q \in Nodes(ins)
    BY DEF Nodes
  <2> QED BY <2>1, <2>2, <2>3
<1>3. S \cap T = {} /\ q \notin NodesOf(A) /\ q \notin S
  BY <1>2 DEF Apart
<1>4. A \in Seq(Kid) /\ Z \in Seq(Kid)
  BY <1>1, SplitIs DEF Adds
<1>5. NodesOf(Z) = NodesOf(A) \cup {q} /\ Distinct(Z)
  <2>1. Adds(A, at, q, Z) /\ at \in 1..(Len(A) + 1)
    OBVIOUS
  <2>2. A \in Seq(Kid) /\ Distinct(A) /\ q \notin NodesOf(A)
    BY <1>1, <1>3, <1>4
  <2> HIDE DEF A, q
  <2>3. NodesOf(Z) = NodesOf(A) \cup {q}
    BY <2>1, <2>2, AddsNodes
  <2>4. Distinct(Z)
    BY <2>1, <2>2, AddsNodes
  <2> QED BY <2>3, <2>4
<1>6. /\ Typed(both) /\ both.root = l.root /\ Splits(both) = Splits(l) \cup Splits(ins)
      /\ \A t \in Splits(l) : both.splits[t] = l.splits[t] /\ Children(both, t) = Children(l, t)
      /\ \A t \in Splits(ins) : t \notin Splits(l) =>
            both.splits[t] = ins.splits[t] /\ Children(both, t) = Children(ins, t)
  BY <1>1, TogetherIs
<1> HIDE DEF both
<1>7. s \in Splits(both)
  BY <1>6
<1>8. /\ m.root = both.root /\ m = Layout(m.root, m.splits) /\ Splits(m) = Splits(both)
      /\ m.splits = [t \in Splits(m) |-> m.splits[t]]
      /\ Children(m, s) = Z /\ m.splits[s].axis = both.splits[s].axis
      /\ m.splits[s] = [axis |-> m.splits[s].axis, children |-> Z]
      /\ \A t \in Splits(both) : t # s => m.splits[t] = both.splits[t] /\ Children(m, t) = Children(both, t)
  BY <1>4, <1>6, <1>7, WithChildrenIs
<1> HIDE DEF m
<1>9. /\ Splits(m) = S \cup T /\ m.root = r /\ m.splits[s].axis = l.splits[s].axis
      /\ \A t \in S : t # s => m.splits[t] = l.splits[t] /\ Children(m, t) = Children(l, t)
      /\ \A t \in T : t # s /\ t \notin S /\ m.splits[t] = ins.splits[t] /\ Children(m, t) = Children(ins, t)
  BY <1>3, <1>6, <1>8
<1>10. KidsGrafted(S, K, s, q, T, J, L)
  <2>1. ASSUME NEW t \in S \cup T PROVE L[t] = NodesOf(Children(m, t))
    BY <1>9 DEF KidsOn
  <2>2. (\A t \in S : K[t] = NodesOf(Children(l, t))) /\ \A t \in T : J[t] = NodesOf(Children(ins, t))
    BY <1>1, SplitIs
  <2>3. \A t \in S : L[t] = IF t = s THEN K[s] \cup {q} ELSE K[t]
    <3> SUFFICES ASSUME NEW t \in S PROVE L[t] = IF t = s THEN K[s] \cup {q} ELSE K[t]
      OBVIOUS
    <3>1. L[t] = NodesOf(Children(m, t)) /\ K[t] = NodesOf(Children(l, t))
      BY <2>1, <2>2
    <3>2. CASE t = s
      <4>1. Children(m, t) = Z /\ K[s] = NodesOf(A)
        BY <1>8, <3>1, <3>2
      <4> QED BY <1>5, <3>1, <3>2, <4>1
    <3>3. CASE t # s
      <4>1. Children(m, t) = Children(l, t)
        BY <1>9, <3>3
      <4> QED BY <3>1, <3>3, <4>1
    <3> QED BY <3>2, <3>3
  <2>4. \A t \in T : L[t] = J[t]
    BY <1>9, <2>1, <2>2
  <2> HIDE DEF S, T, K, J, L, q
  <2> QED BY <2>3, <2>4 DEF KidsGrafted
<1>11. Grafts(r, S, K, q, T, J, L)
  <2>1. \A x \in NodesIn(r, S, K) : x \notin NodesIn(q, T, J)
    BY <1>2 DEF Apart
  <2>2. s \in S
    OBVIOUS
  <2> HIDE DEF S, T, K, J, L, q, r
  <2> QED BY <1>1, <1>10, <2>1, <2>2, FrameGrafted
<1>12. Tree(m)
  <2>1. IsFiniteSet(Splits(m))
    BY <1>6, <1>8 DEF Typed
  <2>2. ASSUME NEW t \in Splits(m)
        PROVE  /\ m.splits[t] = [axis |-> m.splits[t].axis, children |-> Children(m, t)]
               /\ m.splits[t].axis \in Axes /\ Children(m, t) \in Seq(Kid) /\ Distinct(Children(m, t))
    <3>1. CASE t = s
      <4>1. l.splits[s].axis \in Axes
        BY <1>1, SplitIs
      <4> QED BY <1>4, <1>5, <1>8, <1>9, <3>1, <4>1
    <3>2. CASE t # s /\ t \in S
      <4>1. Distinct(Children(l, t))
        BY <3>2 DEF Tree
      <4> QED BY <1>1, <1>9, <3>2, <4>1, SplitIs
    <3>3. CASE t \in T
      BY <1>1, <1>9, <3>3, SplitIs
    <3> QED BY <1>9, <3>1, <3>2, <3>3
  <2>3. Frame(m.root, Splits(m), L)
    BY <1>9, <1>11 DEF Grafts
  <2>4. m.root \in Ends
    BY <1>1, <1>9 DEF Typed
  <2> QED BY <1>8, <2>1, <2>2, <2>3, <2>4, IsTree
<1>13. PanesOf(m) = PanesOf(l) \cup PanesOf(ins)
  <2>1. Nodes(m) = NodesIn(r, S \cup T, L)
    BY <1>9, <1>12, NodesAre DEF Tree
  <2>2. Nodes(m) = Nodes(l) \cup Nodes(ins)
    BY <1>2, <1>11, <2>1 DEF Grafts
  <2>3. \A x \in Nodes(l) : x \notin T
    BY <1>2 DEF Apart
  <2>4. \A x \in Nodes(ins) : x \notin S
    BY <1>2 DEF Apart
  <2> QED BY <1>9, <2>2, <2>3, <2>4 DEF PanesOf
<1>14. Grafted(l, ins, s, Z) = m
  BY DEF Grafted, m, both
<1> HIDE DEF A, q
<1> QED BY <1>3, <1>5, <1>8, <1>9, <1>12, <1>13, <1>14 DEF A, q

(* Half of the weight of a child goes to the one next to it.                  *)
Beside(A, i, at, q) ==
    InsertAt(Reweighed(A, i, A[i].weight - (A[i].weight \div 2)), at, Child(A[i].weight \div 2, q))

\* Half of the weight goes to the new child: the split is full as it was.
LEMMA BesideIs ==
  ASSUME NEW A \in Seq(Kid), Full(A), NEW i \in 1..Len(A), A[i].weight >= 2, Len(A) < MaxSplitChildren,
         NEW at \in {i, i + 1}, NEW q \in Ends
  PROVE  LET Z == Beside(A, i, at, q)
         IN Adds(A, at, q, Z) /\ Full(Z) /\ Z[at].node = q /\ at \in 1..Len(Z) /\ at \in 1..(Len(A) + 1)
<1> DEFINE n == Len(A) w == A[i].weight h == w \div 2 B == Reweighed(A, i, w - h) x == Child(h, q)
           Z == InsertAt(B, at, x)
<1>1. n \in Nat /\ n \in 2..MaxSplitChildren /\ w \in Nat /\ SumOf(A) = SplitTotal
      /\ \A k \in 1..n : A[k].weight >= 1 /\ A[k].weight \in Nat
  BY KidsOf DEF Full
<1>2. h \in Nat /\ h >= 1 /\ w - h \in Nat /\ w - h >= 1
  <2>1. w >= 2
    OBVIOUS
  <2> HIDE DEF w
  <2> QED BY <1>1, <2>1
<1>3. at \in 1..(n + 1)
  BY <1>1
<1>4. x \in Kid /\ x.weight = h /\ x.node = q
  <2> HIDE DEF h
  <2> QED BY <1>2 DEF Child, Kid
<1>5. B \in Seq(Kid) /\ Len(B) = n
  <2> HIDE DEF h, w
  <2> QED BY <1>2, ReweighedIs
<1>6. \A k \in 1..n : B[k].node = A[k].node /\ B[k].weight = IF k = i THEN w - h ELSE A[k].weight
  <2> HIDE DEF h, w
  <2> QED BY <1>2, ReweighedIs
<1>7. SumOf(B) = SumOf(A) - w + (w - h)
  <2> DEFINE v == w - h
  <2>1. v \in Nat
    BY <1>2
  <2> HIDE DEF v
  <2>2. SumOf(Reweighed(A, i, v)) = SumOf(A) - A[i].weight + v
    BY <2>1, ReweighedIs
  <2> QED BY <2>2 DEF v
<1> HIDE DEF B, x
<1>8. /\ Z \in Seq(Kid) /\ Len(Z) = n + 1
      /\ \A k \in 1..(n + 1) : Z[k] = IF k < at THEN B[k] ELSE IF k = at THEN x ELSE B[k - 1]
  <2>1. at \in 1..(Len(B) + 1) /\ x \in Kid /\ B \in Seq(Kid)
    BY <1>3, <1>4, <1>5
  <2>2. /\ Z \in Seq(Kid) /\ Len(Z) = Len(B) + 1
        /\ \A k \in 1..Len(Z) : Z[k] = IF k < at THEN B[k] ELSE IF k = at THEN x ELSE B[k - 1]
    BY <2>1, KidInserted
  <2> HIDE DEF Z
  <2> QED BY <1>5, <2>2
<1>9. \A k \in 1..(n + 1) : Z[k] = IF k < at THEN B[k] ELSE IF k = at THEN x ELSE B[k - 1]
  BY <1>8
<1>10. SumOf(Z) = SplitTotal
  <2>1. at \in 1..(Len(B) + 1)
    BY <1>3, <1>5
  <2>2. SumOf(Z) = SumOf(B) + x.weight
    BY <1>4, <1>5, <2>1, InsertedSum
  <2> HIDE DEF Z, h, w
  <2>3. SplitTotal \in Nat
    BY SplitAssumption
  <2> QED BY <1>1, <1>2, <1>4, <1>7, <2>2, <2>3
<1> HIDE DEF Z
<1>11. ASSUME NEW k \in 1..(n + 1)
       PROVE  /\ Z[k].node = IF k < at THEN A[k].node ELSE IF k = at THEN q ELSE A[k - 1].node
              /\ Z[k].weight >= 1
  <2> HIDE DEF n, h, w
  <2>1. CASE k < at
    <3>1. k \in 1..n
      BY <1>1, <1>3, <2>1
    <3>2. Z[k] = B[k]
      BY <1>9, <2>1
    <3>3. B[k].node = A[k].node /\ B[k].weight >= 1
      BY <1>1, <1>2, <1>6, <3>1
    <3> QED BY <2>1, <3>2, <3>3
  <2>2. CASE k = at
    BY <1>2, <1>4, <1>9, <2>2
  <2>3. CASE k > at
    <3>1. k - 1 \in 1..n /\ ~(k < at) /\ k # at
      BY <1>1, <1>3, <2>3
    <3>2. Z[k] = B[k - 1]
      BY <1>9, <3>1
    <3>3. B[k - 1].node = A[k - 1].node /\ B[k - 1].weight >= 1
      BY <1>1, <1>2, <1>6, <3>1
    <3> QED BY <3>1, <3>2, <3>3
  <2> QED BY <1>3, <2>1, <2>2, <2>3
<1>12. Beside(A, i, at, q) = Z
  BY DEF Beside, Z, B, x
<1>13. n + 1 \in 2..MaxSplitChildren
  <2>1. n < MaxSplitChildren
    OBVIOUS
  <2> HIDE DEF n
  <2> QED BY <1>1, <2>1, SplitAssumption
<1>14. Full(Z)
  BY <1>8, <1>10, <1>11, <1>13 DEF Full
<1>15. Adds(A, at, q, Z)
  BY <1>8, <1>11 DEF Adds
<1>16. Z[at].node = q
  BY <1>3, <1>11
<1> QED BY <1>3, <1>8, <1>12, <1>14, <1>15, <1>16

\* A grafted tree: its root alone could be one with the split that holds it.
LEMMA GraftSettles ==
  ASSUME NEW l, Tree(l), NEW ins, Sound(ins), Apart(l, ins), NEW s \in Splits(l),
         NEW at \in 1..(Len(Children(l, s)) + 1), NEW Z, Adds(Children(l, s), at, ins.root, Z), Full(Z),
         \A t \in Splits(l) : t # s => Full(Children(l, t)),
         \A t \in Splits(l) : \A x \in NodesOf(Children(l, t)) : ~Merges(l, t, x)
  PROVE  Almost(Grafted(l, ins, s, Z), ins.root)
<1> DEFINE A == Children(l, s) q == ins.root m == Grafted(l, ins, s, Z) S == Splits(l) T == Splits(ins)
<1>1. Tree(ins) /\ (\A t \in T : Full(Children(ins, t)))
      /\ \A t \in T : \A x \in NodesOf(Children(ins, t)) : ~Merges(ins, t, x)
  BY DEF Sound
<1>2. /\ Tree(m) /\ m.root = l.root /\ Splits(m) = Splits(l) \cup Splits(ins)
      /\ Children(m, s) = Z /\ m.splits[s].axis = l.splits[s].axis
      /\ \A t \in Splits(l) : t # s => m.splits[t] = l.splits[t] /\ Children(m, t) = Children(l, t)
      /\ \A t \in Splits(ins) : m.splits[t] = ins.splits[t] /\ Children(m, t) = Children(ins, t)
      /\ PanesOf(m) = PanesOf(l) \cup PanesOf(ins)
      /\ NodesOf(Z) = NodesOf(Children(l, s)) \cup {ins.root}
      /\ Splits(l) \cap Splits(ins) = {}
  BY <1>1, GraftedIs
<1>3. Len(Z) = Len(A) + 1
  BY DEF Adds
<1> HIDE DEF m
<1>4. \A t \in Splits(m) : Full(Children(m, t))
  <2> SUFFICES ASSUME NEW t \in Splits(m) PROVE Full(Children(m, t))
    OBVIOUS
  <2>1. CASE t = s
    BY <1>2, <2>1
  <2>2. CASE t \in S /\ t # s
    BY <1>2, <2>2
  <2>3. CASE t \in T
    BY <1>1, <1>2, <2>3
  <2> QED BY <1>2, <2>1, <2>2, <2>3
<1>5. ASSUME NEW t \in S
      PROVE  /\ m.splits[t].axis = l.splits[t].axis /\ Len(Children(l, t)) <= Len(Children(m, t))
             /\ Len(Children(l, t)) \in Nat /\ Len(Children(m, t)) \in Nat
  <2>1. Len(Children(l, t)) \in Nat /\ Len(Children(m, t)) \in Nat
    BY <1>2, LengthIs
  <2>2. CASE t = s
    <3>1. Len(Children(m, t)) = Len(Children(l, t)) + 1
      BY <1>2, <1>3, <2>2
    <3> QED BY <1>2, <2>1, <2>2, <3>1
  <2>3. CASE t # s
    <3>1. m.splits[t] = l.splits[t] /\ Children(m, t) = Children(l, t)
      BY <1>2, <2>3
    <3> QED BY <2>1, <3>1
  <2> QED BY <2>2, <2>3
<1>6. ASSUME NEW t \in Splits(m), NEW x \in NodesOf(Children(m, t)), x # q PROVE ~Merges(m, t, x)
  <2>1. SUFFICES ASSUME Merges(m, t, x) PROVE FALSE
    OBVIOUS
  <2>2. x \in Splits(m)
    BY <2>1 DEF Merges
  <2>3. CASE t \in S
    <3>1. x \in NodesOf(Children(l, t))
      <4>1. CASE t = s
        BY <1>2, <1>6, <4>1
      <4>2. CASE t # s
        BY <1>2, <2>3, <4>2
      <4> QED BY <4>1, <4>2
    <3>2. x \in S
      <4>1. x \in Nodes(l)
        BY <2>3, <3>1, TreeNodes
      <4>2. x \notin T
        BY <1>1, <4>1, TreeNodes DEF Apart
      <4> QED BY <1>2, <2>2, <4>2
    <3>3. Merges(l, t, x)
      BY <1>5, <2>1, <2>3, <3>2, MergesOn
    <3> QED BY <2>3, <3>1, <3>3
  <2>4. CASE t \in T
    <3>1. m.splits[t] = ins.splits[t] /\ Children(m, t) = Children(ins, t)
      BY <1>2, <2>4
    <3>2. x \in NodesOf(Children(ins, t))
      BY <3>1
    <3>3. x \in T
      <4>1. x \in Nodes(ins)
        BY <1>1, <2>4, <3>2, TreeNodes
      <4>2. x \notin S
        BY <4>1, TreeNodes DEF Apart
      <4> QED BY <1>2, <2>2, <4>2
    <3>4. m.splits[x] = ins.splits[x] /\ Children(m, x) = Children(ins, x)
      BY <1>2, <3>3
    <3>5. Merges(ins, t, x)
      BY <2>1, <3>1, <3>3, <3>4 DEF Merges
    <3> QED BY <1>1, <2>4, <3>2, <3>5
  <2> QED BY <1>2, <2>3, <2>4
<1> HIDE DEF q
<1>7. Almost(m, q)
  BY <1>2, <1>4, <1>6 DEF Almost
<1> QED BY <1>7 DEF m, q

\* The nodes of a list in which one was replaced.
LEMMA RenamedNodes ==
  ASSUME NEW A \in Seq(Kid), NEW i \in 1..Len(A), NEW x \in Ends, Distinct(A), x \notin NodesOf(A)
  PROVE  LET Z == Renamed(A, i, x)
         IN NodesOf(Z) = (NodesOf(A) \ {A[i].node}) \cup {x} /\ Distinct(Z)
<1> DEFINE Z == Renamed(A, i, x)
<1>1. Z \in Seq(Kid) /\ SameWeights(A, Z)
  BY RenamedIs
<1>2. \A k \in 1..Len(A) : Z[k].node = IF k = i THEN x ELSE A[k].node
  BY RenamedIs
<1> HIDE DEF Z
<1>3. Len(Z) = Len(A)
  BY <1>1 DEF SameWeights
<1>4. \A j, k \in 1..Len(A) : A[j].node = A[k].node => j = k
  BY DEF Distinct
<1>5. \A k \in 1..Len(A) : A[k].node # x
  BY DEF NodesOf
<1>6. Distinct(Z)
  BY <1>2, <1>3, <1>4, <1>5 DEF Distinct
<1>7. ASSUME NEW y PROVE y \in NodesOf(Z) <=> (y \in NodesOf(A) /\ y # A[i].node) \/ y = x
  <2>1. y \in NodesOf(Z) <=> \E k \in 1..Len(A) : Z[k].node = y
    BY <1>3 DEF NodesOf
  <2>2. y \in NodesOf(A) <=> \E k \in 1..Len(A) : A[k].node = y
    BY DEF NodesOf
  <2> QED BY <1>2, <1>4, <2>1, <2>2
<1>8. NodesOf(Z) = (NodesOf(A) \ {A[i].node}) \cup {x}
  BY <1>7
<1> QED BY <1>6, <1>8 DEF Z

\* A node takes the place of another: the weights stay.
Replaces(l, w, target, new, t) ==
    /\ w.splits[t] = [axis |-> l.splits[t].axis, children |-> Children(w, t)]
    /\ Children(w, t) \in Seq(Kid) /\ SameWeights(Children(l, t), Children(w, t)) /\ Distinct(Children(w, t))
    /\ NodesOf(Children(w, t)) =
         IF target \in NodesOf(Children(l, t)) THEN (NodesOf(Children(l, t)) \ {target}) \cup {new}
         ELSE NodesOf(Children(l, t))

\* A node in the place of a pane: only the split that held the pane changes.
LEMMA WithNodeIs ==
  ASSUME NEW l, Tree(l), NEW target \in PanesOf(l), NEW new \in SplitIds \ Splits(l)
  PROVE  LET w == WithNode(l, target, new)
         IN /\ w.root = IF target = l.root THEN new ELSE l.root
            /\ Splits(w) = Splits(l)
            /\ \A t \in Splits(l) : Replaces(l, w, target, new, t)
            /\ \A t \in Splits(l) : target = l.root \/ t # HolderOf(l, target) => w.splits[t] = l.splits[t]
<1> DEFINE w == WithNode(l, target, new)
<1>1. Typed(l) /\ target \in Nodes(l) /\ new \in Ends
  BY DEF Tree, PanesOf, Ends
<1>2. new \notin Nodes(l)
  BY TreeNodes
<1>3. ASSUME NEW t \in Splits(l), w.splits[t] = l.splits[t], target \notin NodesOf(Children(l, t))
      PROVE  Replaces(l, w, target, new, t)
  <2>1. /\ Children(l, t) \in Seq(Kid) /\ Distinct(Children(l, t))
        /\ l.splits[t] = [axis |-> l.splits[t].axis, children |-> Children(l, t)]
    BY <1>1, SplitIs DEF Tree
  <2>2. Children(w, t) = Children(l, t)
    BY <1>3 DEF Children
  <2>3. SameWeights(Children(l, t), Children(l, t))
    BY DEF SameWeights
  <2> HIDE DEF w
  <2> QED BY <1>3, <2>1, <2>2, <2>3 DEF Replaces
<1>4. CASE target = l.root
  <2>1. w.root = new /\ w.splits = l.splits
    BY <1>4 DEF WithNode, Layout
  <2>2. Splits(w) = Splits(l)
    BY <2>1 DEF Splits
  <2>3. \A t \in Splits(l) : target \notin NodesOf(Children(l, t))
    BY <1>4, OneHolder
  <2> HIDE DEF w
  <2>4. \A t \in Splits(l) : Replaces(l, w, target, new, t) /\ w.splits[t] = l.splits[t]
    BY <1>3, <2>1, <2>3
  <2> QED BY <1>4, <2>1, <2>2, <2>4 DEF w
<1>5. CASE target # l.root
  <2> DEFINE s == HolderOf(l, target) A == Children(l, s) i == Place(l, s, target) Z == Renamed(A, i, new)
  <2>1. s \in Splits(l) /\ i \in 1..Len(A) /\ A[i].node = target
    BY <1>1, <1>5, Holder
  <2>2. w = WithChildren(l, s, Z)
    BY <1>5 DEF WithNode, Renamed
  <2> HIDE DEF s, i, w
  <2>3. A \in Seq(Kid) /\ Distinct(A) /\ new \notin NodesOf(A) /\ target \in NodesOf(A)
    BY <1>1, <1>2, <2>1, SplitIs, LengthIs, TreeNodes DEF Tree
  <2> HIDE DEF A
  <2>4. Z \in Seq(Kid) /\ SameWeights(A, Z)
    BY <1>1, <2>1, <2>3, RenamedIs
  <2>5. NodesOf(Z) = (NodesOf(A) \ {A[i].node}) \cup {new}
    BY <1>1, <2>1, <2>3, RenamedNodes
  <2>6. Distinct(Z)
    BY <1>1, <2>1, <2>3, RenamedNodes
  <2> HIDE DEF Z
  <2>7. /\ w.root = l.root /\ w = Layout(w.root, w.splits) /\ Splits(w) = Splits(l)
        /\ w.splits = [t \in Splits(w) |-> w.splits[t]]
        /\ Children(w, s) = Z /\ w.splits[s].axis = l.splits[s].axis
        /\ w.splits[s] = [axis |-> w.splits[s].axis, children |-> Z]
        /\ \A t \in Splits(l) : t # s => w.splits[t] = l.splits[t] /\ Children(w, t) = Children(l, t)
    BY <1>1, <2>1, <2>2, <2>4, WithChildrenIs
  <2>8. ASSUME NEW t \in Splits(l) PROVE Replaces(l, w, target, new, t)
    <3>1. CASE t = s
      BY <2>1, <2>3, <2>4, <2>5, <2>6, <2>7, <3>1 DEF Replaces, A
    <3>2. CASE t # s
      <4>1. target \notin NodesOf(Children(l, t))
        BY <2>1, <2>3, <3>2, OneHolder DEF A
      <4> QED BY <1>3, <2>7, <3>2, <4>1
    <3> QED BY <3>1, <3>2
  <2> QED BY <1>5, <2>7, <2>8 DEF s, w
<1> QED BY <1>4, <1>5

Covered(l, target, new, split) ==
    LET w == WithNode(l, target, new)
    IN Layout(w.root, [t \in Splits(l) \cup {new} |-> IF t = new THEN split ELSE w.splits[t]])

(* A new split that holds a pane alone, in the place of the pane.             *)
LEMMA CoveredIs ==
  ASSUME NEW l, Tree(l), NEW target \in PanesOf(l), NEW new \in SplitIds \ Splits(l),
         NEW split \in Split, NodesOf(split.children) = {target}, Distinct(split.children)
  PROVE  LET m == Covered(l, target, new, split)
         IN /\ Tree(m) /\ m.root = (IF target = l.root THEN new ELSE l.root)
            /\ Splits(m) = Splits(l) \cup {new}
            /\ m.splits[new] = split /\ Children(m, new) = split.children
            /\ \A t \in Splits(l) : /\ Replaces(l, m, target, new, t)
                                    /\ m.splits[t] = WithNode(l, target, new).splits[t]
            /\ PanesOf(m) = PanesOf(l)
<1> DEFINE w == WithNode(l, target, new) S == Splits(l) U == S \cup {new}
           f == [t \in U |-> IF t = new THEN split ELSE w.splits[t]] m == Layout(w.root, f)
           r == l.root q == IF target = r THEN new ELSE r K == KidsOn(l) L == KidsOn(m)
<1>1. /\ w.root = IF target = l.root THEN new ELSE l.root
      /\ Splits(w) = Splits(l)
      /\ \A t \in Splits(l) : Replaces(l, w, target, new, t)
      /\ \A t \in Splits(l) : target = l.root \/ t # HolderOf(l, target) => w.splits[t] = l.splits[t]
  BY WithNodeIs
<1>2. Typed(l) /\ Frame(r, S, K) /\ IsFiniteSet(S) /\ r \in Ends /\ new \in Ends
  BY DEF Tree, Typed, Ends
<1> HIDE DEF w
<1>3. m.root = q /\ m.splits = f /\ m = Layout(m.root, m.splits)
  BY <1>1 DEF Layout
<1>4. Covered(l, target, new, split) = m
  BY DEF Covered, w
<1>5. f[new] = split /\ DOMAIN f = U /\ \A t \in S : f[t] = w.splits[t]
  BY <1>1
<1> HIDE DEF f, m
<1>6. Splits(m) = U /\ m.splits[new] = split /\ Children(m, new) = split.children
      /\ \A t \in S : m.splits[t] = w.splits[t] /\ Children(m, t) = Children(w, t)
  BY <1>3, <1>5 DEF Splits, Children
<1>7. \A t \in S : Replaces(l, m, target, new, t)
  BY <1>1, <1>6 DEF Replaces
<1>8. KidsCovered(S, K, target, new, L)
  <2>1. \A t \in S : L[t] = IF target \in K[t] THEN (K[t] \ {target}) \cup {new} ELSE K[t]
    <3> SUFFICES ASSUME NEW t \in S PROVE L[t] = IF target \in K[t] THEN (K[t] \ {target}) \cup {new} ELSE K[t]
      OBVIOUS
    <3>1. L[t] = NodesOf(Children(m, t)) /\ K[t] = NodesOf(Children(l, t))
      BY <1>2, <1>6, SplitIs DEF KidsOn
    <3>2. Replaces(l, m, target, new, t)
      BY <1>7
    <3> HIDE DEF L, K, S
    <3> QED BY <3>1, <3>2 DEF Replaces
  <2>2. L[new] = {target}
    BY <1>6 DEF KidsOn
  <2> HIDE DEF L, K, S
  <2> QED BY <2>1, <2>2 DEF KidsCovered
<1>9. Covers(r, S, K, target, new, L)
  <2>1. target \in NodesIn(r, S, K) /\ target \notin S /\ new \in SplitIds \ S
    BY <1>2, NodesAre DEF PanesOf
  <2> HIDE DEF r, S, K, L
  <2> QED BY <1>2, <1>8, <2>1, FrameCovered
<1>10. Frame(q, U, L) /\ NodesIn(q, U, L) = NodesIn(r, S, K) \cup {new}
  BY <1>9 DEF Covers
<1>11. Tree(m)
  <2>1. IsFiniteSet(Splits(m))
    BY <1>2, <1>6, FS_AddElement
  <2>2. ASSUME NEW t \in Splits(m)
        PROVE  /\ m.splits[t] = [axis |-> m.splits[t].axis, children |-> Children(m, t)]
               /\ m.splits[t].axis \in Axes /\ Children(m, t) \in Seq(Kid) /\ Distinct(Children(m, t))
    <3>1. CASE t \in S
      <4>1. l.splits[t].axis \in Axes
        BY <1>2, <3>1, SplitIs
      <4>2. Replaces(l, m, target, new, t)
        BY <1>7, <3>1
      <4> DEFINE a == l.splits[t].axis c == Children(m, t) e == m.splits[t]
      <4>3. e = [axis |-> a, children |-> c] /\ c \in Seq(Kid) /\ Distinct(c)
        BY <4>2 DEF Replaces
      <4> HIDE DEF a, c, e
      <4>4. e.axis = a /\ e = [axis |-> e.axis, children |-> c]
        BY <4>3
      <4>5. a \in Axes
        BY <4>1 DEF a
      <4> QED BY <4>3, <4>4, <4>5 DEF c, e
    <3>2. CASE t = new
      <4>1. split = [axis |-> split.axis, children |-> split.children] /\ split.axis \in Axes
            /\ split.children \in Seq(Kid)
        BY DEF Split
      <4>2. m.splits[t] = split /\ Children(m, t) = split.children
        BY <1>6, <3>2
      <4> QED BY <4>1, <4>2
    <3> QED BY <1>6, <3>1, <3>2
  <2>3. m.splits = [t \in Splits(m) |-> m.splits[t]]
    <3>1. f = [t \in U |-> f[t]]
      BY DEF f
    <3> QED BY <1>3, <1>6, <3>1
  <2>4. m.root \in Ends /\ Frame(m.root, Splits(m), KidsOn(m))
    BY <1>2, <1>3, <1>6, <1>10
  <2> QED BY <1>3, <2>1, <2>2, <2>3, <2>4, IsTree
<1>12. PanesOf(m) = PanesOf(l)
  <2>1. Nodes(m) = NodesIn(q, U, L) /\ Nodes(l) = NodesIn(r, S, K)
    BY <1>2, <1>3, <1>6, <1>11, NodesAre DEF Tree
  <2>2. new \notin Nodes(l)
    BY TreeNodes
  <2> HIDE DEF L, K, q, r
  <2> QED BY <1>6, <1>10, <2>1, <2>2 DEF PanesOf
<1> QED BY <1>3, <1>4, <1>6, <1>7, <1>11, <1>12 DEF w

At(side, i) == IF side.leading THEN i ELSE i + 1

\* On the axis of the split that holds the target, an insertion is a graft beside it
\* (insert_sibling).
LEMMA SiblingIs ==
  ASSUME NEW l, Tree(l), NEW ins, Tree(ins), NEW target \in PanesOf(l), target # l.root,
         NEW side \in Sides, NEW new,
         l.splits[HolderOf(l, target)].axis = side.axis
  PROVE  LET s == HolderOf(l, target)
             i == Place(l, s, target)
         IN WithInserted(l, target, side, ins, new)
              = NormalizeChild(Grafted(l, ins, s, Beside(Children(l, s), i, At(side, i), ins.root)), s, At(side, i))
<1> DEFINE s == HolderOf(l, target) i == Place(l, s, target) A == Children(l, s) both == Together(l, ins)
           Z == Beside(A, i, At(side, i), ins.root)
<1>1. s \in Splits(l) /\ Typed(l) /\ Typed(ins)
  BY Holder DEF PanesOf, Tree
<1>2. Children(both, s) = A
  <2> HIDE DEF both, s
  <2>1. /\ Typed(both) /\ both.root = l.root /\ Splits(both) = Splits(l) \cup Splits(ins)
        /\ \A t \in Splits(l) : both.splits[t] = l.splits[t] /\ Children(both, t) = Children(l, t)
        /\ \A t \in Splits(ins) : t \notin Splits(l) =>
              both.splits[t] = ins.splits[t] /\ Children(both, t) = Children(ins, t)
    BY <1>1, TogetherIs DEF both
  <2> QED BY <1>1, <2>1
<1>3. WithInserted(l, target, side, ins, new) = WithSibling(both, s, i, side, ins.root)
  BY DEF WithInserted
<1> HIDE DEF both, s, i, A
<1>4. WithSibling(both, s, i, side, ins.root) = NormalizeChild(WithChildren(both, s, Z), s, At(side, i))
  BY <1>2 DEF WithSibling, Beside, Reweighed, At
<1>5. Grafted(l, ins, s, Z) = WithChildren(both, s, Z)
  BY DEF Grafted, both
<1> HIDE DEF Z
<1> QED BY <1>3, <1>4, <1>5 DEF Z, A, s, i

Half == SplitTotal \div 2
HeldAlone(target, side) == [axis |-> side.axis, children |-> <<Child(Half, target)>>]
Halves(side, target, q) ==
    LET nodes == IF side.leading THEN <<q, target>> ELSE <<target, q>>
    IN <<Child(Half, nodes[1]), Child(SplitTotal - Half, nodes[2])>>

\* The halves of a new split: one child first, then both, full.
LEMMA HalvesAre ==
  ASSUME NEW side \in Sides, NEW target \in Ends, NEW q \in Ends
  PROVE  LET one == HeldAlone(target, side)
             Z == Halves(side, target, q)
             at == IF side.leading THEN 1 ELSE 2
         IN /\ one \in Split /\ one.axis = side.axis /\ Len(one.children) = 1
            /\ NodesOf(one.children) = {target} /\ Distinct(one.children)
            /\ Adds(one.children, at, q, Z) /\ Full(Z) /\ Len(Z) = 2
            /\ at \in 1..Len(Z) /\ at \in 1..(Len(one.children) + 1) /\ Z[at].node = q
<1> DEFINE one == HeldAlone(target, side) B == one.children Z == Halves(side, target, q)
           at == IF side.leading THEN 1 ELSE 2
           m == IF side.leading THEN q ELSE target n == IF side.leading THEN target ELSE q
           x == Child(Half, m) y == Child(SplitTotal - Half, n) z == Child(Half, target)
<1>1. side.axis \in Axes /\ side.leading \in BOOLEAN
  BY DEF Sides
<1>2. Half \in Nat /\ Half >= 1 /\ SplitTotal - Half \in Nat /\ SplitTotal - Half >= 1 /\ Half + (SplitTotal - Half) = SplitTotal
  <2> DEFINE h == SplitTotal \div 2 M == MaxSplitChildren
  <2>1. M * M >= 4
    <3>1. M \in Nat /\ M >= 2
      BY SplitAssumption
    <3> HIDE DEF M
    <3>2. M * M >= 2 * 2
      BY <3>1
    <3> QED BY <3>2
  <2>2. SplitTotal \in Nat /\ SplitTotal >= M * M
    BY SplitAssumption
  <2>3. M * M \in Nat
    BY SplitAssumption
  <2> DEFINE MM == M * M
  <2> HIDE DEF M, MM
  <2>4. SplitTotal >= 4
    BY <2>1, <2>2, <2>3 DEF MM
  <2>5. h \in Nat /\ h >= 1 /\ SplitTotal - h >= 1 /\ SplitTotal - h \in Nat
    BY <2>2, <2>4
  <2> HIDE DEF h
  <2>6. h + (SplitTotal - h) = SplitTotal
    BY <2>2, <2>5
  <2> QED BY <2>5, <2>6 DEF Half, h
<1>3. /\ x \in Kid /\ x.weight = Half /\ x.node = m
      /\ y \in Kid /\ y.weight = SplitTotal - Half /\ y.node = n
      /\ z \in Kid /\ z.node = target
  BY <1>2 DEF Child, Kid
<1>4. one = [axis |-> side.axis, children |-> <<z>>] /\ Z = <<x, y>>
  BY DEF HeldAlone, Halves
<1> HIDE DEF x, y, z, Z
<1>5. B = <<z>> /\ one.axis = side.axis /\ one \in Split
  <2>1. <<z>> \in Seq(Kid)
    BY <1>3
  <2> HIDE DEF one
  <2>2. one.axis = side.axis /\ one.children = <<z>>
    BY <1>4
  <2>3. one \in Split
    BY <1>1, <1>4, <2>1 DEF Split
  <2> QED BY <2>2, <2>3
<1> HIDE DEF one
<1>6. B \in Seq(Kid) /\ Len(B) = 1 /\ B[1] = z
  BY <1>3, <1>5
<1>7. Z \in Seq(Kid) /\ Len(Z) = 2 /\ Z[1] = x /\ Z[2] = y
  BY <1>3, <1>4
<1> HIDE DEF B
<1>8. NodesOf(B) = {target} /\ Distinct(B)
  <2>1. \A k \in 1..Len(B) : k = 1
    BY <1>6
  <2>2. Distinct(B)
    BY <2>1 DEF Distinct
  <2>3. NodesOf(B) = {B[k].node : k \in 1..1}
    BY <1>6 DEF NodesOf
  <2>4. {B[k].node : k \in 1..1} = {target}
    BY <1>3, <1>6
  <2> QED BY <2>2, <2>3, <2>4
<1>9. Full(Z)
  <2> DEFINE f == [k \in 0..2 |-> IF k = 0 THEN 0 ELSE IF k = 1 THEN Half ELSE SplitTotal]
  <2>1. Sums(f, Z)
    <3>1. f \in [0..2 -> Int]
      BY <1>2, SplitAssumption
    <3>2. f[0] = 0 /\ f[1] = Half /\ f[2] = SplitTotal
      OBVIOUS
    <3> HIDE DEF f
    <3>3. ASSUME NEW k \in 1..2 PROVE f[k] = f[k - 1] + Z[k].weight
      <4>1. CASE k = 1
        BY <1>2, <1>3, <1>7, <3>2, <4>1
      <4>2. CASE k = 2
        <5>1. k - 1 = 1
          BY <4>2
        <5> QED BY <1>2, <1>3, <1>7, <3>2, <4>2, <5>1
      <4> QED BY <4>1, <4>2
    <3> QED BY <1>7, <3>1, <3>2, <3>3 DEF Sums
  <2>2. f[2] = SplitTotal
    OBVIOUS
  <2> HIDE DEF f
  <2>3. SumOf(Z) = SplitTotal
    BY <1>7, <2>1, <2>2, SumIs
  <2>4. \A k \in 1..2 : Z[k].weight >= 1
    <3>1. \A k \in 1..2 : k = 1 \/ k = 2
      OBVIOUS
    <3> QED BY <1>2, <1>3, <1>7, <3>1
  <2> QED BY <1>7, <2>3, <2>4, SplitAssumption DEF Full
<1>10. at \in 1..2
  BY <1>1
<1>11. Z[at].node = q
  BY <1>1, <1>3, <1>7
<1>12. Adds(B, at, q, Z)
  <2>1. ASSUME NEW k \in 1..2
        PROVE  Z[k].node = IF k < at THEN B[k].node ELSE IF k = at THEN q ELSE B[k - 1].node
    <3>1. CASE k = 1 /\ at = 1
      BY <1>11, <3>1
    <3>2. CASE k = 2 /\ at = 2
      BY <1>11, <3>2
    <3>3. CASE k = 1 /\ at = 2
      BY <1>1, <1>3, <1>6, <1>7, <3>3
    <3>4. CASE k = 2 /\ at = 1
      <4>1. k - 1 = 1 /\ ~(k < at) /\ k # at
        BY <3>4
      <4>2. n = target
        BY <3>4
      <4> QED BY <1>3, <1>6, <1>7, <3>4, <4>1, <4>2
    <3> QED BY <1>10, <3>1, <3>2, <3>3, <3>4
  <2>2. Len(Z) = Len(B) + 1
    BY <1>6, <1>7
  <2> QED BY <1>7, <2>1, <2>2 DEF Adds
<1>13. Len(B) + 1 = 2
  BY <1>6
<1> HIDE DEF at
<1> QED BY <1>5, <1>6, <1>7, <1>8, <1>9, <1>10, <1>11, <1>12, <1>13 DEF one, Z, B, at

\* A new split over the target has no node in common with what is inserted.
LEMMA CoveredApart ==
  ASSUME NEW l, Tree(l), NEW ins, Tree(ins), Apart(l, ins), NEW target \in PanesOf(l),
         NEW new \in SplitIds \ Splits(l), new \notin Splits(ins), NEW side \in Sides
  PROVE  LET c == Covered(l, target, new, HeldAlone(target, side))
             one == HeldAlone(target, side)
         IN /\ Tree(c) /\ c.root = (IF target = l.root THEN new ELSE l.root)
            /\ Splits(c) = Splits(l) \cup {new} /\ c.splits[new] = one /\ Children(c, new) = one.children
            /\ \A t \in Splits(l) : /\ Replaces(l, c, target, new, t)
                                    /\ c.splits[t] = WithNode(l, target, new).splits[t]
            /\ PanesOf(c) = PanesOf(l) /\ Apart(c, ins)
<1> DEFINE one == HeldAlone(target, side) c == Covered(l, target, new, one)
<1>1. target \in Ends
  <2>1. target \in Nodes(l) /\ Typed(l)
    BY DEF PanesOf, Tree
  <2>2. CASE target = l.root
    BY <2>1, <2>2 DEF Typed
  <2>3. CASE target # l.root
    <3> DEFINE s == HolderOf(l, target) i == Place(l, s, target)
    <3>1. s \in Splits(l) /\ i \in 1..Len(Children(l, s)) /\ Children(l, s)[i].node = target
      BY <2>1, <2>3, Holder
    <3> HIDE DEF s, i
    <3> QED BY <3>1, LengthIs, KidsOf
  <2> QED BY <2>2, <2>3
<1>2. one \in Split /\ NodesOf(one.children) = {target} /\ Distinct(one.children)
  <2>1. PICK q \in Ends : q = target
    BY <1>1
  <2> QED BY <1>1, HalvesAre
<1> HIDE DEF one
<1>3. /\ Tree(c) /\ c.root = (IF target = l.root THEN new ELSE l.root)
      /\ Splits(c) = Splits(l) \cup {new}
      /\ c.splits[new] = one /\ Children(c, new) = one.children
      /\ \A t \in Splits(l) : /\ Replaces(l, c, target, new, t)
                              /\ c.splits[t] = WithNode(l, target, new).splits[t]
      /\ PanesOf(c) = PanesOf(l)
  BY <1>2, CoveredIs
<1> HIDE DEF c
<1>4. Apart(c, ins)
  <2>1. Nodes(c) = PanesOf(c) \cup Splits(c) /\ Nodes(l) = PanesOf(l) \cup Splits(l)
        /\ Nodes(ins) = PanesOf(ins) \cup Splits(ins) /\ \A x \in PanesOf(ins) : x \notin SplitIds
    BY <1>3, TreeNodes
  <2>2. new \notin Nodes(ins)
    BY <2>1
  <2> QED BY <1>3, <2>1, <2>2 DEF Apart
<1> QED BY <1>3, <1>4 DEF c, one

\* On the other axis, an insertion is a graft into a new split over the target
\* (insert_split).
LEMMA NewSplitIs ==
  ASSUME NEW l, Tree(l), NEW ins, Tree(ins), Apart(l, ins), NEW target \in PanesOf(l),
         NEW new \in SplitIds \ Splits(l), new \notin Splits(ins), NEW side \in Sides,
         target = l.root \/ l.splits[HolderOf(l, target)].axis # side.axis
  PROVE  WithInserted(l, target, side, ins, new)
           = NormalizeChild(Grafted(Covered(l, target, new, HeldAlone(target, side)), ins, new,
                                    Halves(side, target, ins.root)),
                            new, IF side.leading THEN 1 ELSE 2)
<1> DEFINE q == ins.root one == HeldAlone(target, side) c == Covered(l, target, new, one) Z == Halves(side, target, q)
           g == Grafted(c, ins, new, Z) both == Together(l, ins) w == WithNode(both, target, new)
           v == WithNode(l, target, new) at == IF side.leading THEN 1 ELSE 2
           split == [axis |-> side.axis, children |-> Z]
           S == Splits(l) T == Splits(ins) U == (S \cup T) \cup {new}
           f == [t \in Splits(w) \cup {new} |-> IF t = new THEN split ELSE w.splits[t]] n == Layout(w.root, f)
<1>1. Typed(l) /\ Typed(ins) /\ target \in Nodes(l) /\ q \in Ends
  BY DEF Tree, Typed, PanesOf
<1>2. /\ Tree(c) /\ c.root = (IF target = l.root THEN new ELSE l.root)
      /\ Splits(c) = Splits(l) \cup {new} /\ c.splits[new] = one /\ Children(c, new) = one.children
      /\ \A t \in Splits(l) : /\ Replaces(l, c, target, new, t)
                              /\ c.splits[t] = v.splits[t]
      /\ PanesOf(c) = PanesOf(l) /\ Apart(c, ins)
  BY CoveredApart
<1>3. target \in Ends
  <2>1. CASE target = l.root
    BY <1>1, <2>1 DEF Typed
  <2>2. CASE target # l.root
    <3> DEFINE s == HolderOf(l, target) i == Place(l, s, target)
    <3>1. s \in Splits(l) /\ i \in 1..Len(Children(l, s)) /\ Children(l, s)[i].node = target
      BY <1>1, <2>2, Holder
    <3> HIDE DEF s, i
    <3> QED BY <3>1, LengthIs, KidsOf
  <2> QED BY <2>1, <2>2
<1>4. one.axis = side.axis /\ Adds(one.children, at, q, Z) /\ at \in 1..(Len(one.children) + 1)
  <2> HIDE DEF q
  <2> QED BY <1>1, <1>3, HalvesAre
<1> HIDE DEF one, c, Z, at
<1>5. /\ Tree(g) /\ g.root = c.root /\ Splits(g) = Splits(c) \cup Splits(ins)
      /\ Children(g, new) = Z /\ g.splits[new].axis = c.splits[new].axis
      /\ \A t \in Splits(c) : t # new => g.splits[t] = c.splits[t] /\ Children(g, t) = Children(c, t)
      /\ \A t \in Splits(ins) : g.splits[t] = ins.splits[t] /\ Children(g, t) = Children(ins, t)
      /\ PanesOf(g) = PanesOf(c) \cup PanesOf(ins)
      /\ NodesOf(Z) = NodesOf(Children(c, new)) \cup {ins.root}
      /\ Splits(c) \cap Splits(ins) = {}
  <2>1. new \in Splits(c) /\ Adds(Children(c, new), at, ins.root, Z) /\ at \in 1..(Len(Children(c, new)) + 1)
    BY <1>2, <1>4
  <2> HIDE DEF q, g
  <2> QED BY <1>2, <2>1, GraftedIs DEF g
<1>6. /\ Typed(both) /\ both.root = l.root /\ Splits(both) = Splits(l) \cup Splits(ins)
      /\ \A t \in Splits(l) : both.splits[t] = l.splits[t] /\ Children(both, t) = Children(l, t)
      /\ \A t \in Splits(ins) : t \notin Splits(l) =>
            both.splits[t] = ins.splits[t] /\ Children(both, t) = Children(ins, t)
  BY <1>1, TogetherIs
<1> HIDE DEF g
<1>7. S \cap T = {} /\ new \notin S /\ new \notin T
  BY <1>2, <1>5
<1>8. /\ w.root = (IF target = l.root THEN new ELSE l.root) /\ Splits(w) = S \cup T
      /\ \A t \in S : w.splits[t] = v.splits[t]
      /\ \A t \in T : w.splits[t] = ins.splits[t]
  <2>1. CASE target = l.root
    <3>1. w = Layout(new, both.splits) /\ v = Layout(new, l.splits)
      BY <1>6, <2>1 DEF WithNode
    <3> HIDE DEF w, v, both
    <3>2. w.root = new /\ w.splits = both.splits /\ v.splits = l.splits
      BY <3>1 DEF Layout
    <3>3. Splits(w) = S \cup T
      BY <1>6, <3>2 DEF Splits
    <3> QED BY <1>6, <1>7, <2>1, <3>2, <3>3
  <2>2. CASE target # l.root
    <3> DEFINE s == HolderOf(l, target) i == Place(l, s, target) A == Children(l, s) X == Renamed(A, i, new)
    <3>1. s \in S /\ i \in 1..Len(A) /\ A[i].node = target
      BY <1>1, <2>2, Holder
    <3>2. HolderOf(both, target) = s /\ Place(both, s, target) = i
      <4> DEFINE x == A[i].node
      <4>1. x = target
        BY <3>1
      <4>2. s \in Splits(l) /\ i \in 1..Len(Children(l, s))
        BY <3>1
      <4> HIDE DEF s, i, both
      <4>3. HolderOf(Together(l, ins), Children(l, s)[i].node) = s /\ Place(Together(l, ins), s, Children(l, s)[i].node) = i
        BY <4>2, TogetherHolds
      <4> HIDE DEF A
      <4> QED BY <4>1, <4>3 DEF both, A
    <3>3. Children(both, s) = A
      BY <1>6, <3>1
    <3>4. w = WithChildren(both, s, X)
      <4> HIDE DEF both, s, i, A
      <4> QED BY <1>6, <2>2, <3>2, <3>3 DEF WithNode, Renamed
    <3>5. v = WithChildren(l, s, X)
      BY <2>2 DEF WithNode, Renamed
    <3>6. X \in Seq(Kid)
      <4>1. A \in Seq(Kid) /\ new \in Ends
        BY <1>1, <3>1, SplitIs DEF Ends
      <4> HIDE DEF A, i
      <4> QED BY <3>1, <4>1, RenamedIs
    <3> HIDE DEF s, i, A, X, both, w, v
    <3>7. /\ w.root = both.root /\ w = Layout(w.root, w.splits) /\ Splits(w) = Splits(both)
          /\ w.splits = [t \in Splits(w) |-> w.splits[t]]
          /\ Children(w, s) = X /\ w.splits[s].axis = both.splits[s].axis
          /\ w.splits[s] = [axis |-> w.splits[s].axis, children |-> X]
          /\ \A t \in Splits(both) : t # s => w.splits[t] = both.splits[t] /\ Children(w, t) = Children(both, t)
      <4>1. s \in Splits(both)
        BY <1>6, <3>1
      <4> QED BY <1>6, <3>4, <3>6, <4>1, WithChildrenIs
    <3>8. /\ v.root = l.root /\ v = Layout(v.root, v.splits) /\ Splits(v) = Splits(l)
          /\ v.splits = [t \in Splits(v) |-> v.splits[t]]
          /\ Children(v, s) = X /\ v.splits[s].axis = l.splits[s].axis
          /\ v.splits[s] = [axis |-> v.splits[s].axis, children |-> X]
          /\ \A t \in Splits(l) : t # s => v.splits[t] = l.splits[t] /\ Children(v, t) = Children(l, t)
      BY <1>1, <3>1, <3>5, <3>6, WithChildrenIs
    <3>9. ASSUME NEW t \in S PROVE w.splits[t] = v.splits[t]
      <4>1. CASE t = s
        <5>1. w.splits[s] = [axis |-> l.splits[s].axis, children |-> X]
          BY <1>6, <3>1, <3>7
        <5>2. v.splits[s] = [axis |-> l.splits[s].axis, children |-> X]
          BY <3>8
        <5> QED BY <4>1, <5>1, <5>2
      <4>2. CASE t # s
        BY <1>6, <3>7, <3>8, <4>2
      <4> QED BY <4>1, <4>2
    <3>10. ASSUME NEW t \in T PROVE w.splits[t] = ins.splits[t]
      <4>1. t \notin S /\ t \in Splits(both) /\ t # s
        BY <1>6, <1>7, <3>1
      <4> QED BY <1>6, <3>7, <4>1
    <3> QED BY <1>6, <2>2, <3>7, <3>9, <3>10
  <2> QED BY <2>1, <2>2
<1>9. WithInserted(l, target, side, ins, new) = NormalizeChild(n, new, at)
  <2>1. WithInserted(l, target, side, ins, new) = NewSplit(w, new, side, target, q)
    <3> HIDE DEF w, q
    <3>1. ~(target # l.root /\ l.splits[HolderOf(l, target)].axis = side.axis)
      OBVIOUS
    <3> QED BY <3>1 DEF WithInserted, w, both, q
  <2> HIDE DEF w, q
  <2>2. NewSplit(w, new, side, target, q) = NormalizeChild(n, new, at)
    BY DEF NewSplit, Halves, Z, Half, at
  <2> QED BY <2>1, <2>2
<1> HIDE DEF w, v, both
<1>10. n = g
  <2>1. n.root = w.root /\ n.splits = f /\ n = Layout(n.root, n.splits)
    BY DEF Layout
  <2>2. g = Layout(g.root, g.splits) /\ g.splits = [t \in Splits(g) |-> g.splits[t]]
        /\ g.splits[new] = [axis |-> g.splits[new].axis, children |-> Children(g, new)]
    <3>1. Typed(g) /\ new \in Splits(g)
      BY <1>2, <1>5 DEF Tree
    <3>2. g.splits \in [Splits(g) -> Split]
      BY <3>1 DEF Typed
    <3> QED BY <3>1, <3>2, SplitIs DEF Typed
  <2>3. n.root = g.root
    BY <1>2, <1>5, <1>8, <2>1
  <2>4. Splits(g) = U /\ Splits(w) \cup {new} = U
    BY <1>2, <1>5, <1>8
  <2>5. ASSUME NEW t \in U PROVE f[t] = g.splits[t]
    <3>1. CASE t = new
      <4>1. g.splits[new] = split
        BY <1>2, <1>4, <1>5, <2>2
      <4>2. f[t] = split
        BY <2>4, <3>1
      <4> QED BY <3>1, <4>1, <4>2
    <3>2. CASE t \in S
      <4>1. t # new /\ f[t] = w.splits[t]
        BY <1>7, <2>4, <3>2
      <4>2. g.splits[t] = c.splits[t] /\ c.splits[t] = v.splits[t]
        BY <1>2, <1>5, <3>2, <4>1
      <4> QED BY <1>8, <3>2, <4>1, <4>2
    <3>3. CASE t \in T
      <4>1. t # new /\ f[t] = w.splits[t]
        BY <1>7, <2>4, <3>3
      <4> QED BY <1>5, <1>8, <3>3, <4>1
    <3> QED BY <3>1, <3>2, <3>3
  <2>6. f = [t \in U |-> f[t]]
    BY <2>4
  <2> HIDE DEF f, U
  <2>7. f = g.splits
    BY <2>2, <2>4, <2>5, <2>6
  <2> HIDE DEF n
  <2> QED BY <2>1, <2>2, <2>3, <2>7
<1> QED BY <1>9, <1>10 DEF g, c, one, Z, at

\* m is the layout l with the tree ins inserted.
Inserts(l, ins, new, m) ==
    /\ Sound(m) /\ Splits(m) \subseteq (Splits(l) \cup Splits(ins)) \cup {new}
    /\ PanesOf(m) = PanesOf(l) \cup PanesOf(ins)

\* An insertion beside the target that a check allows leaves a sound layout.
LEMMA SiblingIsSound ==
  ASSUME NEW l, Sound(l), NEW ins, Sound(ins), Apart(l, ins), NEW target \in PanesOf(l), target # l.root,
         NEW side \in Sides, NEW new, CheckSplit(l, target, side),
         l.splits[HolderOf(l, target)].axis = side.axis
  PROVE  Inserts(l, ins, new, WithInserted(l, target, side, ins, new))
<1> DEFINE s == HolderOf(l, target) i == Place(l, s, target) A == Children(l, s) q == ins.root
           at == At(side, i) Z == Beside(A, i, at, q) g == Grafted(l, ins, s, Z)
           m == WithInserted(l, target, side, ins, new)
<1>1. Tree(l) /\ Tree(ins) /\ Typed(l) /\ Typed(ins) /\ target \in Nodes(l) /\ q \in Ends
  BY DEF Sound, Tree, Typed, PanesOf
<1>2. s \in Splits(l) /\ i \in 1..Len(A) /\ A[i].node = target
  BY <1>1, Holder
<1>3. A \in Seq(Kid) /\ Full(A)
  BY <1>1, <1>2, SplitIs DEF Sound
<1>4. Len(A) < MaxSplitChildren /\ A[i].weight >= 2
  <2>1. l.splits[s].axis = side.axis
    OBVIOUS
  <2> QED BY <2>1 DEF CheckSplit
<1>5. at \in {i, i + 1}
  BY DEF At
<1>6. m = NormalizeChild(g, s, at)
  BY <1>1, SiblingIs
<1> HIDE DEF s, i, A, q, at, m
<1>7. Adds(A, at, q, Z) /\ Full(Z) /\ Z[at].node = q /\ at \in 1..Len(Z) /\ at \in 1..(Len(A) + 1)
  BY <1>1, <1>2, <1>3, <1>4, <1>5, BesideIs
<1> HIDE DEF Z, g
<1>8. Almost(g, q)
  <2>1. Adds(Children(l, s), at, ins.root, Z) /\ at \in 1..(Len(Children(l, s)) + 1)
    BY <1>7 DEF A, q
  <2>2. \A t \in Splits(l) : t # s => Full(Children(l, t))
    BY DEF Sound
  <2>3. \A t \in Splits(l) : \A x \in NodesOf(Children(l, t)) : ~Merges(l, t, x)
    BY DEF Sound
  <2> QED BY <1>1, <1>2, <1>7, <2>1, <2>2, <2>3, GraftSettles DEF g, q
<1>9. Splits(g) = Splits(l) \cup Splits(ins) /\ Children(g, s) = Z /\ PanesOf(g) = PanesOf(l) \cup PanesOf(ins)
  <2>1. Adds(Children(l, s), at, ins.root, Z) /\ at \in 1..(Len(Children(l, s)) + 1)
    BY <1>7 DEF A, q
  <2> QED BY <1>1, <1>2, <2>1, GraftedIs DEF g
<1>10. Settles(g, m)
  <2>1. s \in Splits(g) /\ at \in 1..Len(Children(g, s)) /\ Almost(g, Children(g, s)[at].node)
    BY <1>2, <1>7, <1>8, <1>9
  <2> QED BY <1>6, <2>1, NormalizeSettles
<1>11. Inserts(l, ins, new, m)
  BY <1>9, <1>10 DEF Settles, Inserts
<1> QED BY <1>11 DEF m

\* A new split over a pane is not due to merge with anything, nor is anything with it.
LEMMA CoveredKeeps ==
  ASSUME NEW l, Sound(l), NEW target \in PanesOf(l), NEW new \in SplitIds \ Splits(l), NEW side \in Sides,
         NEW c, Splits(c) = Splits(l) \cup {new}, c.splits[new].axis = side.axis,
         NodesOf(Children(c, new)) = {target}, PanesOf(c) = PanesOf(l),
         \A t \in Splits(l) : Replaces(l, c, target, new, t),
         target = l.root \/ l.splits[HolderOf(l, target)].axis # side.axis
  PROVE  /\ \A t \in Splits(c) : t # new => Full(Children(c, t))
         /\ \A t \in Splits(c) : \A x \in NodesOf(Children(c, t)) : ~Merges(c, t, x)
<1>1. Tree(l) /\ Typed(l)
  BY DEF Sound, Tree
<1>2. ASSUME NEW t \in Splits(l)
      PROVE  /\ Full(Children(c, t)) /\ c.splits[t].axis = l.splits[t].axis
             /\ Len(Children(c, t)) = Len(Children(l, t)) /\ Len(Children(l, t)) \in Nat
  <2>1. Children(l, t) \in Seq(Kid) /\ Full(Children(l, t))
    BY <1>1, SplitIs DEF Sound
  <2>2. /\ c.splits[t] = [axis |-> l.splits[t].axis, children |-> Children(c, t)]
        /\ Children(c, t) \in Seq(Kid) /\ SameWeights(Children(l, t), Children(c, t))
    BY DEF Replaces
  <2>3. Full(Children(c, t))
    BY <2>1, <2>2, SameSum
  <2>4. c.splits[t].axis = l.splits[t].axis
    <3> DEFINE K == Children(c, t) x == l.splits[t].axis
    <3>1. c.splits[t] = [axis |-> x, children |-> K]
      BY <2>2
    <3> HIDE DEF K, x
    <3>2. c.splits[t].axis = x
      BY <3>1
    <3> QED BY <3>2 DEF x
  <2> QED BY <2>1, <2>2, <2>3, <2>4 DEF SameWeights
<1>3. ASSUME NEW t \in Splits(c), t # new PROVE Full(Children(c, t))
  BY <1>2, <1>3
<1>4. new \notin Nodes(l)
  BY <1>1, TreeNodes
<1>5. ASSUME NEW t \in Splits(c), NEW x \in NodesOf(Children(c, t)), Merges(c, t, x) PROVE FALSE
  <2>1. x \in Splits(c) /\ c.splits[x].axis = c.splits[t].axis
    BY <1>5 DEF Merges
  <2>2. t # new
    <3>1. SUFFICES ASSUME t = new PROVE FALSE
      OBVIOUS
    <3>2. x = target
      BY <1>5, <3>1
    <3> QED BY <2>1, <3>2 DEF PanesOf
  <2>3. t \in Splits(l)
    BY <2>2
  <2>4. NodesOf(Children(c, t)) =
         IF target \in NodesOf(Children(l, t)) THEN (NodesOf(Children(l, t)) \ {target}) \cup {new}
         ELSE NodesOf(Children(l, t))
    BY <2>3 DEF Replaces
  <2>5. NodesOf(Children(l, t)) \subseteq Nodes(l)
    BY <1>1, <2>3, TreeNodes
  <2>6. x # new
    <3>1. SUFFICES ASSUME x = new PROVE FALSE
      OBVIOUS
    <3>2. target \in NodesOf(Children(l, t))
      BY <1>4, <1>5, <2>4, <2>5, <3>1
    <3>3. target # l.root /\ HolderOf(l, target) = t
      <4>1. target # l.root
        BY <1>1, <2>3, <3>2, OneHolder
      <4>2. PICK i \in 1..Len(Children(l, t)) : Children(l, t)[i].node = target
        BY <1>1, <2>3, <3>2, LengthIs
      <4> QED BY <1>1, <2>3, <4>1, <4>2, Held
    <3>4. l.splits[t].axis # side.axis
      BY <3>3
    <3> QED BY <1>2, <2>1, <2>3, <3>1, <3>4
  <2>7. x \in Splits(l) /\ x \in NodesOf(Children(l, t))
    BY <1>5, <2>1, <2>4, <2>6
  <2>8. Merges(l, t, x)
    <3>1. c.splits[x].axis = l.splits[x].axis /\ Len(Children(c, x)) = Len(Children(l, x)) /\ Len(Children(l, x)) \in Nat
      BY <1>2, <2>7
    <3>2. c.splits[t].axis = l.splits[t].axis /\ Len(Children(c, t)) = Len(Children(l, t)) /\ Len(Children(l, t)) \in Nat
      BY <1>2, <2>3
    <3> QED BY <1>5, <2>7, <3>1, <3>2 DEF Merges
  <2> QED BY <2>3, <2>7, <2>8 DEF Sound
<1> QED BY <1>3, <1>5

\* An insertion into a new split leaves a sound layout.
LEMMA NewSplitIsSound ==
  ASSUME NEW l, Sound(l), NEW ins, Sound(ins), Apart(l, ins), NEW target \in PanesOf(l),
         NEW new \in SplitIds \ Splits(l), new \notin Splits(ins), NEW side \in Sides,
         target = l.root \/ l.splits[HolderOf(l, target)].axis # side.axis
  PROVE  Inserts(l, ins, new, WithInserted(l, target, side, ins, new))
<1> DEFINE one == HeldAlone(target, side) c == Covered(l, target, new, one) q == ins.root
           Z == Halves(side, target, q) g == Grafted(c, ins, new, Z)
           at == IF side.leading THEN 1 ELSE 2 m == WithInserted(l, target, side, ins, new)
<1>1. Tree(l) /\ Tree(ins) /\ Typed(l) /\ Typed(ins) /\ target \in Nodes(l) /\ q \in Ends
  BY DEF Sound, Tree, Typed, PanesOf
<1>2. target \in Ends
  <2>1. CASE target = l.root
    BY <1>1, <2>1 DEF Typed
  <2>2. CASE target # l.root
    <3> DEFINE s == HolderOf(l, target) i == Place(l, s, target)
    <3>1. s \in Splits(l) /\ i \in 1..Len(Children(l, s)) /\ Children(l, s)[i].node = target
      BY <1>1, <2>2, Holder
    <3> HIDE DEF s, i
    <3> QED BY <1>1, <3>1, LengthIs, KidsOf
  <2> QED BY <2>1, <2>2
<1>3. /\ one.axis = side.axis
      /\ NodesOf(one.children) = {target}
      /\ Adds(one.children, at, q, Z) /\ Full(Z)
      /\ at \in 1..Len(Z) /\ at \in 1..(Len(one.children) + 1) /\ Z[at].node = q
  <2> HIDE DEF q
  <2> QED BY <1>1, <1>2, HalvesAre
<1>4. /\ Tree(c) /\ c.root = (IF target = l.root THEN new ELSE l.root)
      /\ Splits(c) = Splits(l) \cup {new} /\ c.splits[new] = one /\ Children(c, new) = one.children
      /\ \A t \in Splits(l) : /\ Replaces(l, c, target, new, t)
                              /\ c.splits[t] = WithNode(l, target, new).splits[t]
      /\ PanesOf(c) = PanesOf(l) /\ Apart(c, ins)
  BY <1>1, CoveredApart
<1>5. m = NormalizeChild(g, new, at)
  BY <1>1, NewSplitIs
<1> HIDE DEF one, c, q, Z, g, at, m
<1>6. /\ \A t \in Splits(c) : t # new => Full(Children(c, t))
      /\ \A t \in Splits(c) : \A x \in NodesOf(Children(c, t)) : ~Merges(c, t, x)
  <2>1. c.splits[new].axis = side.axis /\ NodesOf(Children(c, new)) = {target}
    BY <1>3, <1>4
  <2> QED BY <1>4, <2>1, CoveredKeeps
<1>7. new \in Splits(c) /\ Adds(Children(c, new), at, ins.root, Z) /\ at \in 1..(Len(Children(c, new)) + 1)
  BY <1>3, <1>4 DEF q
<1>8. Almost(g, q)
  BY <1>3, <1>4, <1>6, <1>7, GraftSettles DEF g, q
<1>9. Splits(g) = Splits(c) \cup Splits(ins) /\ Children(g, new) = Z /\ PanesOf(g) = PanesOf(c) \cup PanesOf(ins)
  BY <1>1, <1>4, <1>7, GraftedIs DEF g
<1>10. Settles(g, m)
  <2>1. new \in Splits(g) /\ at \in 1..Len(Children(g, new)) /\ Almost(g, Children(g, new)[at].node)
    BY <1>3, <1>7, <1>8, <1>9
  <2> QED BY <1>5, <2>1, NormalizeSettles
<1>11. Inserts(l, ins, new, m)
  BY <1>4, <1>9, <1>10 DEF Settles, Inserts
<1> QED BY <1>11 DEF m

\* What a check allows fits.
LEMMA InsertionIsSound ==
  ASSUME NEW l, Sound(l), NEW ins, Sound(ins), Apart(l, ins), NEW target,
         NEW new \in SplitIds \ Splits(l), new \notin Splits(ins), NEW side \in Sides,
         CheckSplit(l, target, side)
  PROVE  Inserts(l, ins, new, WithInserted(l, target, side, ins, new))
<1>1. target \in PanesOf(l)
  BY DEF CheckSplit
<1>2. CASE target # l.root /\ l.splits[HolderOf(l, target)].axis = side.axis
  BY <1>1, <1>2, SiblingIsSound
<1>3. CASE target = l.root \/ l.splits[HolderOf(l, target)].axis # side.axis
  BY <1>1, <1>3, NewSplitIsSound
<1> QED BY <1>2, <1>3

-----------------------------------------------------------------------------
(* A pane alone; a layout whose weights are others.                           *)

\* A pane alone is a sound layout.
LEMMA AloneIs ==
  ASSUME NEW p \in PaneIds \cup {None}
  PROVE  LET l == Alone(p)
         IN Sound(l) /\ l.root = p /\ Splits(l) = {} /\ Nodes(l) = {p} /\ PanesOf(l) = {p}
<1> DEFINE l == Alone(p)
<1>1. l.root = p /\ l = Layout(l.root, l.splits) /\ Splits(l) = {}
  BY DEF Alone, Layout, Splits
<1>2. p \in Ends /\ p \notin SplitIds
  BY SplitAssumption DEF Ends
<1>3. l.splits \in [Splits(l) -> Split]
  BY <1>1 DEF Alone, Layout, Splits
<1> HIDE DEF l
<1>4. Typed(l)
  BY <1>1, <1>2, <1>3, FS_EmptySet DEF Typed
<1>5. Frame(l.root, Splits(l), KidsOn(l))
  BY <1>1, <1>2 DEF Frame, Grounded
<1>6. Tree(l) /\ Sound(l)
  BY <1>1, <1>4, <1>5 DEF Tree, Sound
<1>7. Nodes(l) = {p} /\ PanesOf(l) = {p}
  BY <1>1 DEF Nodes, PanesOf, ChildrenOf
<1> QED BY <1>1, <1>6, <1>7 DEF l

\* A pane alone brings no splits.
LEMMA TogetherAlone ==
  ASSUME NEW l, Typed(l), NEW p
  PROVE  Together(l, Alone(p)) = l
<1>1. Splits(Alone(p)) = {}
  BY DEF Alone, Layout, Splits
<1> DEFINE S == Splits(l) f == [s \in S \cup Splits(Alone(p)) |-> IF s \in S THEN l.splits[s] ELSE Alone(p).splits[s]]
<1>2. f = [s \in S |-> l.splits[s]]
  <2> DEFINE a == Alone(p).splits
  <2>1. f = [s \in S \cup Splits(Alone(p)) |-> IF s \in S THEN l.splits[s] ELSE a[s]]
    OBVIOUS
  <2>2. S \cup Splits(Alone(p)) = S
    BY <1>1
  <2> HIDE DEF a, f, S
  <2> QED BY <2>1, <2>2
<1>3. l.splits = [s \in S |-> l.splits[s]] /\ l = Layout(l.root, l.splits)
  BY DEF Typed
<1>4. Together(l, Alone(p)) = Layout(l.root, f)
  BY DEF Together
<1> HIDE DEF f, S
<1> QED BY <1>2, <1>3, <1>4

\* If the one node that could merge is no split, nothing can.
LEMMA AlmostIsSound ==
  ASSUME NEW l, NEW n, Almost(l, n), n \notin Splits(l)
  PROVE  Sound(l)
<1>1. \A s : ~Merges(l, s, n)
  BY DEF Merges
<1> QED BY <1>1 DEF Almost, Sound

\* A sound layout is normal already.
LEMMA SoundRests ==
  ASSUME NEW l, Sound(l), NEW s \in Splits(l)
  PROVE  NormalizeAll(l, s) = l
<1> DEFINE n == Len(Children(l, s))
           Step(last) ==
             LET before == Len(Children(last.layout, s))
                 next == NormalizeChild(last.layout, s, last.index)
             IN [layout |-> next, index |-> last.index + 1 + Len(Children(next, s)) - before]
           first == [layout |-> l, index |-> 1]
           Done(f) == f = [k \in 0..n |-> IF k = 0 THEN first ELSE Step(f[k - 1])]
           done == CHOOSE f : Done(f)
           Reached(k) == [layout |-> l, index |-> k + 1]
           d == [k \in 0..n |-> Reached(k)]
           U == [k \in 0..n |-> {Reached(k)}]
<1>1. Tree(l) /\ Full(Children(l, s))
  BY DEF Sound
<1>2. n \in Nat /\ n > 1
  <2>1. n \in Nat
    BY <1>1, LengthIs
  <2>2. n \in 2..MaxSplitChildren
    BY <1>1 DEF Full
  <2> HIDE DEF n
  <2> QED BY <2>1, <2>2, SplitAssumption
<1>3. NormalizeAll(l, s) = done[n].layout
  <2>1. NormalizeAll(l, s) = IF n > 1 THEN done[n].layout ELSE l
    BY Zenon DEF NormalizeAll
  <2> HIDE DEF done, n
  <2> QED BY <1>2, <2>1
<1>4. ASSUME NEW k \in 1..n PROVE Step(Reached(k - 1)) = Reached(k)
  <2> DEFINE u == Reached(k - 1)
  <2>1. u.layout = l /\ u.index = k - 1 + 1
    OBVIOUS
  <2>2. k - 1 + 1 = k /\ k \in Nat
    BY <1>2
  <2>3. NormalizeChild(l, s, k) = l
    BY SoundStays
  <2>4. Step(u) = [layout |-> l, index |-> k + 1 + n - n]
    <3> HIDE DEF u
    <3> QED BY <2>1, <2>2, <2>3
  <2> HIDE DEF n, Step
  <2>5. k + 1 + n - n = k + 1
    BY <1>2, <2>2
  <2> QED BY <2>4, <2>5
<1>5. first = Reached(0)
  OBVIOUS
<1> HIDE DEF Step, first, Reached
<1>6. Done(d)
  <2>1. 0 \in 0..n /\ \A k \in 0..n : k = 0 \/ (k \in 1..n /\ k - 1 \in 0..n)
    BY <1>2
  <2> HIDE DEF n
  <2>2. \A k \in 0..n : d[k] = Reached(k)
    OBVIOUS
  <2>3. \A k \in 0..n : k # 0 => d[k - 1] = Reached(k - 1)
    BY <2>1, <2>2
  <2>4. \A k \in 0..n : Reached(k) = IF k = 0 THEN first ELSE Step(d[k - 1])
    BY <1>4, <1>5, <2>1, <2>3
  <2>5. d = [k \in 0..n |-> IF k = 0 THEN first ELSE Step(d[k - 1])]
    BY <2>4
  <2> QED BY <2>5
<1>7. Done(done)
  <2> HIDE DEF Done, d
  <2> QED BY <1>6
<1> HIDE DEF done
<1>8. done[0] \in U[0] /\ \A k \in 1..n : done[k - 1] \in U[k - 1] => done[k] \in U[k]
  <2>1. \A k \in 0..n : done[k] = IF k = 0 THEN first ELSE Step(done[k - 1])
    <3> HIDE DEF n
    <3> QED BY <1>7
  <2>2. 0 \in 0..n /\ \A k \in 1..n : k # 0 /\ k \in 0..n /\ k - 1 \in 0..n
    BY <1>2
  <2> HIDE DEF n
  <2>3. done[0] = first /\ \A k \in 1..n : done[k] = Step(done[k - 1])
    BY <2>1, <2>2
  <2>4. \A k \in 0..n : U[k] = {Reached(k)}
    OBVIOUS
  <2> HIDE DEF U
  <2> QED BY <1>4, <1>5, <2>2, <2>3, <2>4
<1>9. done[n] \in U[n]
  <2> HIDE DEF n, U
  <2>1. n \in 0..n
    BY <1>2
  <2> QED BY <1>2, <1>8, <2>1, Along
<1>10. done[n] = Reached(n)
  <2>1. n \in 0..n
    BY <1>2
  <2> HIDE DEF n
  <2> QED BY <1>9, <2>1
<1> QED BY <1>3, <1>10 DEF Reached

\* Z has the nodes of A.
SameNodes(A, Z) == Len(Z) = Len(A) /\ \A k \in 1..Len(A) : Z[k].node = A[k].node

\* The nodes decide which nodes there are, and that none is there twice.
LEMMA SameNodesAre ==
  ASSUME NEW A \in Seq(Kid), NEW Z \in Seq(Kid), SameNodes(A, Z)
  PROVE  NodesOf(Z) = NodesOf(A) /\ (Distinct(A) => Distinct(Z))
<1>1. Len(Z) = Len(A) /\ \A k \in 1..Len(A) : Z[k].node = A[k].node
  BY DEF SameNodes
<1> DEFINE n == Len(A)
<1>2. NodesOf(Z) = {Z[k].node : k \in 1..n} /\ NodesOf(A) = {A[k].node : k \in 1..n}
  BY <1>1 DEF NodesOf
<1>3. (Distinct(A) => Distinct(Z))
  BY <1>1 DEF Distinct
<1> HIDE DEF n
<1>4. NodesOf(Z) = NodesOf(A)
  BY <1>1, <1>2 DEF n
<1> QED BY <1>3, <1>4

\* m is the layout l but for the weights.
Reshared(l, m, t) ==
    /\ m.splits[t] = [axis |-> l.splits[t].axis, children |-> Children(m, t)]
    /\ Children(m, t) \in Seq(Kid) /\ SameNodes(Children(l, t), Children(m, t))
Reshares(l, m) ==
    /\ m = Layout(l.root, m.splits) /\ Splits(m) = Splits(l)
    /\ m.splits = [t \in Splits(m) |-> m.splits[t]]
    /\ \A t \in Splits(l) : Reshared(l, m, t)

\* A split with other weights has the nodes it had, at their places.
LEMMA ResharedAre ==
  ASSUME NEW l, Tree(l), NEW m, NEW t \in Splits(l), Reshared(l, m, t)
  PROVE  /\ m.splits[t].axis = l.splits[t].axis /\ Children(m, t) \in Seq(Kid)
         /\ Len(Children(m, t)) = Len(Children(l, t)) /\ Len(Children(l, t)) \in Nat
         /\ \A k \in 1..Len(Children(l, t)) : Children(m, t)[k].node = Children(l, t)[k].node
         /\ NodesOf(Children(m, t)) = NodesOf(Children(l, t)) /\ Distinct(Children(m, t))
<1> DEFINE K == Children(m, t) A == Children(l, t) x == l.splits[t].axis
<1>1. m.splits[t] = [axis |-> x, children |-> K] /\ K \in Seq(Kid) /\ SameNodes(A, K)
  BY DEF Reshared
<1>2. A \in Seq(Kid) /\ Distinct(A) /\ Len(A) \in Nat
  BY LengthIs DEF Tree
<1> HIDE DEF K, A, x
<1>3. m.splits[t].axis = x
  BY <1>1
<1>4. NodesOf(K) = NodesOf(A) /\ Distinct(K)
  BY <1>1, <1>2, SameNodesAre
<1>5. Len(K) = Len(A) /\ \A k \in 1..Len(A) : K[k].node = A[k].node
  BY <1>1 DEF SameNodes
<1> QED BY <1>1, <1>2, <1>3, <1>4, <1>5 DEF K, A, x

\* Other weights leave the tree and its nodes.
LEMMA ResharesIs ==
  ASSUME NEW l, Tree(l), NEW m, Reshares(l, m)
  PROVE  Tree(m) /\ m.root = l.root /\ Splits(m) = Splits(l) /\ Nodes(m) = Nodes(l) /\ PanesOf(m) = PanesOf(l)
<1>1. Typed(l) /\ l.root \in Ends /\ IsFiniteSet(Splits(l)) /\ Frame(l.root, Splits(l), KidsOn(l))
  BY DEF Tree, Typed
<1>2. m = Layout(l.root, m.splits) /\ Splits(m) = Splits(l) /\ m.splits = [t \in Splits(m) |-> m.splits[t]]
  BY DEF Reshares
<1>3. m.root = l.root /\ m = Layout(m.root, m.splits)
  <2> DEFINE f == m.splits
  <2>1. m = Layout(l.root, f)
    BY <1>2
  <2> HIDE DEF f
  <2>2. m.root = l.root
    BY <2>1 DEF Layout
  <2> QED BY <1>2, <2>2
<1>4. ASSUME NEW t \in Splits(m)
      PROVE  /\ m.splits[t] = [axis |-> m.splits[t].axis, children |-> Children(m, t)]
             /\ m.splits[t].axis \in Axes /\ Children(m, t) \in Seq(Kid)
             /\ Distinct(Children(m, t)) /\ NodesOf(Children(m, t)) = NodesOf(Children(l, t))
  <2>1. t \in Splits(l) /\ Reshared(l, m, t)
    BY <1>2 DEF Reshares
  <2>2. l.splits[t].axis \in Axes
    BY <1>1, <2>1, SplitIs
  <2>3. m.splits[t] = [axis |-> l.splits[t].axis, children |-> Children(m, t)]
    BY <2>1 DEF Reshared
  <2> QED BY <2>1, <2>2, <2>3, ResharedAre
<1>5. KidsOn(m) = KidsOn(l)
  BY <1>2, <1>4 DEF KidsOn
<1>6. Frame(m.root, Splits(m), KidsOn(m))
  BY <1>1, <1>2, <1>3, <1>5
<1>7. Tree(m)
  <2>1. m.root \in Ends /\ IsFiniteSet(Splits(m))
    BY <1>1, <1>2, <1>3
  <2> QED BY <1>2, <1>3, <1>4, <1>6, <2>1, IsTree
<1>8. Nodes(m) = NodesIn(m.root, Splits(m), KidsOn(m)) /\ Nodes(l) = NodesIn(l.root, Splits(l), KidsOn(l))
  BY <1>1, <1>7, NodesAre DEF Tree
<1>9. Nodes(m) = Nodes(l)
  BY <1>2, <1>3, <1>5, <1>8
<1> QED BY <1>2, <1>3, <1>7, <1>9 DEF PanesOf

\* Other weights that are full leave a sound layout.
LEMMA ResharesSound ==
  ASSUME NEW l, Sound(l), NEW m, Reshares(l, m), \A t \in Splits(l) : Full(Children(m, t))
  PROVE  Sound(m)
<1>1. Tree(l)
  BY DEF Sound
<1>2. Tree(m) /\ Splits(m) = Splits(l)
  BY <1>1, ResharesIs
<1>3. ASSUME NEW t \in Splits(m), NEW x \in NodesOf(Children(m, t)), Merges(m, t, x) PROVE FALSE
  <2>1. t \in Splits(l) /\ x \in Splits(l)
    BY <1>2, <1>3 DEF Merges
  <2>2. Reshared(l, m, t) /\ Reshared(l, m, x)
    BY <2>1 DEF Reshares
  <2>3. m.splits[t].axis = l.splits[t].axis /\ Len(Children(m, t)) = Len(Children(l, t))
        /\ NodesOf(Children(m, t)) = NodesOf(Children(l, t))
    BY <1>1, <2>1, <2>2, ResharedAre
  <2>4. m.splits[x].axis = l.splits[x].axis /\ Len(Children(m, x)) = Len(Children(l, x))
    BY <1>1, <2>1, <2>2, ResharedAre
  <2>5. Merges(l, t, x)
    BY <1>3, <2>1, <2>3, <2>4 DEF Merges
  <2>6. x \in NodesOf(Children(l, t))
    BY <1>3, <2>3
  <2> QED BY <2>1, <2>5, <2>6 DEF Sound
<1> QED BY <1>2, <1>3 DEF Sound

\* The shape is the same.
LEMMA ResharesShape ==
  ASSUME NEW l, Tree(l), NEW m, Reshares(l, m)
  PROVE  SameShape(m, l)
<1> DEFINE S == Splits(m) f == [s \in S |-> s] Alike(node, other) == other = IF node \in S THEN f[node] ELSE node
<1>1. Tree(m) /\ m.root = l.root /\ S = Splits(l)
  BY ResharesIs
<1>2. f \in [S -> Splits(l)] /\ \A s \in S : f[s] = s
  BY <1>1
<1>3. \A x : Alike(x, x)
  BY <1>2
<1>4. ASSUME NEW s \in S
      PROVE  /\ m.splits[s].axis = l.splits[f[s]].axis
             /\ Len(Children(m, s)) = Len(Children(l, f[s]))
             /\ \A i \in DOMAIN Children(m, s) : Alike(Children(m, s)[i].node, Children(l, f[s])[i].node)
  <2>1. s \in Splits(l) /\ Reshared(l, m, s)
    BY <1>1 DEF Reshares
  <2>2. /\ m.splits[s].axis = l.splits[s].axis /\ Children(m, s) \in Seq(Kid)
        /\ Len(Children(m, s)) = Len(Children(l, s))
        /\ \A k \in 1..Len(Children(l, s)) : Children(m, s)[k].node = Children(l, s)[k].node
    BY <2>1, ResharedAre
  <2>3. DOMAIN Children(m, s) = 1..Len(Children(l, s))
    BY <2>2, KidsOf
  <2> HIDE DEF Alike, S
  <2>4. \A i \in DOMAIN Children(m, s) : Alike(Children(m, s)[i].node, Children(l, s)[i].node)
    BY <1>3, <2>2, <2>3
  <2> HIDE DEF f
  <2> QED BY <1>2, <2>2, <2>4
<1>5. Alike(m.root, l.root)
  BY <1>1, <1>3
<1> HIDE DEF f
<1> QED BY <1>2, <1>4, <1>5 DEF SameShape

\* A layout has its own weights.
LEMMA ResharesSelf ==
  ASSUME NEW l, Tree(l)
  PROVE  Reshares(l, l)
<1>1. Typed(l)
  BY DEF Tree
<1>2. ASSUME NEW t \in Splits(l) PROVE Reshared(l, l, t)
  BY <1>1, SplitIs DEF Reshared, SameNodes
<1> QED BY <1>1, <1>2 DEF Reshares, Typed

-----------------------------------------------------------------------------
(* What was inserted is removed again.                                        *)

\* The child that came has its half again, or gives it to the child before.
LEMMA BesideBack ==
  ASSUME NEW A \in Seq(Kid), Full(A), NEW i \in 1..Len(A), A[i].weight >= 2, Len(A) < MaxSplitChildren,
         NEW at \in {i, i + 1}, NEW q \in Ends
  PROVE  LET W == Without(Beside(A, i, at, q), at)
         IN W \in Seq(Kid) /\ SameNodes(A, W) /\ Full(W) /\ (at = i + 1 => W = A)
<1> DEFINE n == Len(A) Z == Beside(A, i, at, q) W == Without(Z, at) R == RemoveAt(Z, at)
           w == A[i].weight h == w \div 2 B == Reweighed(A, i, w - h) x == Child(h, q)
<1>1. Adds(A, at, q, Z) /\ Full(Z) /\ at \in 1..Len(Z) /\ at \in 1..(n + 1)
  BY BesideIs
<1>2. n \in Nat /\ n \in 2..MaxSplitChildren /\ w \in Nat /\ A[i] \in Kid
      /\ \A k \in 1..n : A[k] \in Kid
  BY KidsOf DEF Full
<1>3. h \in Nat /\ w - h \in Nat
  <2>1. w >= 2
    OBVIOUS
  <2> HIDE DEF w
  <2> QED BY <1>2, <2>1
<1>4. x \in Kid /\ x.weight = h
  <2> HIDE DEF h
  <2> QED BY <1>3 DEF Child, Kid
<1>5. Z = InsertAt(B, at, x)
  BY DEF Beside
<1>6. B \in Seq(Kid) /\ Len(B) = n
  <2> HIDE DEF h, w
  <2> QED BY <1>3, ReweighedIs
<1>7. B = [A EXCEPT ![i].weight = w - h]
  BY DEF Reweighed
<1> HIDE DEF B, x
<1>8. /\ Z \in Seq(Kid) /\ Len(Z) = n + 1
      /\ \A k \in 1..(n + 1) : Z[k] = IF k < at THEN B[k] ELSE IF k = at THEN x ELSE B[k - 1]
  <2> DEFINE Y == InsertAt(B, at, x)
  <2>1. at \in 1..(Len(B) + 1) /\ x \in Kid /\ B \in Seq(Kid)
    BY <1>1, <1>4, <1>6
  <2>2. /\ Y \in Seq(Kid) /\ Len(Y) = Len(B) + 1
        /\ \A k \in 1..Len(Y) : Y[k] = IF k < at THEN B[k] ELSE IF k = at THEN x ELSE B[k - 1]
    BY <2>1, KidInserted
  <2> HIDE DEF Z, Y
  <2>3. Z = Y
    BY <1>5 DEF Y
  <2> QED BY <1>6, <2>2, <2>3
<1> HIDE DEF Z
<1>9. /\ Drops(Z, at, W) /\ SumOf(W) = SumOf(Z)
      /\ R \in Seq(Kid) /\ Len(R) = Len(Z) - 1 /\ Heir(at) \in 1..Len(R)
      /\ \A k \in 1..Len(W) : W[k] = IF k = Heir(at) THEN [R[k] EXCEPT !.weight = @ + Z[at].weight] ELSE R[k]
      /\ (\A k \in 1..Len(Z) : Z[k].weight >= 1) => \A k \in 1..Len(W) : W[k].weight >= 1
  <2>1. Len(Z) >= 2
    <3> HIDE DEF n
    <3> QED BY <1>2, <1>8, SplitAssumption
  <2> QED BY <1>1, <1>8, <2>1, WithoutIs
<1>10. /\ R \in Seq(Kid) /\ Len(R) = n
       /\ \A k \in 1..n : R[k] = IF k < at THEN Z[k] ELSE Z[k + 1]
  <2>1. /\ R \in Seq(Kid) /\ Len(R) = Len(Z) - 1
        /\ \A k \in 1..Len(R) : R[k] = IF k < at THEN Z[k] ELSE Z[k + 1]
    BY <1>1, <1>8, RemovedIs
  <2> HIDE DEF R
  <2>2. Len(R) = n
    <3> HIDE DEF n
    <3> QED BY <1>2, <1>8, <2>1
  <2> QED BY <2>1, <2>2
<1> HIDE DEF W, R
<1>11. W \in Seq(Kid) /\ Len(W) = n /\ \A k \in 1..n : W[k].node = IF k < at THEN Z[k].node ELSE Z[k + 1].node
  <2>1. W \in Seq(Kid) /\ Len(W) = Len(Z) - 1
        /\ \A k \in 1..Len(W) : W[k].node = IF k < at THEN Z[k].node ELSE Z[k + 1].node
    BY <1>9 DEF Drops
  <2>2. Len(W) = n
    <3> HIDE DEF n
    <3> QED BY <1>2, <1>8, <2>1
  <2> QED BY <2>1, <2>2
<1>12. SameNodes(A, W)
  <2>1. \A k \in 1..(n + 1) : Z[k].node = IF k < at THEN A[k].node ELSE IF k = at THEN q ELSE A[k - 1].node
    BY <1>1, <1>8 DEF Adds
  <2>2. ASSUME NEW k \in 1..n PROVE W[k].node = A[k].node
    <3> HIDE DEF n
    <3>1. k \in 1..(n + 1) /\ k + 1 \in 1..(n + 1) /\ k \in Nat /\ at \in Nat
      BY <1>1, <1>2
    <3>2. CASE k < at
      BY <1>11, <2>1, <3>1, <3>2
    <3>3. CASE ~(k < at)
      <4>1. ~(k + 1 < at) /\ k + 1 # at /\ k + 1 - 1 = k
        BY <3>1, <3>3
      <4>2. Z[k + 1].node = A[k].node
        BY <2>1, <3>1, <4>1
      <4> QED BY <1>11, <3>3, <4>2
    <3> QED BY <3>2, <3>3
  <2> QED BY <1>11, <2>2 DEF SameNodes
<1>13. Full(W)
  <2>1. SumOf(Z) = SplitTotal /\ \A k \in 1..Len(Z) : Z[k].weight >= 1
    BY <1>1 DEF Full
  <2> QED BY <1>2, <1>9, <1>11, <2>1 DEF Full
<1>14. ASSUME at = i + 1 PROVE W = A
  <2>1. i \in 1..n /\ i \in Nat /\ Heir(at) = i
    <3>1. i \in 1..n
      OBVIOUS
    <3> HIDE DEF n
    <3>2. i + 1 # 1 /\ i + 1 - 1 = i /\ i \in Nat
      BY <1>2, <3>1
    <3> QED BY <1>14, <3>1, <3>2 DEF Heir
  <2>2. ASSUME NEW k \in 1..n PROVE R[k] = B[k]
    <3> HIDE DEF n
    <3>1. k \in 1..(n + 1) /\ k + 1 \in 1..(n + 1) /\ k \in Nat /\ at \in Nat
      BY <1>1, <1>2
    <3>2. CASE k < at
      BY <1>8, <1>10, <3>1, <3>2
    <3>3. CASE ~(k < at)
      <4>1. ~(k + 1 < at) /\ k + 1 # at /\ k + 1 - 1 = k
        BY <3>1, <3>3
      <4>2. Z[k + 1] = B[k]
        BY <1>8, <3>1, <4>1
      <4> QED BY <1>10, <3>3, <4>2
    <3> QED BY <3>2, <3>3
  <2>3. Z[at].weight = h
    <3>1. ~(at < at) /\ at \in 1..(n + 1)
      <4> HIDE DEF n
      <4> QED BY <1>1, <1>2
    <3> QED BY <1>4, <1>8, <3>1
  <2>4. DOMAIN A = 1..n
    BY KidsOf
  <2>5. \A k \in 1..n : B[k] = IF k = i THEN [A[i] EXCEPT !.weight = w - h] ELSE A[k]
    <3> HIDE DEF w, h
    <3> QED BY <1>7, <2>4
  <2>6. [[A[i] EXCEPT !.weight = w - h] EXCEPT !.weight = @ + h] = A[i]
    <3> DEFINE a == A[i]
    <3>1. a \in Kid /\ a.weight = w /\ w - h + h = w
      <4>1. a \in Kid /\ a.weight = w
        BY <1>2
      <4> HIDE DEF w, h
      <4>2. w - h + h = w
        BY <1>2, <1>3
      <4> QED BY <4>1, <4>2
    <3> HIDE DEF a, w, h
    <3>2. a = [weight |-> a.weight, node |-> a.node]
      BY <3>1 DEF Kid
    <3>3. [[a EXCEPT !.weight = w - h] EXCEPT !.weight = @ + h] = a
      BY <3>1, <3>2
    <3> QED BY <3>3 DEF a
  <2>7. ASSUME NEW k \in 1..n PROVE W[k] = A[k]
    <3>1. W[k] = IF k = i THEN [R[k] EXCEPT !.weight = @ + h] ELSE R[k]
      BY <1>9, <1>11, <2>1, <2>3
    <3> HIDE DEF w, h
    <3>2. CASE k = i
      BY <2>2, <2>5, <2>6, <3>1, <3>2
    <3>3. CASE k # i
      BY <2>2, <2>5, <3>1, <3>3
    <3> QED BY <3>2, <3>3
  <2>8. DOMAIN W = 1..n /\ W = [k \in DOMAIN W |-> W[k]] /\ A = [k \in DOMAIN A |-> A[k]]
    BY <1>11, KidsOf
  <2> QED BY <2>4, <2>7, <2>8
<1> QED BY <1>11, <1>12, <1>13, <1>14 DEF W, Z

\* A layout with other weights in one split.
LEMMA WithWeightsReshares ==
  ASSUME NEW l, Tree(l), NEW s \in Splits(l), NEW Z \in Seq(Kid), SameNodes(Children(l, s), Z)
  PROVE  Reshares(l, WithChildren(l, s, Z)) /\ Children(WithChildren(l, s, Z), s) = Z
         /\ \A t \in Splits(l) : t # s => Children(WithChildren(l, s, Z), t) = Children(l, t)
<1> DEFINE m == WithChildren(l, s, Z)
<1>1. Typed(l)
  BY DEF Tree
<1>2. /\ m.root = l.root /\ m = Layout(m.root, m.splits) /\ Splits(m) = Splits(l)
      /\ m.splits = [t \in Splits(m) |-> m.splits[t]]
      /\ Children(m, s) = Z /\ m.splits[s].axis = l.splits[s].axis
      /\ m.splits[s] = [axis |-> m.splits[s].axis, children |-> Z]
      /\ \A t \in Splits(l) : t # s => m.splits[t] = l.splits[t] /\ Children(m, t) = Children(l, t)
  BY <1>1, WithChildrenIs
<1> HIDE DEF m
<1>3. ASSUME NEW t \in Splits(l) PROVE Reshared(l, m, t)
  <2>1. CASE t = s
    BY <1>2, <2>1 DEF Reshared
  <2>2. CASE t # s
    <3>1. /\ Children(l, t) \in Seq(Kid)
          /\ l.splits[t] = [axis |-> l.splits[t].axis, children |-> Children(l, t)]
      BY <1>1, SplitIs
    <3>2. m.splits[t] = l.splits[t] /\ Children(m, t) = Children(l, t)
      BY <1>2, <2>2
    <3> QED BY <3>1, <3>2 DEF Reshared, SameNodes
  <2> QED BY <2>1, <2>2
<1>4. Reshares(l, m)
  BY <1>2, <1>3 DEF Reshares
<1> QED BY <1>2, <1>4 DEF m

\* A split given its own children changes nothing.
LEMMA WithOwnChildren ==
  ASSUME NEW l, Tree(l), NEW s \in Splits(l)
  PROVE  WithChildren(l, s, Children(l, s)) = l
<1> DEFINE A == Children(l, s) m == WithChildren(l, s, A)
<1>1. Typed(l) /\ A \in Seq(Kid) /\ l.splits[s] = [axis |-> l.splits[s].axis, children |-> A]
  BY SplitIs DEF Tree
<1>2. l = Layout(l.root, l.splits) /\ l.splits = [t \in Splits(l) |-> l.splits[t]]
  BY <1>1 DEF Typed
<1>3. /\ m.root = l.root /\ m = Layout(m.root, m.splits) /\ Splits(m) = Splits(l)
      /\ m.splits = [t \in Splits(m) |-> m.splits[t]]
      /\ Children(m, s) = A /\ m.splits[s].axis = l.splits[s].axis
      /\ m.splits[s] = [axis |-> m.splits[s].axis, children |-> A]
      /\ \A t \in Splits(l) : t # s => m.splits[t] = l.splits[t] /\ Children(m, t) = Children(l, t)
  BY <1>1, WithChildrenIs
<1> HIDE DEF m, A
<1>4. \A t \in Splits(l) : m.splits[t] = l.splits[t]
  BY <1>1, <1>3
<1>5. m.splits = l.splits
  <2> DEFINE S == Splits(l) f == l.splits g == m.splits
  <2>1. f = [t \in S |-> f[t]] /\ g = [t \in S |-> g[t]] /\ \A t \in S : g[t] = f[t]
    BY <1>2, <1>3, <1>4
  <2> HIDE DEF S, f, g
  <2>2. f = g
    BY <2>1
  <2> QED BY <2>2 DEF f, g
<1> QED BY <1>2, <1>3, <1>5 DEF m, A

WithNone(l, target, side, new) == WithInserted(l, target, side, Alone(None), new)
Returns(l, side, m) == LET back == WithoutPane(m, None)
                       IN SameShape(back, l) /\ (~side.leading => back = l)

\* A pane that was inserted beside the target and is closed leaves the shape, and the
\* weights if it came after.
LEMMA SiblingBack ==
  ASSUME NEW l, Sound(l), None \notin Nodes(l), NEW target \in PanesOf(l), target # l.root,
         NEW side \in Sides, NEW new, CheckSplit(l, target, side),
         l.splits[HolderOf(l, target)].axis = side.axis
  PROVE  Returns(l, side, WithNone(l, target, side, new))
<1> DEFINE ins == Alone(None)
           s == HolderOf(l, target) i == Place(l, s, target) A == Children(l, s)
           at == At(side, i) Z == Beside(A, i, at, None) g == Grafted(l, ins, s, Z)
           m == WithNone(l, target, side, new) W == Without(Z, at) r == WithChildren(l, s, W)
<1>1. Tree(l) /\ Typed(l) /\ target \in Nodes(l) /\ None \in Ends /\ IsFiniteSet(Splits(l))
  BY DEF Sound, Tree, Typed, PanesOf, Ends
<1>2. Sound(ins) /\ Tree(ins) /\ ins.root = None /\ Splits(ins) = {} /\ Nodes(ins) = {None} /\ Apart(l, ins)
  <2>1. Sound(ins) /\ ins.root = None /\ Splits(ins) = {} /\ Nodes(ins) = {None}
    BY AloneIs
  <2> HIDE DEF ins
  <2> QED BY <2>1 DEF Sound, Apart
<1>3. s \in Splits(l) /\ i \in 1..Len(A) /\ A[i].node = target
  BY <1>1, Holder
<1>4. A \in Seq(Kid) /\ Full(A)
  BY <1>1, <1>3, SplitIs DEF Sound
<1>5. Len(A) < MaxSplitChildren /\ A[i].weight >= 2
  <2>1. l.splits[s].axis = side.axis
    OBVIOUS
  <2> QED BY <2>1 DEF CheckSplit
<1>6. at \in {i, i + 1} /\ (~side.leading => at = i + 1)
  BY DEF At
<1>7. m = NormalizeChild(g, s, at)
  <2> HIDE DEF ins
  <2>1. LET s0 == HolderOf(l, target) i0 == Place(l, s0, target)
        IN WithInserted(l, target, side, ins, new)
             = NormalizeChild(Grafted(l, ins, s0, Beside(Children(l, s0), i0, At(side, i0), ins.root)), s0, At(side, i0))
    BY <1>1, <1>2, SiblingIs
  <2>2. m = WithInserted(l, target, side, ins, new)
    BY DEF WithNone, ins
  <2> HIDE DEF m
  <2> QED BY <1>2, <2>1, <2>2
<1>8. g = WithChildren(l, s, Z)
  <2>1. Together(l, Alone(None)) = l
    BY <1>1, TogetherAlone
  <2> QED BY <2>1 DEF Grafted
<1> HIDE DEF s, i, A, at, m, ins
<1>9. Adds(A, at, None, Z) /\ Full(Z) /\ Z[at].node = None /\ at \in 1..Len(Z) /\ at \in 1..(Len(A) + 1)
  BY <1>1, <1>3, <1>4, <1>5, <1>6, BesideIs
<1>10. W \in Seq(Kid) /\ SameNodes(A, W) /\ Full(W) /\ (at = i + 1 => W = A)
  <2>1. None \in Ends
    BY <1>1
  <2> QED BY <1>3, <1>4, <1>5, <1>6, <2>1, BesideBack
<1> HIDE DEF Z, g, W, r
<1>11. Adds(Children(l, s), at, ins.root, Z) /\ at \in 1..(Len(Children(l, s)) + 1)
  BY <1>2, <1>9 DEF A
<1>12. Splits(g) = Splits(l) \cup Splits(ins) /\ Children(g, s) = Z /\ Tree(g)
       /\ m = g /\ Sound(g)
  <2>1. Splits(g) = Splits(l) \cup Splits(ins) /\ Children(g, s) = Z /\ Tree(g)
    <3>1. Tree(l) /\ Tree(ins) /\ Apart(l, ins) /\ s \in Splits(l)
      BY <1>1, <1>2, <1>3
    <3>2. Tree(g)
      BY <1>11, <3>1, GraftedIs DEF g
    <3>3. Splits(g) = Splits(l) \cup Splits(ins) /\ Children(g, s) = Z
      BY <1>11, <3>1, GraftedIs DEF g
    <3> QED BY <3>2, <3>3
  <2>2. Almost(g, ins.root)
    <3>1. \A t \in Splits(l) : t # s => Full(Children(l, t))
      BY DEF Sound
    <3>2. \A t \in Splits(l) : \A x \in NodesOf(Children(l, t)) : ~Merges(l, t, x)
      BY DEF Sound
    <3> QED BY <1>1, <1>2, <1>3, <1>9, <1>11, <3>1, <3>2, GraftSettles DEF g
  <2>3. None \notin Splits(g)
    BY <1>1, <1>2, <2>1, TreeNodes
  <2>4. Sound(g)
    BY <1>2, <2>2, <2>3, AlmostIsSound
  <2>5. at \in 1..Len(Children(g, s)) /\ s \in Splits(g)
    BY <1>3, <1>9, <2>1
  <2> QED BY <1>7, <2>1, <2>4, <2>5, SoundStays
<1>13. Splits(g) = Splits(l)
  BY <1>2, <1>12
<1>14. HolderOf(g, None) = s /\ Place(g, s, None) = at
  <2>1. s \in Splits(g) /\ at \in 1..Len(Children(g, s)) /\ Children(g, s)[at].node = None
    BY <1>3, <1>9, <1>12, <1>13
  <2> QED BY <1>12, <2>1, Held
<1>15. Smaller(g, s, at) = r
  <2>1. Smaller(g, s, at) = WithChildren(g, s, W)
    BY <1>12 DEF Smaller, W
  <2> DEFINE a == l.splits v == W
  <2>2. g.root = l.root /\ g.splits = [l.splits EXCEPT ![s].children = Z]
    BY <1>8 DEF WithChildren, Layout
  <2>3. WithChildren(g, s, v) = Layout(g.root, [g.splits EXCEPT ![s].children = v])
    BY DEF WithChildren
  <2>4. r = Layout(l.root, [l.splits EXCEPT ![s].children = v])
    BY DEF r, WithChildren
  <2> HIDE DEF v, a
  <2>5. [[l.splits EXCEPT ![s].children = Z] EXCEPT ![s].children = v] = [l.splits EXCEPT ![s].children = v]
    <3>1. l.splits = [t \in Splits(l) |-> l.splits[t]] /\ s \in Splits(l) /\ l.splits[s] = [axis |-> l.splits[s].axis, children |-> A]
      BY <1>1, <1>3, SplitIs DEF Typed, A
    <3> DEFINE f == l.splits x == f[s].axis B == A S == Splits(l)
    <3>2. f = [t \in S |-> f[t]] /\ s \in S /\ f[s] = [axis |-> x, children |-> B]
      BY <3>1
    <3> HIDE DEF f, x, B, S
    <3>3. [[f EXCEPT ![s].children = Z] EXCEPT ![s].children = v] = [f EXCEPT ![s].children = v]
      BY <3>2
    <3> QED BY <3>3 DEF f
  <2> QED BY <2>1, <2>2, <2>3, <2>4, <2>5 DEF v
<1>16. Reshares(l, r) /\ Children(r, s) = W /\ \A t \in Splits(l) : t # s => Children(r, t) = Children(l, t)
  BY <1>1, <1>3, <1>10, WithWeightsReshares DEF A, r
<1>17. Sound(r) /\ Splits(r) = Splits(l) /\ r.root = l.root
  <2>1. ASSUME NEW t \in Splits(l) PROVE Full(Children(r, t))
    BY <1>10, <1>16 DEF Sound
  <2> QED BY <1>1, <1>16, <2>1, ResharesSound, ResharesIs
<1>18. RemovedWithin(g, None) = r
  <2>1. NormalizeAll(r, s) = r
    BY <1>3, <1>17, SoundRests
  <2>2. [layout |-> r, at |-> s] \in [layout : {r}, at : Splits(r)]
    BY <1>3, <1>17
  <2>3. Up([layout |-> NormalizeAll(Smaller(g, s, at), s), at |-> s]) \in [layout : {r}, at : Splits(r)]
    BY <1>15, <1>17, <2>1, <2>2, SoundClimbs
  <2>4. Splits(g) # {} /\ IsFiniteSet(Splits(g))
    BY <1>1, <1>3, <1>13
  <2> QED BY <1>14, <1>17, <2>3, <2>4, RemovedSettles
<1>19. WithoutPane(m, None) = r
  <2>1. l.root \in Splits(l)
    BY <1>1, <1>3, TreeNodes
  <2>2. Full(Children(r, r.root))
    BY <1>17, <2>1 DEF Sound
  <2>3. Len(Children(r, r.root)) # 1
    <3> DEFINE n == Len(Children(r, r.root))
    <3>1. n \in 2..MaxSplitChildren
      BY <2>2 DEF Full
    <3> HIDE DEF n
    <3>2. n # 1
      BY <3>1, SplitAssumption
    <3> QED BY <3>2 DEF n
  <2> QED BY <1>12, <1>18, <2>3 DEF WithoutPane
<1>20. ASSUME ~side.leading PROVE r = l
  <2>1. W = A
    BY <1>6, <1>10, <1>20
  <2> QED BY <1>1, <1>3, <2>1, WithOwnChildren DEF r, A
<1>21. SameShape(r, l)
  BY <1>1, <1>16, ResharesShape
<1>22. Returns(l, side, m)
  BY <1>19, <1>20, <1>21 DEF Returns
<1> QED BY <1>22 DEF m

\* A node that takes a place and gives it back.
LEMMA RenamedBack ==
  ASSUME NEW A \in Seq(Kid), NEW i \in 1..Len(A), NEW x
  PROVE  Renamed(Renamed(A, i, x), i, A[i].node) = A
<1> DEFINE n == Len(A) a == A[i] y == a.node
<1>1. DOMAIN A = 1..n /\ A = [k \in 1..n |-> A[k]] /\ a \in Kid
  BY KidsOf
<1> HIDE DEF n, a
<1> DEFINE w == a.weight
<1>2. a = [weight |-> w, node |-> y]
  BY <1>1 DEF Kid
<1>3. i \in 1..n
  BY DEF n
<1> HIDE DEF y, w
<1> DEFINE b == [a EXCEPT !.node = x]
<1>4. [b EXCEPT !.node = y] = a
  <2>1. b = [weight |-> w, node |-> x]
    BY <1>2
  <2> HIDE DEF b
  <2> QED BY <1>2, <2>1
<1>5. Renamed(A, i, x) = [A EXCEPT ![i] = b]
  BY DEF Renamed, a
<1> HIDE DEF b
<1>6. Renamed([A EXCEPT ![i] = b], i, y) = [[A EXCEPT ![i] = b] EXCEPT ![i] = [b EXCEPT !.node = y]]
  <2> DEFINE B == [A EXCEPT ![i] = b]
  <2>1. B[i] = b
    BY <1>1, <1>3
  <2> HIDE DEF B
  <2>2. Renamed(B, i, y) = [B EXCEPT ![i] = [B[i] EXCEPT !.node = y]]
    BY DEF Renamed
  <2>3. Renamed(B, i, y) = [B EXCEPT ![i] = [b EXCEPT !.node = y]]
    BY <2>1, <2>2
  <2> QED BY <2>3 DEF B
<1>7. [[A EXCEPT ![i] = b] EXCEPT ![i] = a] = A
  <2>1. A[i] = a
    BY DEF a
  <2> QED BY <1>1, <1>3, <2>1
<1> QED BY <1>4, <1>5, <1>6, <1>7 DEF y, a

\* A split above a pane alone gives way to it.
LEMMA CollapseBack ==
  ASSUME NEW l, Tree(l), NEW target \in PanesOf(l), target # l.root, NEW new \in SplitIds \ Splits(l),
         NEW r, Tree(r), r.root = l.root, Splits(r) = Splits(l) \cup {new},
         Len(Children(r, new)) = 1, Children(r, new)[1].node = target,
         \A t \in Splits(l) : r.splits[t] = WithNode(l, target, new).splits[t]
  PROVE  LET h == HolderOf(l, target)
         IN h \in Splits(l) /\ Up([layout |-> r, at |-> new]) = [layout |-> l, at |-> h]
<1> DEFINE h == HolderOf(l, target) j == Place(l, h, target) A == Children(l, h) X == Renamed(A, j, new)
           v == WithNode(l, target, new) d == WithChildren(r, h, A) u == [layout |-> r, at |-> new]
<1>1. Typed(l) /\ Typed(r) /\ target \in Nodes(l) /\ target \notin Splits(l)
  BY DEF Tree, PanesOf
<1>2. h \in Splits(l) /\ j \in 1..Len(A) /\ A[j].node = target
  BY <1>1, Holder
<1>3. v = WithChildren(l, h, X)
  BY DEF WithNode, Renamed
<1> HIDE DEF h, j, v, d
<1>4. A \in Seq(Kid) /\ l.splits[h] = [axis |-> l.splits[h].axis, children |-> A]
  BY <1>1, <1>2, SplitIs
<1>5. X \in Seq(Kid) /\ Len(X) = Len(A) /\ X[j].node = new
  <2>1. new \in Ends
    BY DEF Ends
  <2> HIDE DEF A
  <2>2. X \in Seq(Kid) /\ SameWeights(A, X)
        /\ \A k \in 1..Len(A) : X[k].node = IF k = j THEN new ELSE A[k].node
    BY <1>2, <1>4, <2>1, RenamedIs
  <2> QED BY <1>2, <2>2 DEF SameWeights
<1> HIDE DEF X
<1>6. /\ v.root = l.root /\ v = Layout(v.root, v.splits) /\ Splits(v) = Splits(l)
      /\ v.splits = [t \in Splits(v) |-> v.splits[t]]
      /\ Children(v, h) = X /\ v.splits[h].axis = l.splits[h].axis
      /\ v.splits[h] = [axis |-> v.splits[h].axis, children |-> X]
      /\ \A t \in Splits(l) : t # h => v.splits[t] = l.splits[t] /\ Children(v, t) = Children(l, t)
  BY <1>1, <1>2, <1>3, <1>5, WithChildrenIs
<1>7. \A t \in Splits(l) : r.splits[t] = v.splits[t] /\ Children(r, t) = Children(v, t)
  BY DEF v, Children
<1>8. h \in Splits(r) /\ Children(r, h) = X /\ new \in Splits(r) /\ h # new
  BY <1>2, <1>6, <1>7
<1>9. HolderOf(r, new) = h /\ Place(r, h, new) = j /\ new # r.root
  <2>1. j \in 1..Len(Children(r, h)) /\ Children(r, h)[j].node = new
    BY <1>2, <1>5, <1>8
  <2> QED BY <1>8, <2>1, Held
<1>10. Up(u) = [layout |-> NormalizeChild(r, h, j), at |-> h]
  BY <1>9 DEF Up
<1>11. Renamed(X, j, target) = A
  <2> HIDE DEF A
  <2> QED BY <1>2, <1>4, RenamedBack DEF X
<1>12. Collapsed(r, h, j) = Dissolved(r, h, j, A)
  <2>1. Children(r, h)[j].node = new
    BY <1>5, <1>8
  <2>2. Collapsed(r, h, j) = Dissolved(r, h, j, [Children(r, h) EXCEPT ![j].node = Children(r, new)[1].node])
    BY <1>8, <2>1 DEF Collapsed
  <2>3. [Children(r, h) EXCEPT ![j].node = Children(r, new)[1].node] = A
    BY <1>8, <1>11 DEF Renamed
  <2> QED BY <2>2, <2>3
<1>13. Dissolved(r, h, j, A) = Layout(l.root, Forget(d.splits, new))
  BY <1>5, <1>8 DEF Dissolved, d
<1>14. /\ d.root = r.root /\ d = Layout(d.root, d.splits) /\ Splits(d) = Splits(r)
       /\ d.splits = [t \in Splits(d) |-> d.splits[t]]
       /\ Children(d, h) = A /\ d.splits[h].axis = r.splits[h].axis
       /\ d.splits[h] = [axis |-> d.splits[h].axis, children |-> A]
       /\ \A t \in Splits(r) : t # h => d.splits[t] = r.splits[t] /\ Children(d, t) = Children(r, t)
  BY <1>1, <1>4, <1>8, WithChildrenIs DEF d
<1>15. ASSUME NEW t \in Splits(l) PROVE d.splits[t] = l.splits[t] /\ t \in Splits(d) \ {new}
  <2>1. CASE t = h
    <3>1. d.splits[h].axis = l.splits[h].axis
      BY <1>2, <1>6, <1>7, <1>14
    <3> QED BY <1>4, <1>14, <2>1, <3>1
  <2>2. CASE t # h
    BY <1>6, <1>7, <1>14, <2>2
  <2> QED BY <2>1, <2>2
<1>16. Forget(d.splits, new) = l.splits
  <2> DEFINE f == d.splits g == l.splits S == Splits(l)
  <2>1. Forget(f, new) = [t \in S |-> f[t]]
    <3>1. DOMAIN f \ {new} = S
      BY <1>14 DEF Splits
    <3> HIDE DEF f, S
    <3> QED BY <3>1 DEF Forget
  <2>2. g = [t \in S |-> g[t]] /\ \A t \in S : f[t] = g[t]
    BY <1>1, <1>15 DEF Typed
  <2> HIDE DEF f, g, S
  <2>3. Forget(f, new) = g
    BY <2>1, <2>2
  <2> QED BY <2>3 DEF f, g
<1>17. Collapsed(r, h, j) = l
  BY <1>1, <1>12, <1>13, <1>16 DEF Typed
<1>18. NormalizeChild(r, h, j) = l
  <2>1. ~Merges(l, h, Children(l, h)[j].node)
    BY <1>1, <1>2 DEF Merges
  <2>2. Flattened(l, h, j) = l
    BY <2>1 DEF Flattened
  <2> QED BY <1>17, <2>2 DEF NormalizeChild
<1>19. Up(u) = [layout |-> l, at |-> h]
  BY <1>10, <1>18
<1> QED BY <1>2, <1>19 DEF h

\* A pane that was inserted into a new split and is closed leaves the layout as it was.
LEMMA NewSplitBack ==
  ASSUME NEW l, Sound(l), None \notin Nodes(l), NEW target \in PanesOf(l),
         NEW new \in SplitIds \ Splits(l), NEW side \in Sides,
         target = l.root \/ l.splits[HolderOf(l, target)].axis # side.axis
  PROVE  Returns(l, side, WithNone(l, target, side, new))
<1> DEFINE ins == Alone(None) one == HeldAlone(target, side) c == Covered(l, target, new, one)
           Z == Halves(side, target, None) g == Grafted(c, ins, new, Z) v == WithNode(l, target, new)
           at == IF side.leading THEN 1 ELSE 2 m == WithNone(l, target, side, new)
           W == Without(Z, at) r == Smaller(g, new, at) first == [layout |-> r, at |-> new]
<1>1. Tree(l) /\ Typed(l) /\ target \in Nodes(l) /\ target \notin Splits(l) /\ None \in Ends
  BY DEF Sound, Tree, Typed, PanesOf, Ends
<1>2. Sound(ins) /\ Tree(ins) /\ ins.root = None /\ Splits(ins) = {} /\ Nodes(ins) = {None} /\ Apart(l, ins)
      /\ new \notin Splits(ins)
  <2>1. Sound(ins) /\ ins.root = None /\ Splits(ins) = {} /\ Nodes(ins) = {None}
    BY AloneIs
  <2> HIDE DEF ins
  <2> QED BY <2>1 DEF Sound, Apart
<1>3. target \in Ends
  <2>1. CASE target = l.root
    BY <1>1, <2>1 DEF Typed
  <2>2. CASE target # l.root
    <3> DEFINE s == HolderOf(l, target) i == Place(l, s, target)
    <3>1. s \in Splits(l) /\ i \in 1..Len(Children(l, s)) /\ Children(l, s)[i].node = target
      BY <1>1, <2>2, Holder
    <3> HIDE DEF s, i
    <3> QED BY <1>1, <3>1, LengthIs, KidsOf
  <2> QED BY <2>1, <2>2
<1>4. /\ one.axis = side.axis
      /\ NodesOf(one.children) = {target}
      /\ Adds(one.children, at, None, Z) /\ Full(Z) /\ Len(Z) = 2
      /\ at \in 1..Len(Z) /\ at \in 1..(Len(one.children) + 1) /\ Z[at].node = None
  BY <1>1, <1>3, HalvesAre
<1> HIDE DEF ins
<1>5. /\ Tree(c) /\ c.root = (IF target = l.root THEN new ELSE l.root)
      /\ Splits(c) = Splits(l) \cup {new} /\ c.splits[new] = one /\ Children(c, new) = one.children
      /\ \A t \in Splits(l) : /\ Replaces(l, c, target, new, t)
                              /\ c.splits[t] = v.splits[t]
      /\ PanesOf(c) = PanesOf(l) /\ Apart(c, ins)
  BY <1>1, <1>2, CoveredApart
<1>6. m = NormalizeChild(g, new, at)
  <2>1. WithInserted(l, target, side, ins, new)
           = NormalizeChild(Grafted(Covered(l, target, new, HeldAlone(target, side)), ins, new,
                                    Halves(side, target, ins.root)),
                            new, IF side.leading THEN 1 ELSE 2)
    BY <1>1, <1>2, NewSplitIs
  <2>2. m = WithInserted(l, target, side, ins, new)
    BY DEF WithNone, ins
  <2> HIDE DEF m
  <2> QED BY <1>2, <2>1, <2>2
<1> HIDE DEF one, c, Z, g, at, m, v
<1>7. /\ \A t \in Splits(c) : t # new => Full(Children(c, t))
      /\ \A t \in Splits(c) : \A x \in NodesOf(Children(c, t)) : ~Merges(c, t, x)
  <2>1. c.splits[new].axis = side.axis /\ NodesOf(Children(c, new)) = {target}
    BY <1>4, <1>5
  <2>2. \A t \in Splits(l) : Replaces(l, c, target, new, t)
    BY <1>5
  <2> QED BY <1>5, <2>1, <2>2, CoveredKeeps
<1>8. new \in Splits(c) /\ Adds(Children(c, new), at, ins.root, Z) /\ at \in 1..(Len(Children(c, new)) + 1)
  BY <1>2, <1>4, <1>5
<1>9. Almost(g, None)
  <2>1. Almost(g, ins.root)
    BY <1>2, <1>4, <1>5, <1>7, <1>8, GraftSettles DEF g
  <2> QED BY <1>2, <2>1
<1>10. /\ Splits(g) = Splits(c) \cup Splits(ins) /\ Children(g, new) = Z /\ g.root = c.root
       /\ NodesOf(Z) = NodesOf(Children(c, new)) \cup {ins.root}
  <2>1. Tree(c) /\ Tree(ins) /\ Apart(c, ins) /\ new \in Splits(c)
    BY <1>2, <1>5, <1>8
  <2>2. Splits(g) = Splits(c) \cup Splits(ins) /\ Children(g, new) = Z
    BY <1>8, <2>1, GraftedIs DEF g
  <2>3. g.root = c.root
    BY <1>8, <2>1, GraftedIs DEF g
  <2>4. NodesOf(Z) = NodesOf(Children(c, new)) \cup {ins.root}
    BY <1>8, <2>1, GraftedIs
  <2> QED BY <2>2, <2>3, <2>4
<1>11. \A t \in Splits(c) : t # new => g.splits[t] = c.splits[t] /\ Children(g, t) = Children(c, t)
  <2>1. Tree(c) /\ Tree(ins) /\ Apart(c, ins) /\ new \in Splits(c)
    BY <1>2, <1>5, <1>8
  <2> QED BY <1>8, <2>1, GraftedIs DEF g
<1>12. None \notin Splits(g) /\ None # target
  <2>1. Splits(g) = Splits(l) \cup {new}
    BY <1>2, <1>5, <1>10
  <2>2. Splits(l) \subseteq SplitIds
    BY <1>1, TreeNodes
  <2> QED BY <1>1, <2>1, <2>2, SplitAssumption
<1>13. Sound(g) /\ Tree(g) /\ m = g /\ new \in Splits(g) /\ Splits(g) = Splits(l) \cup {new}
  <2>1. Sound(g)
    BY <1>9, <1>12, AlmostIsSound
  <2>2. Tree(g) /\ new \in Splits(g) /\ Splits(g) = Splits(l) \cup {new}
    BY <1>2, <1>5, <1>10, <2>1 DEF Sound
  <2>3. at \in 1..Len(Children(g, new))
    BY <1>4, <1>10
  <2> QED BY <1>6, <2>1, <2>2, <2>3, SoundStays
<1>14. at \in 1..Len(Children(g, new)) /\ Children(g, new)[at].node = None
  BY <1>4, <1>10
<1>15. HolderOf(g, None) = new /\ Place(g, new, None) = at
  BY <1>13, <1>14, Held
<1>16. /\ Around(r, new) /\ r.root = g.root /\ Splits(r) = Splits(g)
       /\ Len(Children(r, new)) = 1
  <2>1. /\ Around(r, new) /\ r.root = g.root /\ Splits(r) = Splits(g)
        /\ Len(Children(r, new)) = Len(Children(g, new)) - 1
    BY <1>12, <1>13, <1>14, SmallerIs
  <2> HIDE DEF r
  <2>2. Len(Children(r, new)) = 1
    <3> DEFINE n == Len(Children(r, new))
    <3>1. n = 2 - 1
      BY <1>4, <1>10, <2>1
    <3> HIDE DEF n
    <3>2. n = 1
      BY <3>1
    <3> QED BY <3>2 DEF n
  <2> QED BY <2>1, <2>2
<1>17. r = WithChildren(g, new, W)
  BY <1>10 DEF Smaller
<1>18. Z \in Seq(Kid) /\ Drops(Z, at, W) /\ Distinct(Z) /\ at \in 1..Len(Z)
  <2>1. Z \in Seq(Kid) /\ Distinct(Z)
    BY <1>10, <1>13, LengthIs DEF Tree
  <2>2. at \in 1..Len(Z) /\ Len(Z) >= 2
    BY <1>4
  <2>3. Drops(Z, at, W)
    BY <2>1, <2>2, WithoutIs
  <2> HIDE DEF W
  <2> QED BY <2>1, <2>2, <2>3
<1> HIDE DEF W, r
<1>19. NodesOf(W) = {target} /\ W \in Seq(Kid)
  <2>1. NodesOf(W) = NodesOf(Z) \ {Z[at].node}
    BY <1>18, DropsNodes
  <2>2. NodesOf(Z) = {target} \cup {None} /\ Z[at].node = None
    BY <1>2, <1>4, <1>5, <1>10
  <2> QED BY <1>12, <1>18, <2>1, <2>2 DEF Drops
<1>20. Children(r, new) = W /\ \A t \in Splits(g) : t # new => r.splits[t] = g.splits[t]
  <2>1. Typed(g)
    BY <1>13 DEF Tree
  <2>2. /\ r.root = g.root /\ r = Layout(r.root, r.splits) /\ Splits(r) = Splits(g)
        /\ r.splits = [t \in Splits(r) |-> r.splits[t]]
        /\ Children(r, new) = W /\ r.splits[new].axis = g.splits[new].axis
        /\ r.splits[new] = [axis |-> r.splits[new].axis, children |-> W]
        /\ \A t \in Splits(g) : t # new => r.splits[t] = g.splits[t] /\ Children(r, t) = Children(g, t)
    BY <1>13, <1>17, <1>19, <2>1, WithChildrenIs
  <2> QED BY <2>2
<1>21. Children(r, new)[1].node = target
  <2>1. W[1].node \in NodesOf(W)
    <3> DEFINE n == Len(W)
    <3>1. n = 1
      BY <1>16, <1>20
    <3> HIDE DEF n
    <3>2. 1 \in 1..n
      BY <3>1
    <3> QED BY <3>2 DEF NodesOf, n
  <2> QED BY <1>19, <1>20, <2>1
<1>22. Tree(r) /\ Splits(r) = Splits(l) \cup {new} /\ r.root = (IF target = l.root THEN new ELSE l.root)
  BY <1>5, <1>10, <1>13, <1>16 DEF Around
<1>23. \A t \in Splits(l) : r.splits[t] = v.splits[t]
  BY <1>5, <1>11, <1>13, <1>20
<1>24. NormalizeAll(r, new) = r
  <2>1. ~(Len(Children(r, new)) > 1)
    BY <1>16
  <2> QED BY <2>1, Zenon DEF NormalizeAll
<1>25. IsFiniteSet(Splits(g)) /\ Splits(g) # {} /\ Smaller(g, new, at) = r
  BY <1>13 DEF Tree, Typed, r
<1> SUFFICES Returns(l, side, m)
  BY DEF m
<1> DEFINE left == RemovedWithin(g, None)
<1>26. CASE target = l.root
  <2>1. Splits(l) = {} /\ r.root = new /\ Splits(r) = {new}
    BY <1>1, <1>22, <1>26, TreeNodes
  <2>2. Up(first) = first
    BY <2>1 DEF Up
  <2>3. ASSUME NEW u \in [layout : {r}, at : {new}] PROVE Up(u) \in [layout : {r}, at : {new}]
    <3>1. u = first
      OBVIOUS
    <3> QED BY <2>2, <3>1
  <2>4. left = r
    <3>1. first \in [layout : {r}, at : {new}]
      OBVIOUS
    <3>2. Up([layout |-> NormalizeAll(r, new), at |-> new]) = first
      BY <1>24, <2>2
    <3> HIDE DEF first
    <3> DEFINE C == {new}
    <3>3. /\ Up([layout |-> NormalizeAll(Smaller(g, new, at), new), at |-> new]) \in [layout : {r}, at : C]
          /\ \A u \in [layout : {r}, at : C] : Up(u) \in [layout : {r}, at : C]
      BY <1>25, <2>3, <3>1, <3>2
    <3> HIDE DEF C
    <3> QED BY <1>15, <1>25, <3>3, RemovedClimbs
  <2>5. WithoutPane(g, None) = Layout(target, Forget(r.splits, new))
    <3>1. left.root = new /\ Len(Children(left, left.root)) = 1 /\ Children(left, left.root)[1].node = target
      BY <1>16, <1>21, <2>1, <2>4
    <3>2. WithoutPane(g, None) = Layout(target, Forget(left.splits, new))
      <4> HIDE DEF left
      <4> QED BY <3>1 DEF WithoutPane, left
    <3> QED BY <2>4, <3>2
  <2>6. Forget(r.splits, new) = l.splits
    <3> DEFINE f == r.splits k == l.splits
    <3>1. DOMAIN f \ {new} = {} /\ DOMAIN k = {}
      BY <2>1 DEF Splits
    <3>2. k = [t \in {} |-> k[t]]
      BY <1>1, <2>1 DEF Typed
    <3> HIDE DEF f, k
    <3>3. Forget(f, new) = [t \in {} |-> f[t]]
      BY <3>1 DEF Forget
    <3>4. Forget(f, new) = k
      BY <3>2, <3>3
    <3> QED BY <3>4 DEF f, k
  <2>7. WithoutPane(m, None) = l
    BY <1>1, <1>13, <1>26, <2>5, <2>6 DEF Typed
  <2> QED BY <1>1, <2>7, ResharesSelf, ResharesShape DEF Returns
<1>27. CASE target # l.root
  <2> DEFINE h == HolderOf(l, target)
  <2>1. h \in Splits(l) /\ Up(first) = [layout |-> l, at |-> h]
    <3>1. /\ Tree(l) /\ target \in PanesOf(l) /\ new \in SplitIds \ Splits(l)
          /\ Tree(r) /\ r.root = l.root /\ Splits(r) = Splits(l) \cup {new}
          /\ Len(Children(r, new)) = 1 /\ Children(r, new)[1].node = target
          /\ \A t \in Splits(l) : r.splits[t] = WithNode(l, target, new).splits[t]
      BY <1>1, <1>16, <1>21, <1>22, <1>23, <1>27 DEF v
    <3> QED BY <1>27, <3>1, CollapseBack
  <2> HIDE DEF h
  <2>2. Up([layout |-> NormalizeAll(Smaller(g, new, at), new), at |-> new]) \in [layout : {l}, at : Splits(l)]
    BY <1>24, <1>25, <2>1
  <2>3. left = l
    BY <1>15, <1>25, <2>2, RemovedSettles
  <2>4. Len(Children(l, l.root)) # 1
    <3> DEFINE n == Len(Children(l, l.root))
    <3>1. l.root \in Splits(l)
      BY <1>1, <2>1, TreeNodes
    <3>2. n \in 2..MaxSplitChildren
      BY <3>1 DEF Full, Sound
    <3> HIDE DEF n
    <3>3. n # 1
      BY <3>2, SplitAssumption
    <3> QED BY <3>3 DEF n
  <2>5. WithoutPane(m, None) = l
    BY <1>13, <2>3, <2>4 DEF WithoutPane
  <2> QED BY <1>1, <2>5, ResharesSelf, ResharesShape DEF Returns
<1> QED BY <1>26, <1>27

\* Closing what a split added gives back the shape.
LEMMA SplitBack ==
  ASSUME NEW l, Sound(l), None \notin Nodes(l), NEW target,
         NEW new \in SplitIds \ Splits(l), NEW side \in Sides, CheckSplit(l, target, side)
  PROVE  Returns(l, side, WithNone(l, target, side, new))
<1>1. target \in PanesOf(l)
  BY DEF CheckSplit
<1>2. CASE target # l.root /\ l.splits[HolderOf(l, target)].axis = side.axis
  BY <1>1, <1>2, SiblingBack
<1>3. CASE target = l.root \/ l.splits[HolderOf(l, target)].axis # side.axis
  BY <1>1, <1>3, NewSplitBack
<1> QED BY <1>2, <1>3

-----------------------------------------------------------------------------
(* Panes are swapped; weights are given.                                      *)

Swapped(a, b, x) == IF x = a THEN b ELSE IF x = b THEN a ELSE x
KidsSwapped(S, K, a, b, L) == \A t \in S : \A x : x \in L[t] <=> Swapped(a, b, x) \in K[t]

\* Two panes that trade places leave a tree of the same nodes.
LEMMA FrameSwapped ==
  ASSUME NEW r, NEW S, NEW K, Frame(r, S, K), NEW a, NEW b, a \notin SplitIds, b \notin SplitIds,
         r # a, r # b, a \in NodesIn(r, S, K), b \in NodesIn(r, S, K),
         NEW L, KidsSwapped(S, K, a, b, L)
  PROVE  Frame(r, S, L) /\ NodesIn(r, S, L) = NodesIn(r, S, K)
<1> DEFINE w(x) == Swapped(a, b, x)
<1>1. /\ S \subseteq SplitIds
      /\ \A s, t \in S : \A x \in K[s] : x \in K[t] => s = t
      /\ \A s \in S : r \notin K[s]
      /\ \A s \in S : s # r => \E t \in S : s \in K[t]
      /\ r \in SplitIds => r \in S
      /\ \A s \in S : \A x \in K[s] : x \in SplitIds => x \in S
      /\ Grounded(S, K)
  BY DEF Frame
<1>2. \A t \in S : \A x : x \in L[t] <=> w(x) \in K[t]
  BY DEF KidsSwapped
<1>3. w(r) = r /\ (\A x \in SplitIds : w(x) = x) /\ w(a) \in {a, b} /\ w(b) \in {a, b}
      /\ \A x : x # a /\ x # b => w(x) = x
  BY DEF Swapped
<1> HIDE DEF w
<1>4. \A s, t \in S : \A x \in L[s] : x \in L[t] => s = t
  BY <1>1, <1>2
<1>5. \A s \in S : r \notin L[s]
  BY <1>1, <1>2, <1>3
<1>6. \A s \in S : s # r => \E t \in S : s \in L[t]
  <2> SUFFICES ASSUME NEW s \in S, s # r PROVE \E t \in S : s \in L[t]
    OBVIOUS
  <2>1. PICK t \in S : s \in K[t]
    BY <1>1
  <2>2. s \in L[t]
    BY <1>1, <1>2, <1>3, <2>1
  <2> QED BY <2>2
<1>7. \A s \in S : \A x \in L[s] : x \in SplitIds => x \in S
  BY <1>1, <1>2, <1>3
<1>8. Grounded(S, L)
  <2> SUFFICES ASSUME NEW C \in SUBSET S, C # {} PROVE \E s \in C : \A t \in C : s \notin L[t]
    BY DEF Grounded
  <2>1. PICK s \in C : \A t \in C : s \notin K[t]
    BY <1>1 DEF Grounded
  <2>2. \A t \in C : s \notin L[t]
    BY <1>1, <1>2, <1>3, <2>1
  <2> QED BY <2>2
<1>9. Frame(r, S, L)
  BY <1>1, <1>4, <1>5, <1>6, <1>7, <1>8 DEF Frame
<1>10. ASSUME NEW x PROVE x \in NodesIn(r, S, L) <=> x \in NodesIn(r, S, K)
  <2>1. (\E s \in S : a \in K[s]) /\ \E s \in S : b \in K[s]
    BY InNodes
  <2>2. x \in NodesIn(r, S, L) <=> x = r \/ \E s \in S : w(x) \in K[s]
    BY <1>2, InNodes
  <2>3. x \in NodesIn(r, S, K) <=> x = r \/ \E s \in S : x \in K[s]
    BY InNodes
  <2>4. CASE x = a \/ x = b
    BY <1>3, <2>1, <2>2, <2>3, <2>4
  <2>5. CASE x # a /\ x # b
    BY <1>3, <2>2, <2>3, <2>5
  <2> QED BY <2>4, <2>5
<1> QED BY <1>9, <1>10

\* The children of a split, with two panes swapped.
SwappedKids(A, a, b) == [i \in DOMAIN A |-> [A[i] EXCEPT !.node = Swapped(a, b, @)]]

\* The nodes of a list in which two panes trade places.
LEMMA SwappedKidsAre ==
  ASSUME NEW A \in Seq(Kid), Distinct(A), NEW a \in Ends, NEW b \in Ends, a # b
  PROVE  LET Z == SwappedKids(A, a, b)
         IN Z \in Seq(Kid) /\ Distinct(Z) /\ \A x : x \in NodesOf(Z) <=> Swapped(a, b, x) \in NodesOf(A)
<1> DEFINE n == Len(A) Z == SwappedKids(A, a, b) w(x) == Swapped(a, b, x)
<1>1. n \in Nat /\ DOMAIN A = 1..n /\ \A k \in 1..n : A[k] \in Kid /\ A[k].weight \in Nat /\ A[k].node \in Ends
  BY KidsOf
<1>2. (\A x \in Ends : w(x) \in Ends) /\ \A x : w(w(x)) = x
  BY DEF Swapped
<1> HIDE DEF n, w
<1>3. ASSUME NEW k \in 1..n
      PROVE  /\ Z[k] = [weight |-> A[k].weight, node |-> w(A[k].node)]
             /\ Z[k] \in Kid /\ Z[k].node = w(A[k].node)
  <2> DEFINE e == A[k] x == e.node y == e.weight
  <2>1. e = [weight |-> y, node |-> x] /\ y \in Nat /\ x \in Ends
    BY <1>1 DEF Kid
  <2>2. Z[k] = [e EXCEPT !.node = w(@)]
    BY <1>1 DEF SwappedKids, w
  <2> HIDE DEF e, x, y, Z
  <2>3. Z[k] = [weight |-> y, node |-> w(x)]
    BY <2>1, <2>2
  <2>4. w(x) \in Ends
    BY <1>2, <2>1
  <2>5. Z[k] \in Kid /\ Z[k].node = w(x)
    BY <2>1, <2>3, <2>4 DEF Kid
  <2> QED BY <2>3, <2>5 DEF x, y, e
<1>4. DOMAIN Z = 1..n /\ Z = [k \in 1..n |-> Z[k]]
  BY <1>1 DEF SwappedKids
<1> HIDE DEF Z
<1>5. Z \in Seq(Kid) /\ Len(Z) = n
  <2>1. Z \in [1..n -> Kid]
    BY <1>3, <1>4
  <2> QED BY <1>1, <2>1
<1>6. Distinct(Z)
  <2>1. \A i, j \in 1..n : A[i].node = A[j].node => i = j
    BY DEF Distinct, n
  <2>2. ASSUME NEW i \in 1..n, NEW j \in 1..n, Z[i].node = Z[j].node PROVE i = j
    <3>1. w(A[i].node) = w(A[j].node)
      BY <1>3, <2>2
    <3>2. A[i].node = A[j].node
      BY <1>2, <3>1
    <3> QED BY <2>1, <3>2
  <2> QED BY <1>5, <2>2 DEF Distinct
<1>7. ASSUME NEW x PROVE x \in NodesOf(Z) <=> w(x) \in NodesOf(A)
  <2>1. x \in NodesOf(Z) <=> \E k \in 1..n : Z[k].node = x
    BY <1>5 DEF NodesOf
  <2>2. w(x) \in NodesOf(A) <=> \E k \in 1..n : A[k].node = w(x)
    BY DEF NodesOf, n
  <2>3. \A k \in 1..n : Z[k].node = x <=> A[k].node = w(x)
    BY <1>2, <1>3
  <2> QED BY <2>1, <2>2, <2>3
<1> QED BY <1>5, <1>6, <1>7 DEF Z, w

\* A swap leaves a tree of the same nodes (with_swapped).
LEMMA SwappedIs ==
  ASSUME NEW l, Tree(l), NEW a \in PanesOf(l), NEW b \in PanesOf(l), a # b
  PROVE  LET m == WithSwapped(l, a, b)
         IN Tree(m) /\ m.root = l.root /\ Splits(m) = Splits(l) /\ Nodes(m) = Nodes(l) /\ PanesOf(m) = PanesOf(l)
<1> DEFINE m == WithSwapped(l, a, b) S == Splits(l) K == KidsOn(l) L == KidsOn(m) r == l.root
           f == [s \in S |-> [axis |-> l.splits[s].axis, children |-> SwappedKids(Children(l, s), a, b)]]
<1>1. Typed(l) /\ r \in Ends /\ IsFiniteSet(S) /\ Frame(r, S, K) /\ Nodes(l) = NodesIn(r, S, K)
      /\ \A s \in S : Distinct(Children(l, s))
  BY NodesAre DEF Tree, Typed
<1>2. a \notin SplitIds /\ b \notin SplitIds /\ a \in Nodes(l) /\ b \in Nodes(l) /\ a \notin S /\ b \notin S
  BY TreeNodes DEF PanesOf
<1>3. S # {} /\ r # a /\ r # b
  <2>1. S # {}
    <3>1. SUFFICES ASSUME S = {} PROVE FALSE
      OBVIOUS
    <3>2. a = r /\ b = r
      BY <1>1, <1>2, <3>1, InNodes
    <3> QED BY <3>2
  <2>2. r \in S
    BY <2>1, TreeNodes
  <2> QED BY <1>2, <2>1, <2>2
<1>4. a \in Ends /\ b \in Ends
  <2>1. ASSUME NEW x \in Nodes(l), x # r PROVE x \in Ends
    <3>1. PICK s \in S : x \in K[s]
      BY <1>1, <2>1, InNodes
    <3>2. x \in NodesOf(Children(l, s)) /\ Children(l, s) \in Seq(Kid)
      BY <1>1, <3>1, SplitIs
    <3>3. PICK i \in 1..Len(Children(l, s)) : Children(l, s)[i].node = x
      BY <3>2 DEF NodesOf
    <3> QED BY <3>2, <3>3, KidsOf
  <2> QED BY <1>2, <1>3, <2>1
<1>5. m = Layout(r, f)
  <2> DEFINE Swap(node) == CASE node = a -> b [] node = b -> a [] OTHER -> node
             SwapIn(children) == [i \in DOMAIN children |-> [children[i] EXCEPT !.node = Swap(@)]]
             g == [s \in S |-> [l.splits[s] EXCEPT !.children = SwapIn(@)]]
  <2>1. m = Layout(Swap(r), g)
    BY DEF WithSwapped
  <2>2. \A x : Swap(x) = Swapped(a, b, x)
    BY DEF Swapped
  <2>3. Swap(r) = r
    BY <1>3
  <2> HIDE DEF Swap
  <2>4. ASSUME NEW s \in S PROVE g[s] = f[s]
    <3> DEFINE x == l.splits[s].axis A == Children(l, s) p == l.splits[s] Z == SwapIn(A)
    <3>1. p = [axis |-> x, children |-> A]
      BY <1>1, SplitIs
    <3>2. Z = SwappedKids(A, a, b)
      <4> HIDE DEF A
      <4> QED BY <2>2 DEF SwappedKids
    <3> HIDE DEF SwapIn
    <3>3. g[s] = [p EXCEPT !.children = SwapIn(@)]
      OBVIOUS
    <3> HIDE DEF x, A, p, Z, g
    <3>4. g[s] = [axis |-> x, children |-> SwapIn(A)]
      BY <3>1, <3>3
    <3> QED BY <3>2, <3>4 DEF x, A, Z
  <2>5. g = f
    <3>1. g = [s \in S |-> g[s]] /\ f = [s \in S |-> f[s]]
      OBVIOUS
    <3> HIDE DEF g, f
    <3> QED BY <2>4, <3>1
  <2> HIDE DEF g, f
  <2> QED BY <2>1, <2>3, <2>5
<1>6. m.root = r /\ m.splits = f /\ Splits(m) = S /\ m = Layout(m.root, m.splits)
  BY <1>5 DEF Layout, Splits
<1> HIDE DEF m
<1>7. ASSUME NEW s \in S
      PROVE  /\ m.splits[s] = [axis |-> m.splits[s].axis, children |-> Children(m, s)]
             /\ m.splits[s].axis \in Axes /\ Children(m, s) \in Seq(Kid) /\ Distinct(Children(m, s))
             /\ \A x : x \in NodesOf(Children(m, s)) <=> Swapped(a, b, x) \in NodesOf(Children(l, s))
  <2> DEFINE A == Children(l, s) x == l.splits[s].axis Z == SwappedKids(A, a, b)
  <2>1. A \in Seq(Kid) /\ x \in Axes /\ Distinct(A)
    BY <1>1, SplitIs
  <2>2. m.splits[s] = [axis |-> x, children |-> Z]
    BY <1>6
  <2> HIDE DEF A, x, f, S
  <2>3. Z \in Seq(Kid) /\ Distinct(Z) /\ \A y : y \in NodesOf(Z) <=> Swapped(a, b, y) \in NodesOf(A)
    BY <1>4, <2>1, SwappedKidsAre
  <2> HIDE DEF Z
  <2>4. Children(m, s) = Z /\ m.splits[s].axis = x
    BY <2>2 DEF Children
  <2> QED BY <2>1, <2>2, <2>3, <2>4 DEF A
<1>8. KidsSwapped(S, K, a, b, L)
  <2>1. \A s \in S : L[s] = NodesOf(Children(m, s)) /\ K[s] = NodesOf(Children(l, s))
    BY <1>6 DEF KidsOn
  <2> HIDE DEF L, K
  <2> QED BY <1>7, <2>1 DEF KidsSwapped
<1>9. Frame(r, S, L) /\ NodesIn(r, S, L) = NodesIn(r, S, K)
  <2>1. a \in NodesIn(r, S, K) /\ b \in NodesIn(r, S, K)
    BY <1>1, <1>2
  <2> HIDE DEF L, K, S, r
  <2> QED BY <1>1, <1>2, <1>3, <1>8, <2>1, FrameSwapped
<1>10. Tree(m)
  <2>1. m.splits = [s \in Splits(m) |-> m.splits[s]]
    BY <1>6
  <2>2. Frame(m.root, Splits(m), KidsOn(m))
    BY <1>6, <1>9
  <2>3. m.root \in Ends /\ IsFiniteSet(Splits(m))
    BY <1>1, <1>6
  <2> HIDE DEF L, K, f
  <2> QED BY <1>6, <1>7, <2>1, <2>2, <2>3, IsTree
<1>11. Nodes(m) = Nodes(l)
  <2>1. Nodes(m) = NodesIn(r, S, L)
    BY <1>6, <1>10, NodesAre DEF Tree
  <2> QED BY <1>1, <1>9, <2>1
<1>12. PanesOf(m) = PanesOf(l)
  BY <1>6, <1>11 DEF PanesOf
<1> QED BY <1>6, <1>10, <1>11, <1>12 DEF m

\* The children of a split with other weights.
Weighed(A, weights) == [i \in DOMAIN A |-> Child(weights[i], A[i].node)]

\* A list of children with other weights keeps its nodes.
LEMMA WeighedIs ==
  ASSUME NEW A \in Seq(Kid), NEW weights, \A i \in 1..Len(A) : weights[i] \in Nat
  PROVE  Weighed(A, weights) \in Seq(Kid) /\ SameNodes(A, Weighed(A, weights))
<1> DEFINE n == Len(A) Z == Weighed(A, weights)
<1>1. n \in Nat /\ DOMAIN A = 1..n /\ \A k \in 1..n : A[k].node \in Ends
  BY KidsOf
<1>2. \A i \in 1..n : weights[i] \in Nat
  OBVIOUS
<1> HIDE DEF n
<1>3. ASSUME NEW k \in 1..n PROVE Z[k] \in Kid /\ Z[k].node = A[k].node
  <2> DEFINE x == A[k].node y == weights[k]
  <2>1. x \in Ends /\ y \in Nat
    BY <1>1, <1>2
  <2>2. Z[k] = Child(y, x)
    BY <1>1 DEF Weighed
  <2> HIDE DEF x, y, Z
  <2>3. Z[k] \in Kid /\ Z[k].node = x
    BY <2>1, <2>2 DEF Child, Kid
  <2> QED BY <2>3 DEF x
<1>4. DOMAIN Z = 1..n /\ Z = [k \in 1..n |-> Z[k]]
  BY <1>1 DEF Weighed
<1> HIDE DEF Z
<1>5. Z \in Seq(Kid) /\ Len(Z) = n
  <2>1. Z \in [1..n -> Kid]
    BY <1>3, <1>4
  <2> QED BY <1>1, <2>1
<1> QED BY <1>3, <1>5 DEF Z, n, SameNodes

\* A resize changes the weights of one split alone (with_weights).
LEMMA ResizedIs ==
  ASSUME NEW l, Tree(l), NEW s \in Splits(l), NEW weights \in Seq(Nat), Len(weights) = Len(Children(l, s))
  PROVE  /\ Reshares(l, WithWeights(l, s, weights))
         /\ WithWeights(l, s, weights).splits[s] =
              [axis |-> l.splits[s].axis, children |-> Weighed(Children(l, s), weights)]
<1> DEFINE A == Children(l, s) Z == Weighed(A, weights) m == WithChildren(l, s, Z)
<1>1. Typed(l) /\ A \in Seq(Kid)
  BY LengthIs DEF Tree
<1>2. \A i \in 1..Len(A) : weights[i] \in Nat
  OBVIOUS
<1>3. WithWeights(l, s, weights) = m
  BY DEF WithWeights, Weighed
<1> HIDE DEF A, m
<1>4. Z \in Seq(Kid) /\ SameNodes(A, Z)
  BY <1>1, <1>2, WeighedIs
<1> HIDE DEF Z
<1>5. Reshares(l, m)
  BY <1>4, WithWeightsReshares DEF A, m
<1>6. /\ m.root = l.root /\ m = Layout(m.root, m.splits) /\ Splits(m) = Splits(l)
      /\ m.splits = [t \in Splits(m) |-> m.splits[t]]
      /\ Children(m, s) = Z /\ m.splits[s].axis = l.splits[s].axis
      /\ m.splits[s] = [axis |-> m.splits[s].axis, children |-> Z]
      /\ \A t \in Splits(l) : t # s => m.splits[t] = l.splits[t] /\ Children(m, t) = Children(l, t)
  BY <1>1, <1>4, WithChildrenIs DEF m
<1> QED BY <1>3, <1>5, <1>6 DEF Z, A

\* There is a share for each child.
LEMMA ApportionIs ==
  ASSUME NEW n \in 1..MaxSplitChildren
  PROVE  Apportion(n) \in Seq(Nat) /\ Len(Apportion(n)) = n
<1> DEFINE q == SplitTotal \div n e(i) == q + IF i <= SplitTotal % n THEN 1 ELSE 0
<1>1. n \in Nat /\ n >= 1
  BY SplitAssumption
<1>2. q \in Nat
  <2>1. n \in Nat \ {0} /\ SplitTotal \in Nat
    BY <1>1, SplitAssumption
  <2> QED BY <2>1
<1> HIDE DEF q
<1>3. \A i \in 1..n : e(i) \in Nat
  BY <1>2
<1>4. Apportion(n) = [i \in 1..n |-> e(i)]
  BY DEF Apportion, q
<1> HIDE DEF e
<1>5. Apportion(n) \in [1..n -> Nat]
  BY <1>3, <1>4
<1> QED BY <1>1, <1>5

\* A balance changes nothing but weights (balanced).
LEMMA BalancedIs ==
  ASSUME NEW l, Sound(l)
  PROVE  Reshares(l, Balanced(l))
<1> DEFINE S == Splits(l) m == Balanced(l)
           f == [s \in S |-> WithWeights(l, s, Apportion(Len(Children(l, s)))).splits[s]]
<1>1. Tree(l) /\ Typed(l)
  BY DEF Sound, Tree
<1>2. m.root = l.root /\ m.splits = f /\ m = Layout(l.root, m.splits) /\ Splits(m) = S
  <2>1. m = Layout(l.root, f)
    BY DEF Balanced
  <2> HIDE DEF m
  <2>2. m.root = l.root /\ m.splits = f /\ m = Layout(l.root, m.splits)
    BY <2>1 DEF Layout
  <2> QED BY <2>2 DEF Splits
<1> HIDE DEF m
<1>3. ASSUME NEW t \in S PROVE Reshared(l, m, t)
  <2> DEFINE A == Children(l, t) ws == Apportion(Len(A)) Z == Weighed(A, ws) x == l.splits[t].axis
  <2>1. A \in Seq(Kid) /\ Len(A) \in 1..MaxSplitChildren
    <3>1. A \in Seq(Kid) /\ Full(A)
      BY <1>1, LengthIs DEF Sound
    <3> DEFINE n == Len(A)
    <3>2. n \in 2..MaxSplitChildren
      BY <3>1 DEF Full
    <3> HIDE DEF n
    <3>3. n \in 1..MaxSplitChildren
      BY <3>2, SplitAssumption
    <3> QED BY <3>1, <3>3 DEF n
  <2>2. ws \in Seq(Nat) /\ Len(ws) = Len(A)
    <3> HIDE DEF A
    <3> QED BY <2>1, ApportionIs
  <2>3. m.splits[t] = WithWeights(l, t, ws).splits[t]
    BY <1>2
  <2> HIDE DEF ws
  <2>4. WithWeights(l, t, ws).splits[t] = [axis |-> x, children |-> Z]
    BY <1>1, <2>2, ResizedIs
  <2>5. Z \in Seq(Kid) /\ SameNodes(A, Z)
    <3>1. \A i \in 1..Len(A) : ws[i] \in Nat
      BY <2>2
    <3> HIDE DEF A
    <3> QED BY <2>1, <3>1, WeighedIs
  <2> HIDE DEF Z, A, x
  <2>6. m.splits[t] = [axis |-> x, children |-> Z] /\ Children(m, t) = Z
    BY <2>3, <2>4 DEF Children
  <2> QED BY <2>5, <2>6 DEF Reshared, x, A
<1>4. m.splits = [t \in Splits(m) |-> m.splits[t]]
  BY <1>2
<1>5. Reshares(l, m)
  <2> HIDE DEF f
  <2> QED BY <1>2, <1>3, <1>4 DEF Reshares
<1> QED BY <1>5 DEF m

-----------------------------------------------------------------------------
(* The tabs.                                                                  *)

\* A layout of panes, or none.
Fine(l) == l = None \/ (Sound(l) /\ PanesOf(l) \subseteq PaneIds)
Distant(l, m) == l = None \/ m = None \/ Apart(l, m)

\* Every tab that is there is a tree whose splits fit, and no two tabs have a pane or
\* a split in common.
LayoutsSound ==
    /\ tabs = [t \in Tabs |-> tabs[t]]
    /\ \A t \in Tabs : Fine(tabs[t])
    /\ \A t, u \in Tabs : t # u => Distant(tabs[t], tabs[u])

\* Having no node in common goes both ways.
LEMMA ApartTurns ==
  ASSUME NEW l, NEW m, Apart(l, m)
  PROVE  Apart(m, l)
BY DEF Apart

\* So it does for tabs that may not be there.
LEMMA DistantTurns ==
  ASSUME NEW l, NEW m, Distant(l, m)
  PROVE  Distant(m, l)
BY DEF Distant, Apart

\* A step that changes two tabs keeps the layouts sound if the two are, apart from each
\* other and from the others.
LEMMA ChangesTwo ==
  ASSUME LayoutsSound, NEW t \in Tabs, NEW u \in Tabs, t # u, NEW x, NEW m, Fine(x), Fine(m), Distant(x, m),
         \A v \in Tabs : v # t /\ v # u => Distant(x, tabs[v]) /\ Distant(m, tabs[v]),
         tabs' = [tabs EXCEPT ![t] = x, ![u] = m]
  PROVE  LayoutsSound'
<1>1. /\ tabs = [v \in Tabs |-> tabs[v]]
      /\ \A v \in Tabs : Fine(tabs[v])
      /\ \A v, w \in Tabs : v # w => Distant(tabs[v], tabs[w])
  BY DEF LayoutsSound
<1>2. tabs' = [v \in Tabs |-> tabs'[v]] /\ \A v \in Tabs : tabs'[v] = IF v = t THEN x ELSE IF v = u THEN m ELSE tabs[v]
  BY <1>1
<1>3. \A v \in Tabs : Fine(tabs'[v])
  BY <1>1, <1>2
<1>4. ASSUME NEW v \in Tabs, NEW w \in Tabs, v # w PROVE Distant(tabs'[v], tabs'[w])
  <2>1. CASE v # t /\ v # u /\ w # t /\ w # u
    BY <1>1, <1>2, <1>4, <2>1
  <2>2. CASE v = t
    <3>1. CASE w = u
      BY <1>2, <1>4, <2>2, <3>1
    <3>2. CASE w # u
      BY <1>2, <1>4, <2>2, <3>2
    <3> QED BY <3>1, <3>2
  <2>3. CASE v = u
    <3>1. CASE w = t
      BY <1>2, <1>4, <2>3, <3>1, DistantTurns
    <3>2. CASE w # t
      BY <1>2, <1>4, <2>3, <3>2
    <3> QED BY <3>1, <3>2
  <2>4. CASE v # t /\ v # u /\ w = t
    BY <1>2, <2>4, DistantTurns
  <2>5. CASE v # t /\ v # u /\ w = u
    BY <1>2, <1>4, <2>5, DistantTurns
  <2> QED BY <2>1, <2>2, <2>3, <2>4, <2>5
<1> QED BY <1>2, <1>3, <1>4 DEF LayoutsSound

\* So does a step that changes one.
LEMMA ChangesOne ==
  ASSUME LayoutsSound, NEW t \in Tabs, NEW x, Fine(x),
         \A v \in Tabs : v # t => Distant(x, tabs[v]),
         tabs' = [tabs EXCEPT ![t] = x]
  PROVE  LayoutsSound'
<1>1. /\ tabs = [v \in Tabs |-> tabs[v]]
      /\ \A v \in Tabs : Fine(tabs[v])
      /\ \A v, w \in Tabs : v # w => Distant(tabs[v], tabs[w])
  BY DEF LayoutsSound
<1>2. tabs' = [v \in Tabs |-> tabs'[v]] /\ \A v \in Tabs : tabs'[v] = IF v = t THEN x ELSE tabs[v]
  BY <1>1
<1>3. \A v \in Tabs : Fine(tabs'[v])
  BY <1>1, <1>2
<1>4. ASSUME NEW v \in Tabs, NEW w \in Tabs, v # w PROVE Distant(tabs'[v], tabs'[w])
  <2>1. CASE v # t /\ w # t
    BY <1>1, <1>2, <1>4, <2>1
  <2>2. CASE v = t
    BY <1>2, <1>4, <2>2
  <2>3. CASE v # t /\ w = t
    BY <1>2, <2>3, DistantTurns
  <2> QED BY <2>1, <2>2, <2>3
<1> QED BY <1>2, <1>3, <1>4 DEF LayoutsSound

\* A live tab.
LEMMA LiveIs ==
  ASSUME LayoutsSound, NEW t \in Live
  PROVE  /\ t \in Tabs /\ tabs[t] # None /\ Sound(tabs[t]) /\ Tree(tabs[t]) /\ PanesIn(t) \subseteq PaneIds
         /\ PanesIn(t) = PanesOf(tabs[t]) /\ None \notin Nodes(tabs[t])
         /\ Nodes(tabs[t]) = PanesIn(t) \cup Splits(tabs[t]) /\ Splits(tabs[t]) \subseteq SplitIds
<1>1. t \in Tabs /\ tabs[t] # None /\ Fine(tabs[t])
  BY DEF Live, LayoutsSound
<1>2. Sound(tabs[t]) /\ Tree(tabs[t]) /\ PanesOf(tabs[t]) \subseteq PaneIds
  BY <1>1 DEF Fine, Sound
<1>3. Splits(tabs[t]) \subseteq SplitIds /\ Nodes(tabs[t]) = PanesOf(tabs[t]) \cup Splits(tabs[t])
  BY <1>2, TreeNodes
<1>4. None \notin Nodes(tabs[t])
  BY <1>2, <1>3, SplitAssumption
<1> QED BY <1>1, <1>2, <1>3, <1>4 DEF PanesIn

\* Two live tabs have no node in common.
LEMMA LiveApart ==
  ASSUME LayoutsSound, NEW t \in Live, NEW u \in Live, t # u
  PROVE  Apart(tabs[t], tabs[u])
BY DEF LayoutsSound, Live, Distant

\* What a tab may have: nodes of its own, and such as no tab has.
Fresh(x) == \A v \in Live : x \notin Nodes(tabs[v])

\* A layout of nodes that no tab has, or that its own tab had, is apart from another
\* tab.
LEMMA StaysDistant ==
  ASSUME LayoutsSound, NEW v \in Tabs, NEW m,
         \A x \in Nodes(m) : Fresh(x) \/ \E w \in Live \ {v} : x \in Nodes(tabs[w])
  PROVE  Distant(m, tabs[v])
<1>1. CASE tabs[v] = None
  BY <1>1 DEF Distant
<1>2. CASE tabs[v] # None
  <2>1. v \in Live
    BY <1>2 DEF Live
  <2>2. ASSUME NEW x \in Nodes(m) PROVE x \notin Nodes(tabs[v])
    <3>1. CASE Fresh(x)
      BY <2>1, <3>1 DEF Fresh
    <3>2. ASSUME NEW w \in Live \ {v}, x \in Nodes(tabs[w]) PROVE x \notin Nodes(tabs[v])
      <4>1. w \in Live /\ w # v
        OBVIOUS
      <4> QED BY <2>1, <3>2, <4>1, LiveApart DEF Apart
    <3> QED BY <3>1, <3>2
  <2> QED BY <2>2 DEF Distant, Apart
<1> QED BY <1>1, <1>2

\* The next identity for a split is no tab's.
LEMMA NextSplitIs ==
  ASSUME LayoutsSound, NEW new, NextSplit(new)
  PROVE  /\ new \in SplitIds /\ Fresh(new) /\ new \notin PaneIds
         /\ \A v \in Live : new \notin Splits(tabs[v])
<1>1. new \in SplitIds /\ new \notin PaneIds
  BY SplitAssumption DEF NextSplit
<1>2. ASSUME NEW v \in Live PROVE new \notin Splits(tabs[v])
  BY DEF NextSplit, UsedSplits
<1>3. ASSUME NEW v \in Live PROVE new \notin Nodes(tabs[v])
  BY <1>1, <1>2, LiveIs
<1> QED BY <1>1, <1>2, <1>3 DEF Fresh

\* A new pane is no tab's.
LEMMA UnusedIs ==
  ASSUME LayoutsSound, NEW p \in PaneIds, p \notin UsedPanes
  PROVE  Fresh(p)
<1>1. ASSUME NEW v \in Live PROVE p \notin Nodes(tabs[v])
  <2>1. p \notin PanesIn(v)
    BY DEF UsedPanes
  <2> QED BY <2>1, LiveIs, SplitAssumption
<1> QED BY <1>1 DEF Fresh

-----------------------------------------------------------------------------
(* Each operation keeps the layouts sound.                                    *)

\* What a close leaves of a tab is sound and has the other panes.
LEMMA LeftIs ==
  ASSUME LayoutsSound, NEW t \in Live, NEW p \in PanesIn(t)
  PROVE  /\ Leaves(t, p) /\ Fine(Left(t, p))
         /\ Left(t, p) # None => PanesOf(Left(t, p)) = PanesIn(t) \ {p}
         /\ Left(t, p) # None => \A x \in Nodes(Left(t, p)) : x \in Nodes(tabs[t]) /\ x # p
<1> DEFINE l == tabs[t] m == WithoutPane(l, p)
<1>1. Sound(l) /\ PanesOf(l) \subseteq PaneIds /\ PanesIn(t) = PanesOf(l) /\ p \in PanesOf(l) /\ Tree(l)
      /\ Nodes(l) = PanesOf(l) \cup Splits(l)
  BY LiveIs
<1>2. CASE l.root = p
  BY <1>2 DEF Left, Leaves, Fine
<1>3. CASE l.root # p
  <2>1. Left(t, p) = m
    BY <1>3 DEF Left
  <2> HIDE DEF l
  <2>2. Sound(m) /\ Splits(m) \subseteq Splits(l) /\ PanesOf(m) = PanesOf(l) \ {p}
    BY <1>1, <1>3, RemovalIsSound
  <2> HIDE DEF m
  <2>3. Valid(m) /\ Fine(m)
    BY <1>1, <2>2, SoundIsValid DEF Fine
  <2>4. Nodes(m) = PanesOf(m) \cup Splits(m)
    BY <2>2, TreeNodes DEF Sound
  <2>5. p \notin Splits(l)
    BY <1>1 DEF PanesOf
  <2>6. \A x \in Nodes(m) : x \in Nodes(l) /\ x # p
    BY <1>1, <2>2, <2>4, <2>5
  <2> QED BY <1>1, <2>1, <2>2, <2>3, <2>6 DEF Leaves, l, m
<1> QED BY <1>2, <1>3

\* An insertion brings no nodes but those of the two trees and the new split.
LEMMA InsertsNodes ==
  ASSUME NEW l, Tree(l), NEW ins, Tree(ins), NEW new, NEW m, Inserts(l, ins, new, m)
  PROVE  \A x \in Nodes(m) : x \in Nodes(l) \/ x \in Nodes(ins) \/ x = new
<1>1. Nodes(m) = PanesOf(m) \cup Splits(m)
  BY TreeNodes DEF Inserts, Sound
<1>2. Nodes(l) = PanesOf(l) \cup Splits(l) /\ Nodes(ins) = PanesOf(ins) \cup Splits(ins)
  BY TreeNodes
<1> QED BY <1>1, <1>2 DEF Inserts

\* A tab that opens with a pane alone keeps the layouts sound.
LEMMA OpenTabKeeps ==
  ASSUME LayoutsSound, NEW t \in Tabs, NEW p \in PaneIds, OpenTab(t, p)
  PROVE  LayoutsSound'
<1> DEFINE m == Alone(p)
<1>1. t \notin Live /\ p \notin UsedPanes /\ tabs' = [tabs EXCEPT ![t] = m]
  BY DEF OpenTab
<1>2. Sound(m) /\ Nodes(m) = {p} /\ PanesOf(m) = {p}
  BY AloneIs
<1> HIDE DEF m
<1>3. Fine(m)
  BY <1>2 DEF Fine
<1>4. \A v \in Tabs : Distant(m, tabs[v])
  BY <1>1, <1>2, UnusedIs, StaysDistant
<1> QED BY <1>1, <1>3, <1>4, ChangesOne

\* A pane split off another keeps the layouts sound.
LEMMA SplitPaneKeeps ==
  ASSUME LayoutsSound, NEW t \in Live, NEW target, NEW side \in Sides, NEW p \in PaneIds,
         NEW new \in SplitIds, NextSplit(new), SplitPane(t, target, side, p, new)
  PROVE  LayoutsSound'
<1> DEFINE l == tabs[t] ins == Alone(p) m == WithInserted(l, target, side, ins, new)
<1>1. p \notin UsedPanes /\ CheckSplit(l, target, side) /\ tabs' = [tabs EXCEPT ![t] = m]
  BY DEF SplitPane, Becomes
<1>2. Sound(ins) /\ Splits(ins) = {} /\ Nodes(ins) = {p} /\ PanesOf(ins) = {p}
  BY AloneIs
<1>3. /\ t \in Tabs /\ Sound(l) /\ Tree(l) /\ PanesOf(l) \subseteq PaneIds
      /\ new \in SplitIds \ Splits(l) /\ Fresh(new) /\ Fresh(p)
  BY <1>1, LiveIs, NextSplitIs, UnusedIs
<1> HIDE DEF ins
<1>4. Apart(l, ins) /\ new \notin Splits(ins) /\ Tree(ins)
  BY <1>2, <1>3 DEF Fresh, Apart, Sound
<1>5. Inserts(l, ins, new, m)
  <2> HIDE DEF l
  <2> QED BY <1>1, <1>2, <1>3, <1>4, InsertionIsSound
<1> HIDE DEF m
<1>6. \A x \in Nodes(m) : x \in Nodes(l) \/ x \in Nodes(ins) \/ x = new
  BY <1>3, <1>4, <1>5, InsertsNodes
<1>7. Fine(m)
  BY <1>2, <1>3, <1>5 DEF Fine, Inserts
<1>8. ASSUME NEW v \in Tabs, v # t PROVE Distant(m, tabs[v])
  <2>1. t \in Live \ {v}
    BY <1>8
  <2>2. \A x \in Nodes(m) : Fresh(x) \/ \E w \in Live \ {v} : x \in Nodes(tabs[w])
    BY <1>2, <1>3, <1>6, <2>1
  <2> QED BY <2>2, StaysDistant
<1> QED BY <1>1, <1>3, <1>7, <1>8, ChangesOne

\* A close keeps the layouts sound.
LEMMA ClosePaneKeeps ==
  ASSUME LayoutsSound, NEW t \in Live, NEW p \in PanesIn(t), ClosePane(t, p)
  PROVE  LayoutsSound'
<1> DEFINE m == Left(t, p)
<1>1. t \in Tabs /\ tabs' = [tabs EXCEPT ![t] = m]
  BY LiveIs DEF ClosePane
<1>2. Fine(m) /\ (m # None => \A x \in Nodes(m) : x \in Nodes(tabs[t]) /\ x # p)
  BY LeftIs
<1> HIDE DEF m
<1>3. ASSUME NEW v \in Tabs, v # t PROVE Distant(m, tabs[v])
  <2>1. CASE m = None
    BY <2>1 DEF Distant
  <2>2. CASE m # None
    <3>1. t \in Live \ {v}
      BY <1>3
    <3>2. \A x \in Nodes(m) : \E w \in Live \ {v} : x \in Nodes(tabs[w])
      BY <1>2, <2>2, <3>1
    <3> QED BY <3>2, StaysDistant
  <2> QED BY <2>1, <2>2
<1> QED BY <1>1, <1>2, <1>3, ChangesOne

\* A transform that only rearranges a tab.
LEMMA RearrangedKeeps ==
  ASSUME LayoutsSound, NEW t \in Live, NEW m, Tree(m), Nodes(m) = Nodes(tabs[t]), PanesOf(m) = PanesOf(tabs[t]),
         Becomes(t, m)
  PROVE  LayoutsSound'
<1>1. Valid(m) /\ tabs' = [tabs EXCEPT ![t] = m]
  BY DEF Becomes
<1>2. t \in Tabs /\ PanesOf(tabs[t]) \subseteq PaneIds
  BY LiveIs
<1>3. Fine(m)
  BY <1>1, <1>2, ValidIsSound DEF Fine
<1>4. ASSUME NEW v \in Tabs, v # t PROVE Distant(m, tabs[v])
  <2>1. t \in Live \ {v}
    BY <1>4
  <2>2. \A x \in Nodes(m) : \E w \in Live \ {v} : x \in Nodes(tabs[w])
    BY <2>1
  <2> QED BY <2>2, StaysDistant
<1> QED BY <1>1, <1>2, <1>3, <1>4, ChangesOne

\* A swap keeps the layouts sound.
LEMMA SwapPanesKeeps ==
  ASSUME LayoutsSound, NEW t \in Live, NEW a \in PanesIn(t), NEW b \in PanesIn(t), SwapPanes(t, a, b)
  PROVE  LayoutsSound'
<1> DEFINE m == WithSwapped(tabs[t], a, b)
<1>1. a # b /\ Becomes(t, m)
  BY DEF SwapPanes
<1>2. Tree(tabs[t]) /\ a \in PanesOf(tabs[t]) /\ b \in PanesOf(tabs[t])
  BY LiveIs
<1>3. Tree(m) /\ Nodes(m) = Nodes(tabs[t]) /\ PanesOf(m) = PanesOf(tabs[t])
  BY <1>1, <1>2, SwappedIs
<1> HIDE DEF m
<1> QED BY <1>1, <1>3, RearrangedKeeps

\* A resize keeps the layouts sound.
LEMMA ResizeSplitKeeps ==
  ASSUME LayoutsSound, NEW t \in Live, NEW s \in Splits(tabs[t]), NEW weights \in Resizes,
         ResizeSplit(t, s, weights)
  PROVE  LayoutsSound'
<1> DEFINE m == WithWeights(tabs[t], s, weights)
<1>1. Len(weights) = Len(Children(tabs[t], s)) /\ Becomes(t, m)
  BY DEF ResizeSplit
<1>2. weights \in Seq(Nat)
  BY SplitAssumption
<1>3. Reshares(tabs[t], m) /\ Tree(tabs[t])
  BY <1>1, <1>2, LiveIs, ResizedIs
<1> HIDE DEF m
<1>4. Tree(m) /\ Nodes(m) = Nodes(tabs[t]) /\ PanesOf(m) = PanesOf(tabs[t])
  BY <1>3, ResharesIs
<1> QED BY <1>1, <1>4, RearrangedKeeps

\* A balance keeps the layouts sound.
LEMMA BalancePanesKeeps ==
  ASSUME LayoutsSound, NEW t \in Live, BalancePanes(t)
  PROVE  LayoutsSound'
<1> DEFINE m == Balanced(tabs[t])
<1>1. Becomes(t, m)
  BY DEF BalancePanes
<1>2. Reshares(tabs[t], m) /\ Tree(tabs[t])
  BY LiveIs, BalancedIs
<1> HIDE DEF m
<1>3. Tree(m) /\ Nodes(m) = Nodes(tabs[t]) /\ PanesOf(m) = PanesOf(tabs[t])
  BY <1>2, ResharesIs
<1> QED BY <1>1, <1>3, RearrangedKeeps

\* A pane that leaves its place for another in its tab keeps the layouts sound.
LEMMA MoveWithinTabKeeps ==
  ASSUME LayoutsSound, NEW t \in Live, NEW target \in PanesIn(t), NEW side \in Sides, NEW p \in PanesIn(t),
         NEW new \in SplitIds, NextSplit(new), MoveWithinTab(t, p, target, side, new)
  PROVE  LayoutsSound'
<1> DEFINE l == tabs[t] rest == WithoutPane(l, p) ins == Alone(p)
           m == WithInserted(rest, target, side, ins, new)
<1>1. p # target /\ CheckSplit(rest, target, side) /\ tabs' = [tabs EXCEPT ![t] = m]
  BY DEF MoveWithinTab, Becomes
<1>2. /\ t \in Tabs /\ Sound(l) /\ Tree(l) /\ PanesOf(l) \subseteq PaneIds /\ p \in PanesOf(l) /\ target \in PanesOf(l)
      /\ p \in PaneIds /\ new \in SplitIds /\ new \notin Splits(l) /\ Fresh(new) /\ Splits(l) \subseteq SplitIds
      /\ Nodes(l) = PanesOf(l) \cup Splits(l)
  BY LiveIs, NextSplitIs
<1>3. p # l.root
  <2>1. SUFFICES ASSUME p = l.root PROVE FALSE
    OBVIOUS
  <2> HIDE DEF l
  <2>2. Splits(l) = {}
    BY <1>2, <2>1, TreeNodes DEF PanesOf
  <2>3. Nodes(l) = {l.root}
    BY <2>2 DEF Nodes, ChildrenOf
  <2>4. target = p
    BY <1>2, <2>1, <2>3 DEF PanesOf
  <2> QED BY <1>1, <2>4
<1> HIDE DEF l
<1>4. Sound(rest) /\ Splits(rest) \subseteq Splits(l) /\ PanesOf(rest) = PanesOf(l) \ {p}
  BY <1>2, <1>3, RemovalIsSound
<1>5. Sound(ins) /\ Splits(ins) = {} /\ Nodes(ins) = {p} /\ PanesOf(ins) = {p}
  BY <1>2, AloneIs
<1> HIDE DEF ins, rest
<1>6. Tree(rest) /\ Tree(ins) /\ Nodes(rest) = PanesOf(rest) \cup Splits(rest)
  BY <1>4, <1>5, TreeNodes DEF Sound
<1>7. Apart(rest, ins) /\ new \notin Splits(ins) /\ new \in SplitIds \ Splits(rest)
  <2>1. p \notin Splits(l)
    BY <1>2 DEF PanesOf
  <2>2. p \notin Nodes(rest)
    BY <1>4, <1>6, <2>1
  <2> QED BY <1>2, <1>4, <1>5, <2>2 DEF Apart
<1>8. Inserts(rest, ins, new, m)
  BY <1>1, <1>4, <1>5, <1>7, InsertionIsSound
<1> HIDE DEF m
<1>9. \A x \in Nodes(m) : x \in Nodes(l) \/ x = new
  <2>1. \A x \in Nodes(m) : x \in Nodes(rest) \/ x \in Nodes(ins) \/ x = new
    BY <1>6, <1>8, InsertsNodes
  <2> QED BY <1>2, <1>4, <1>5, <1>6, <2>1
<1>10. Fine(m)
  BY <1>2, <1>4, <1>5, <1>8 DEF Fine, Inserts
<1>11. ASSUME NEW v \in Tabs, v # t PROVE Distant(m, tabs[v])
  <2>1. t \in Live \ {v}
    BY <1>11
  <2>2. \A x \in Nodes(m) : Fresh(x) \/ \E w \in Live \ {v} : x \in Nodes(tabs[w])
    BY <1>2, <1>9, <2>1 DEF l
  <2> QED BY <2>2, StaysDistant
<1> QED BY <1>1, <1>2, <1>10, <1>11, ChangesOne

\* A pane that moves to another tab keeps both layouts sound.
LEMMA MoveBetweenTabsKeeps ==
  ASSUME LayoutsSound, NEW t \in Live, NEW u \in Live, NEW target, NEW side \in Sides, NEW p \in PanesIn(t),
         NEW new \in SplitIds, NextSplit(new), MoveBetweenTabs(t, p, u, target, side, new)
  PROVE  LayoutsSound'
<1> DEFINE l == tabs[u] ins == Alone(p) x == Left(t, p)
           m == WithInserted(l, target, side, ins, new)
<1>1. t # u /\ CheckSplit(l, target, side) /\ tabs' = [tabs EXCEPT ![t] = x, ![u] = m]
  BY DEF MoveBetweenTabs
<1>2. /\ u \in Tabs /\ Sound(l) /\ Tree(l) /\ PanesOf(l) \subseteq PaneIds /\ new \in SplitIds \ Splits(l) /\ Fresh(new)
      /\ t \in Tabs /\ p \in Nodes(tabs[t]) /\ p \in PaneIds
  BY LiveIs, NextSplitIs
<1>3. p \notin Nodes(l)
  BY <1>1, <1>2, LiveApart DEF Apart
<1>4. Sound(ins) /\ Splits(ins) = {} /\ Nodes(ins) = {p} /\ PanesOf(ins) = {p}
  BY <1>2, AloneIs
<1> HIDE DEF ins
<1>5. Apart(l, ins) /\ new \notin Splits(ins) /\ Tree(ins)
  BY <1>3, <1>4 DEF Apart, Sound
<1>6. Inserts(l, ins, new, m)
  <2> HIDE DEF l
  <2> QED BY <1>1, <1>2, <1>4, <1>5, InsertionIsSound
<1> HIDE DEF m
<1>7. \A y \in Nodes(m) : y \in Nodes(l) \/ y = p \/ y = new
  BY <1>2, <1>4, <1>5, <1>6, InsertsNodes
<1>8. Fine(m)
  BY <1>2, <1>4, <1>6 DEF Fine, Inserts
<1>9. Fine(x) /\ (x # None => \A y \in Nodes(x) : y \in Nodes(tabs[t]) /\ y # p)
  BY LeftIs
<1> HIDE DEF x
<1>10. Distant(x, m)
  <2>1. CASE x = None
    BY <2>1 DEF Distant
  <2>2. CASE x # None
    <3>1. ASSUME NEW y \in Nodes(x) PROVE y \notin Nodes(m)
      <4>1. y \in Nodes(tabs[t]) /\ y # p
        BY <1>9, <2>2
      <4>2. y \notin Nodes(l)
        BY <1>1, <4>1, LiveApart DEF Apart
      <4>3. y # new
        BY <1>2, <4>1 DEF Fresh
      <4> QED BY <1>7, <4>1, <4>2, <4>3
    <3> QED BY <3>1 DEF Distant, Apart
  <2> QED BY <2>1, <2>2
<1>11. ASSUME NEW v \in Tabs, v # t, v # u PROVE Distant(x, tabs[v]) /\ Distant(m, tabs[v])
  <2>1. t \in Live \ {v} /\ u \in Live \ {v}
    BY <1>11
  <2>2. \A y \in Nodes(m) : Fresh(y) \/ \E w \in Live \ {v} : y \in Nodes(tabs[w])
    BY <1>2, <1>7, <2>1
  <2>3. Distant(m, tabs[v])
    BY <2>2, StaysDistant
  <2>4. CASE x = None
    BY <2>3, <2>4 DEF Distant
  <2>5. CASE x # None
    <3>1. \A y \in Nodes(x) : \E w \in Live \ {v} : y \in Nodes(tabs[w])
      BY <1>9, <2>1, <2>5
    <3> QED BY <2>3, <3>1, StaysDistant
  <2> QED BY <2>4, <2>5
<1> QED BY <1>1, <1>2, <1>8, <1>9, <1>10, <1>11, ChangesTwo

\* A pane that gets a tab of its own keeps the layouts sound.
LEMMA ExtractPaneKeeps ==
  ASSUME LayoutsSound, NEW t \in Live, NEW p \in PanesIn(t), NEW u \in Tabs, ExtractPane(t, p, u)
  PROVE  LayoutsSound'
<1> DEFINE m == Alone(p) x == Left(t, p)
<1>1. u \notin Live /\ t # u /\ tabs' = [tabs EXCEPT ![t] = x, ![u] = m]
  BY DEF ExtractPane
<1>2. t \in Tabs /\ p \in PaneIds /\ p \in Nodes(tabs[t])
  BY LiveIs
<1>3. Sound(m) /\ Nodes(m) = {p} /\ PanesOf(m) = {p}
  BY <1>2, AloneIs
<1>4. Fine(x) /\ (x # None => \A y \in Nodes(x) : y \in Nodes(tabs[t]) /\ y # p)
  BY LeftIs
<1> HIDE DEF m, x
<1>5. Fine(m)
  BY <1>2, <1>3 DEF Fine
<1>6. Distant(x, m)
  BY <1>3, <1>4 DEF Distant, Apart
<1>7. ASSUME NEW v \in Tabs, v # t, v # u PROVE Distant(x, tabs[v]) /\ Distant(m, tabs[v])
  <2>1. t \in Live \ {v}
    BY <1>7
  <2>2. \A y \in Nodes(m) : \E w \in Live \ {v} : y \in Nodes(tabs[w])
    BY <1>2, <1>3, <2>1
  <2>3. Distant(m, tabs[v])
    BY <2>2, StaysDistant
  <2>4. CASE x = None
    BY <2>3, <2>4 DEF Distant
  <2>5. CASE x # None
    <3>1. \A y \in Nodes(x) : \E w \in Live \ {v} : y \in Nodes(tabs[w])
      BY <1>4, <2>1, <2>5
    <3> QED BY <2>3, <3>1, StaysDistant
  <2> QED BY <2>4, <2>5
<1> QED BY <1>1, <1>2, <1>4, <1>5, <1>6, <1>7, ChangesTwo

\* A tab that becomes part of another keeps the layouts sound.
LEMMA MoveTabToPaneKeeps ==
  ASSUME LayoutsSound, NEW t \in Live, NEW u \in Live, NEW target, NEW side \in Sides,
         NEW new \in SplitIds, NextSplit(new), MoveTabToPane(t, u, target, side, new)
  PROVE  LayoutsSound'
<1> DEFINE l == tabs[u] ins == tabs[t] m == WithInserted(l, target, side, ins, new)
<1>1. t # u /\ CheckSplit(l, target, side) /\ tabs' = [tabs EXCEPT ![t] = None, ![u] = m]
  BY DEF MoveTabToPane
<1>2. /\ u \in Tabs /\ Sound(l) /\ Tree(l) /\ PanesOf(l) \subseteq PaneIds /\ new \in SplitIds \ Splits(l) /\ Fresh(new)
      /\ t \in Tabs /\ Sound(ins) /\ Tree(ins) /\ PanesOf(ins) \subseteq PaneIds /\ new \notin Splits(ins)
  BY LiveIs, NextSplitIs
<1>3. Apart(l, ins)
  BY <1>1, LiveApart
<1>4. Inserts(l, ins, new, m)
  <2> HIDE DEF l, ins
  <2> QED BY <1>1, <1>2, <1>3, InsertionIsSound
<1> HIDE DEF m
<1>5. \A y \in Nodes(m) : y \in Nodes(l) \/ y \in Nodes(ins) \/ y = new
  BY <1>2, <1>4, InsertsNodes
<1>6. Fine(m) /\ Fine(None)
  BY <1>2, <1>4 DEF Fine, Inserts
<1>7. ASSUME NEW v \in Tabs, v # t, v # u PROVE Distant(m, tabs[v])
  <2>1. t \in Live \ {v} /\ u \in Live \ {v}
    BY <1>7
  <2>2. \A y \in Nodes(m) : Fresh(y) \/ \E w \in Live \ {v} : y \in Nodes(tabs[w])
    BY <1>2, <1>5, <2>1
  <2> QED BY <2>2, StaysDistant
<1>8. \A y : Distant(None, y)
  BY DEF Distant
<1> QED BY <1>1, <1>2, <1>6, <1>7, <1>8, ChangesTwo

-----------------------------------------------------------------------------
(* Every layout that can come about is sound, and what is promised of a sound  *)
(* layout is proved above.                                                    *)

\* Whatever a step does leaves every tab a tree whose splits fit, apart from the others.
LEMMA StepKeepsLayouts ==
  ASSUME LayoutsSound, [Next]_tabs
  PROVE  LayoutsSound'
<1>1. ASSUME NEW t \in Tabs, NEW p \in PaneIds, OpenTab(t, p) PROVE LayoutsSound'
  BY <1>1, OpenTabKeeps
<1>2. ASSUME NEW t \in Live, BalancePanes(t) PROVE LayoutsSound'
  BY <1>2, BalancePanesKeeps
<1>3. ASSUME NEW t \in Live, NEW s \in Splits(tabs[t]), NEW weights \in Resizes, ResizeSplit(t, s, weights)
      PROVE  LayoutsSound'
  BY <1>3, ResizeSplitKeeps
<1>4. ASSUME NEW t \in Live, NEW p \in PanesIn(t),
             \/ ClosePane(t, p)
             \/ \E other \in PanesIn(t) : SwapPanes(t, p, other)
             \/ \E u \in Tabs : ExtractPane(t, p, u)
      PROVE  LayoutsSound'
  BY <1>4, ClosePaneKeeps, SwapPanesKeeps, ExtractPaneKeeps
<1>5. ASSUME NEW t \in Live, NEW side \in Sides, NEW target \in PanesIn(t), NEW new \in SplitIds, NextSplit(new),
             \/ \E p \in PaneIds : SplitPane(t, target, side, p, new)
             \/ \E p \in PanesIn(t) : MoveWithinTab(t, p, target, side, new)
             \/ \E u \in Live : MoveTabToPane(u, t, target, side, new)
             \/ \E u \in Live : \E p \in PanesIn(u) : MoveBetweenTabs(u, p, t, target, side, new)
      PROVE  LayoutsSound'
  <2>1. ASSUME NEW p \in PaneIds, SplitPane(t, target, side, p, new) PROVE LayoutsSound'
    BY <1>5, <2>1, SplitPaneKeeps
  <2>2. ASSUME NEW p \in PanesIn(t), MoveWithinTab(t, p, target, side, new) PROVE LayoutsSound'
    BY <1>5, <2>2, MoveWithinTabKeeps
  <2>3. ASSUME NEW u \in Live, MoveTabToPane(u, t, target, side, new) PROVE LayoutsSound'
    BY <1>5, <2>3, MoveTabToPaneKeeps
  <2>4. ASSUME NEW u \in Live, NEW p \in PanesIn(u), MoveBetweenTabs(u, p, t, target, side, new) PROVE LayoutsSound'
    BY <1>5, <2>4, MoveBetweenTabsKeeps
  <2> QED BY <1>5, <2>1, <2>2, <2>3, <2>4
<1>6. CASE Next
  BY <1>1, <1>2, <1>3, <1>4, <1>5, <1>6, Zenon DEF Next
<1>7. CASE UNCHANGED tabs
  <2>1. tabs' = tabs
    BY <1>7
  <2> QED BY <2>1 DEF LayoutsSound
<1> QED BY <1>6, <1>7

\* There are no layouts at first.
LEMMA InitKeepsLayouts ==
  ASSUME Init
  PROVE  LayoutsSound
BY DEF Init, LayoutsSound, Fine, Distant

\* In a tab that is sound, whatever is closed, joined or split fits.
LEMMA SoundFits ==
  ASSUME LayoutsSound
  PROVE  TransformsFit
<1>1. ASSUME NEW t \in Live, NEW p \in PanesIn(t)
      PROVE  /\ Leaves(t, p)
             /\ Left(t, p) # None => PanesOf(Left(t, p)) = PanesIn(t) \ {p}
  BY LeftIs
<1>2. ASSUME NEW t \in Live, NEW target \in PanesIn(t), NEW side \in Sides, NEW new \in SplitIds,
             NextSplit(new), CheckSplit(tabs[t], target, side), NEW u \in Live \ {t}
      PROVE  LET joined == WithInserted(tabs[t], target, side, tabs[u], new)
             IN Valid(joined) /\ PanesOf(joined) = PanesIn(t) \cup PanesIn(u)
  <2> DEFINE l == tabs[t] ins == tabs[u] m == WithInserted(l, target, side, ins, new)
  <2>1. /\ u \in Live /\ Sound(l) /\ Sound(ins) /\ PanesIn(t) = PanesOf(l) /\ PanesIn(u) = PanesOf(ins)
        /\ new \in SplitIds \ Splits(l) /\ new \notin Splits(ins) /\ Apart(l, ins)
    BY <1>2, LiveIs, NextSplitIs, LiveApart
  <2> HIDE DEF l, ins
  <2>2. Inserts(l, ins, new, m)
    BY <1>2, <2>1, InsertionIsSound DEF l
  <2> HIDE DEF m
  <2>3. Valid(m) /\ PanesOf(m) = PanesIn(t) \cup PanesIn(u)
    BY <2>1, <2>2, SoundIsValid DEF Inserts
  <2> QED BY <2>3 DEF m, l, ins
<1>3. ASSUME NEW t \in Live, NEW target \in PanesIn(t), NEW side \in Sides, NEW new \in SplitIds,
             NextSplit(new), CheckSplit(tabs[t], target, side)
      PROVE  LET split == WithInserted(tabs[t], target, side, Alone(None), new)
                 back == WithoutPane(split, None)
             IN /\ Valid(split) /\ PanesOf(split) = PanesIn(t) \cup {None}
                /\ SameShape(back, tabs[t])
                /\ ~side.leading => back = tabs[t]
  <2> DEFINE l == tabs[t] ins == Alone(None) m == WithInserted(l, target, side, ins, new)
  <2>1. Sound(l) /\ PanesIn(t) = PanesOf(l) /\ new \in SplitIds \ Splits(l) /\ None \notin Nodes(l)
    BY <1>3, LiveIs, NextSplitIs
  <2>2. Sound(ins) /\ Splits(ins) = {} /\ Nodes(ins) = {None} /\ PanesOf(ins) = {None}
    BY AloneIs
  <2>3. Returns(l, side, m)
    <3>1. m = WithNone(l, target, side, new)
      BY DEF WithNone
    <3> HIDE DEF l, m
    <3> QED BY <1>3, <2>1, <3>1, SplitBack DEF l
  <2> HIDE DEF l, ins
  <2>4. Inserts(l, ins, new, m)
    <3>1. Apart(l, ins) /\ new \notin Splits(ins)
      BY <2>1, <2>2 DEF Apart
    <3> QED BY <1>3, <2>1, <2>2, <3>1, InsertionIsSound DEF l
  <2> HIDE DEF m
  <2>5. Valid(m) /\ PanesOf(m) = PanesIn(t) \cup {None}
    BY <2>1, <2>2, <2>4, SoundIsValid DEF Inserts
  <2> QED BY <2>3, <2>5 DEF m, l, ins, Returns
<1> QED BY <1>1, <1>2, <1>3 DEF TransformsFit

\* In every state, each tab's layout is a tree: every pane is reached from the root
\* once; every split has from two to as many children as it may and weights of at least
\* one that sum to the total; none could be one with the split that holds it. No two
\* tabs share a pane or a split (PaneLayout::new, mux/moves.rs).
THEOREM LayoutsStaySound == Spec => []LayoutsSound
<1>1. Init => LayoutsSound
  BY InitKeepsLayouts
<1>2. LayoutsSound /\ [Next]_tabs => LayoutsSound'
  BY StepKeepsLayouts
<1> QED BY <1>1, <1>2, PTL DEF Spec

\* The property TransformsFit, for every number of panes, splits and tabs, every total
\* and limit: what a check allows fits, every pane can be closed, and closing what a
\* split added gives back the shape (pane_layout.rs: check_split, with_inserted,
\* without_pane).
THEOREM TransformsAlwaysFit == Spec => []TransformsFit
<1>1. LayoutsSound => TransformsFit
  BY SoundFits
<1> QED BY <1>1, LayoutsStaySound, PTL

-----------------------------------------------------------------------------
(* Spans and their parts.                                                     *)

Spans == {span \in [start : Nat, end : Nat] : span.start <= span.end}

\* A share of a whole, rounded down, grows with what is shared.
LEMMA ShareGrows ==
  ASSUME NEW x \in Nat, NEW y \in Nat, x <= y
  PROVE  x \div SplitTotal \in Nat /\ y \div SplitTotal \in Nat /\ x \div SplitTotal <= y \div SplitTotal
<1>1. SplitTotal \in Nat /\ SplitTotal >= 1
  BY TotalIs
<1> DEFINE T == SplitTotal a == x \div T b == y \div T
<1>2. a \in Nat /\ T * a <= x /\ x < T * (a + 1)
  BY <1>1
<1>3. b \in Nat /\ T * b <= y /\ y < T * (b + 1)
  BY <1>1
<1>4. a <= b
  <2> HIDE DEF a, b, T
  <2>1. SUFFICES ASSUME a >= b + 1 PROVE FALSE
    BY <1>2, <1>3
  <2>2. T \in Nat
    BY <1>1 DEF T
  <2>3. T * a >= T * (b + 1)
    BY <1>2, <1>3, <2>1, <2>2
  <2>4. T * a \in Nat /\ T * (b + 1) \in Nat
    BY <1>2, <1>3, <2>2
  <2> QED BY <1>2, <1>3, <2>3, <2>4
<1> QED BY <1>2, <1>3, <1>4

\* All of a whole is the whole.
LEMMA WholeShare ==
  ASSUME NEW e \in Nat
  PROVE  (e * SplitTotal) \div SplitTotal = e /\ (e * 0) \div SplitTotal = 0
<1>1. SplitTotal \in Nat /\ SplitTotal >= 1
  BY TotalIs
<1> DEFINE T == SplitTotal x == e * T a == x \div T
<1>2. x \in Nat
  BY <1>1
<1>3. a \in Nat /\ T * a <= x /\ x < T * (a + 1)
  <2> HIDE DEF x
  <2> QED BY <1>1, <1>2
<1>4. a = e
  <2> HIDE DEF a
  <2>1. CASE a >= e + 1
    <3>1. T * a >= T * (e + 1)
      BY <1>1, <1>3, <2>1
    <3>2. T * (e + 1) = x + T
      BY <1>1
    <3>3. T * a \in Nat
      BY <1>1, <1>3
    <3> HIDE DEF x
    <3> QED BY <1>1, <1>2, <1>3, <3>1, <3>2, <3>3
  <2>2. CASE e >= a + 1
    <3>1. T * e >= T * (a + 1)
      BY <1>1, <1>3, <2>2
    <3>2. T * e = x
      BY <1>1
    <3>3. T * (a + 1) \in Nat
      BY <1>1, <1>3
    <3> HIDE DEF x
    <3> QED BY <1>1, <1>2, <1>3, <3>1, <3>2, <3>3
  <2> QED BY <1>3, <2>1, <2>2
<1>5. 0 \div SplitTotal = 0
  BY <1>1
<1>6. e * 0 = 0
  OBVIOUS
<1> QED BY <1>4, <1>5, <1>6

\* The edges between the children of a full split go from the start of its span to the
\* end, and never back.
LEMMA EdgesAre ==
  ASSUME NEW span \in Spans, NEW A \in Seq(Kid), Full(A)
  PROVE  /\ \A i \in 0..Len(A) : Edge(span, A, i) \in Nat
         /\ Edge(span, A, 0) = span.start /\ Edge(span, A, Len(A)) = span.end
         /\ \A i \in 1..Len(A) : Edge(span, A, i - 1) <= Edge(span, A, i)
<1> DEFINE f == PrefixSums(A) n == Len(A) e == span.end - span.start
           g(i) == (e * f[i]) \div SplitTotal
<1>1. n \in Nat /\ e \in Nat /\ span.start \in Nat /\ span.end \in Nat /\ span.start + e = span.end
  BY KidsOf DEF Spans
<1>2. f[0] = 0 /\ (\A i \in 1..n : f[i] = f[i - 1] + A[i].weight) /\ \A i \in 0..n : f[i] \in Nat
  BY PrefixSumsAre DEF Sums
<1>3. f[n] = SplitTotal
  BY DEF Full, SumOf
<1>4. \A i \in 1..n : A[i].weight \in Nat
  BY KidsOf
<1>5. \A i : Edge(span, A, i) = span.start + g(i)
  BY DEF Edge
<1> HIDE DEF f, n, e
<1>6. ASSUME NEW i \in 0..n PROVE g(i) \in Nat
  <2>1. e * f[i] \in Nat
    BY <1>1, <1>2
  <2> HIDE DEF f
  <2> QED BY <2>1, ShareGrows
<1>7. ASSUME NEW i \in 1..n PROVE g(i - 1) <= g(i)
  <2>1. f[i - 1] \in Nat /\ f[i] \in Nat /\ f[i - 1] <= f[i]
    <3>1. i \in 0..n /\ i - 1 \in 0..n
      BY <1>1
    <3> QED BY <1>2, <1>4, <3>1
  <2>2. e * f[i - 1] \in Nat /\ e * f[i] \in Nat /\ e * f[i - 1] <= e * f[i]
    <3> DEFINE x == f[i - 1] y == f[i]
    <3>1. x \in Nat /\ y \in Nat /\ x <= y
      BY <2>1
    <3> HIDE DEF x, y
    <3>2. e * x \in Nat /\ e * y \in Nat /\ e * x <= e * y
      BY <1>1, <3>1
    <3> QED BY <3>2 DEF x, y
  <2> QED BY <2>2, ShareGrows
<1>8. g(0) = 0 /\ g(n) = e
  <2>1. g(0) = (e * 0) \div SplitTotal /\ g(n) = (e * SplitTotal) \div SplitTotal
    BY <1>2, <1>3
  <2> QED BY <1>1, <2>1, WholeShare
<1> HIDE DEF g
<1>9. \A i \in 1..n : i \in 0..n /\ i - 1 \in 0..n
  BY <1>1
<1>10. ASSUME NEW i \in 0..n PROVE Edge(span, A, i) \in Nat
  <2>1. g(i) \in Nat /\ Edge(span, A, i) = span.start + g(i)
    BY <1>5, <1>6
  <2> QED BY <1>1, <2>1
<1>11. ASSUME NEW i \in 1..n PROVE Edge(span, A, i - 1) <= Edge(span, A, i)
  <2>1. g(i - 1) \in Nat /\ g(i) \in Nat /\ g(i - 1) <= g(i)
    BY <1>6, <1>7, <1>9
  <2>2. Edge(span, A, i - 1) = span.start + g(i - 1) /\ Edge(span, A, i) = span.start + g(i)
    BY <1>5
  <2> QED BY <1>1, <2>1, <2>2
<1>12. Edge(span, A, 0) = span.start /\ Edge(span, A, n) = span.end
  <2>1. Edge(span, A, 0) = span.start + g(0) /\ Edge(span, A, n) = span.start + g(n)
    BY <1>5
  <2> QED BY <1>1, <1>8, <2>1
<1> QED BY <1>10, <1>11, <1>12 DEF n

\* What never falls from one to the next does not fall at all.
LEMMA Rising ==
  ASSUME NEW n \in Nat, NEW f, \A i \in 0..n : f[i] \in Nat, \A i \in 1..n : f[i - 1] <= f[i],
         NEW i \in 0..n, NEW j \in 0..n, i <= j
  PROVE  f[i] <= f[j]
<1> DEFINE Bad == {k \in 0..n : i <= k /\ ~(f[i] <= f[k])}
<1> SUFFICES ASSUME Bad # {} PROVE FALSE
  OBVIOUS
<1>1. PICK m \in Bad : \A k \in Bad : m <= k
  <2>1. Bad \subseteq Nat
    OBVIOUS
  <2> HIDE DEF Bad
  <2> QED BY <2>1, LeastOf
<1>2. m # i /\ m \in 1..n /\ m - 1 \in 0..n /\ i <= m - 1
  BY <1>1
<1>3. m - 1 \notin Bad
  <2> HIDE DEF Bad
  <2> QED BY <1>1, <1>2
<1>4. f[i] <= f[m - 1] /\ f[m - 1] <= f[m] /\ f[i] \in Nat /\ f[m - 1] \in Nat /\ f[m] \in Nat
  BY <1>2, <1>3
<1> QED BY <1>1, <1>4

\* What begins at or under a number and ends above it passes it in one place.
LEMMA Passes ==
  ASSUME NEW n \in Nat, NEW f, \A i \in 0..n : f[i] \in Nat, NEW x \in Nat, f[0] <= x, x < f[n]
  PROVE  \E i \in 1..n : f[i - 1] <= x /\ x < f[i]
<1> DEFINE Above == {i \in 0..n : x < f[i]}
<1>1. PICK m \in Above : \A k \in Above : m <= k
  <2>1. Above \subseteq Nat /\ n \in Above
    OBVIOUS
  <2> HIDE DEF Above
  <2> QED BY <2>1, LeastOf
<1>2. m # 0 /\ m \in 1..n /\ m - 1 \in 0..n
  BY <1>1
<1>3. m - 1 \notin Above
  <2> HIDE DEF Above
  <2> QED BY <1>1, <1>2
<1> QED BY <1>1, <1>2, <1>3

Within(x, span) == span.start <= x /\ x < span.end

\* The parts of a span are in it, cover it and do not overlap.
LEMMA PartsAre ==
  ASSUME NEW span \in Spans, NEW A \in Seq(Kid), Full(A)
  PROVE  /\ \A i \in 1..Len(A) : Part(span, A, i) \in Spans
         /\ \A i \in 1..Len(A) : \A x \in Nat : Within(x, Part(span, A, i)) => Within(x, span)
         /\ \A x \in Nat : Within(x, span) => \E i \in 1..Len(A) : Within(x, Part(span, A, i))
         /\ \A x \in Nat : \A i, j \in 1..Len(A) :
               Within(x, Part(span, A, i)) /\ Within(x, Part(span, A, j)) => i = j
<1> DEFINE n == Len(A) f == [i \in 0..n |-> Edge(span, A, i)]
<1>1. n \in Nat /\ span.start \in Nat /\ span.end \in Nat
  BY KidsOf DEF Spans
<1>2. /\ \A i \in 0..n : f[i] \in Nat
      /\ f[0] = span.start /\ f[n] = span.end
      /\ \A i \in 1..n : f[i - 1] <= f[i]
  <2>1. \A i \in 0..n : f[i] = Edge(span, A, i)
    OBVIOUS
  <2>2. 0 \in 0..n /\ n \in 0..n /\ \A i \in 1..n : i \in 0..n /\ i - 1 \in 0..n
    BY <1>1
  <2> HIDE DEF f
  <2>3. ASSUME NEW i \in 1..n PROVE f[i - 1] <= f[i]
    BY <2>1, <2>2, EdgesAre
  <2> QED BY <2>1, <2>2, <2>3, EdgesAre
<1>3. ASSUME NEW i \in 1..n
      PROVE  Part(span, A, i).start = f[i - 1] /\ Part(span, A, i).end = f[i] /\ i \in 0..n /\ i - 1 \in 0..n
             /\ Part(span, A, i) = [start |-> f[i - 1], end |-> f[i]]
  <2>1. i \in 0..n /\ i - 1 \in 0..n
    BY <1>1
  <2> QED BY <2>1 DEF Part
<1> HIDE DEF f, n
<1>4. ASSUME NEW i \in 0..n, NEW j \in 0..n, i <= j PROVE f[i] <= f[j]
  BY <1>1, <1>2, <1>4, Rising
<1>5. ASSUME NEW i \in 1..n PROVE Part(span, A, i) \in Spans
  BY <1>2, <1>3 DEF Spans
<1>6. ASSUME NEW i \in 1..n, NEW x \in Nat, Within(x, Part(span, A, i)) PROVE Within(x, span)
  <2>1. f[i - 1] <= x /\ x < f[i] /\ f[i - 1] \in Nat /\ f[i] \in Nat
    BY <1>2, <1>3, <1>6 DEF Within
  <2>2. f[0] <= f[i - 1] /\ f[i] <= f[n]
    <3>1. 0 \in 0..n /\ n \in 0..n /\ i \in 0..n /\ i - 1 \in 0..n /\ 0 <= i - 1 /\ i <= n
      BY <1>1
    <3> QED BY <1>4, <3>1
  <2> QED BY <1>1, <1>2, <2>1, <2>2 DEF Within
<1>7. ASSUME NEW x \in Nat, Within(x, span) PROVE \E i \in 1..n : Within(x, Part(span, A, i))
  <2>1. f[0] <= x /\ x < f[n]
    BY <1>2, <1>7 DEF Within
  <2>2. PICK i \in 1..n : f[i - 1] <= x /\ x < f[i]
    BY <1>1, <1>2, <2>1, Passes
  <2> QED BY <1>3, <2>2 DEF Within
<1>8. ASSUME NEW x \in Nat, NEW i \in 1..n, NEW j \in 1..n, i < j,
             Within(x, Part(span, A, i)), Within(x, Part(span, A, j))
      PROVE  FALSE
  <2>1. x < f[i] /\ f[j - 1] <= x
    BY <1>3, <1>8 DEF Within
  <2>2. i \in 0..n /\ j - 1 \in 0..n /\ i <= j - 1
    BY <1>1, <1>8
  <2>3. f[i] <= f[j - 1] /\ f[i] \in Nat /\ f[j - 1] \in Nat
    BY <1>2, <1>4, <2>2
  <2> QED BY <2>1, <2>3
<1>9. ASSUME NEW x \in Nat, NEW i \in 1..n, NEW j \in 1..n,
             Within(x, Part(span, A, i)), Within(x, Part(span, A, j))
      PROVE  i = j
  <2>1. ~(i < j) /\ ~(j < i)
    BY <1>8, <1>9
  <2> QED BY <1>1, <2>1
<1> QED BY <1>5, <1>6, <1>7, <1>9 DEF n

-----------------------------------------------------------------------------
(* Values handed down a tree: they are defined.                               *)

\* Values of the splits in D, each made from that of the split that holds it.
Handed(l, a, g, D, f) ==
    /\ l.root \in D /\ f[l.root] = a
    /\ \A x \in D : x # l.root => HolderOf(l, x) \in D /\ f[x] = g[x][f[HolderOf(l, x)]]

\* More splits have values, as long as one is left.
LEMMA HandsOn ==
  ASSUME NEW l, Tree(l), NEW U, NEW a \in U, NEW g \in [Nodes(l) -> [U -> U]],
         NEW D \in SUBSET Splits(l), D # Splits(l), NEW f \in [D -> U], Handed(l, a, g, D, f)
  PROVE  \E s \in Splits(l) \ D : \E h \in [D \cup {s} -> U] : Handed(l, a, g, D \cup {s}, h)
<1> DEFINE S == Splits(l) C == S \ D
<1>1. Frame(l.root, S, KidsOn(l)) /\ Typed(l)
  BY DEF Tree
<1>2. PICK s \in C : \A t \in C : s \notin KidsOn(l)[t]
  <2>1. C \in SUBSET S /\ C # {}
    OBVIOUS
  <2> HIDE DEF C, S
  <2> QED BY <1>1, <2>1 DEF Frame, Grounded
<1>3. s # l.root /\ s \in Nodes(l) /\ s \in S
  BY TreeNodes DEF Handed
<1> DEFINE k == HolderOf(l, s)
<1>4. k \in D
  <2> DEFINE i == Place(l, k, s)
  <2>1. k \in S /\ i \in 1..Len(Children(l, k)) /\ Children(l, k)[i].node = s
    BY <1>3, Holder
  <2> HIDE DEF k, i
  <2>2. s \in NodesOf(Children(l, k))
    BY <2>1 DEF NodesOf
  <2>3. s \in KidsOn(l)[k]
    BY <1>1, <2>1, <2>2, SplitIs
  <2> QED BY <1>2, <2>1, <2>3
<1> HIDE DEF k
<1> DEFINE v == g[s][f[k]]
           h == [x \in D \cup {s} |-> IF x = s THEN v ELSE f[x]]
<1>5. v \in U
  BY <1>3, <1>4
<1>6. h \in [D \cup {s} -> U] /\ h[s] = v /\ \A x \in D : h[x] = f[x]
  <2>1. \A x \in D : x # s
    BY <1>2
  <2> HIDE DEF v
  <2> QED BY <1>5, <2>1
<1> HIDE DEF h
<1>7. Handed(l, a, g, D \cup {s}, h)
  <2>1. l.root \in D \cup {s} /\ h[l.root] = a
    BY <1>6 DEF Handed
  <2>2. ASSUME NEW x \in D \cup {s}, x # l.root
        PROVE  HolderOf(l, x) \in D \cup {s} /\ h[x] = g[x][h[HolderOf(l, x)]]
    <3>1. CASE x = s
      BY <1>4, <1>6, <3>1 DEF k
    <3>2. CASE x \in D
      <4>1. HolderOf(l, x) \in D /\ f[x] = g[x][f[HolderOf(l, x)]]
        BY <2>2, <3>2 DEF Handed
      <4> QED BY <1>6, <3>2, <4>1
    <3> QED BY <3>1, <3>2
  <2> QED BY <2>1, <2>2 DEF Handed
<1> QED BY <1>2, <1>6, <1>7

\* So all splits have.
LEMMA AllHanded ==
  ASSUME NEW l, Tree(l), Splits(l) # {}, NEW U, NEW a \in U, NEW g \in [Nodes(l) -> [U -> U]]
  PROVE  \E f \in [Splits(l) -> U] : Handed(l, a, g, Splits(l), f)
<1> DEFINE S == Splits(l)
           Good(D) == \E f \in [D -> U] : Handed(l, a, g, D, f)
           Counts == {n \in Nat : \E D \in SUBSET S : Good(D) /\ n = Cardinality(S \ D)}
<1>1. IsFiniteSet(S)
  BY DEF Tree, Typed
<1>2. Counts # {}
  <2> DEFINE r == l.root f == [x \in {r} |-> a]
  <2>1. r \in S
    BY TreeNodes
  <2>2. f \in [{r} -> U] /\ Handed(l, a, g, {r}, f)
    BY DEF Handed
  <2>3. IsFiniteSet(S \ {r}) /\ Cardinality(S \ {r}) \in Nat
    BY <1>1, FS_RemoveElement, FS_CardinalityType
  <2>4. Good({r})
    BY <2>2
  <2> HIDE DEF Good, S
  <2> QED BY <2>1, <2>3, <2>4
<1>3. PICK n \in Counts : \A m \in Counts : n <= m
  <2>1. Counts \subseteq Nat
    OBVIOUS
  <2> HIDE DEF Counts
  <2> QED BY <1>2, <2>1, LeastOf
<1>4. PICK D \in SUBSET S : Good(D) /\ n = Cardinality(S \ D)
  <2> HIDE DEF Good
  <2> QED BY <1>3
<1>5. CASE D # S
  <2>1. PICK f \in [D -> U] : Handed(l, a, g, D, f)
    BY <1>4
  <2>2. PICK s \in S \ D : \E h \in [D \cup {s} -> U] : Handed(l, a, g, D \cup {s}, h)
    BY <1>5, <2>1, HandsOn
  <2> DEFINE E == D \cup {s}
  <2>3. Good(E) /\ E \in SUBSET S
    BY <2>2
  <2>4. S \ E = (S \ D) \ {s} /\ s \in S \ D
    BY <2>2
  <2>5. IsFiniteSet(S \ D)
    BY <1>1, FS_Subset
  <2>6. Cardinality(S \ E) = n - 1 /\ Cardinality(S \ E) \in Nat
    <3>1. IsFiniteSet((S \ D) \ {s}) /\ Cardinality((S \ D) \ {s}) = Cardinality(S \ D) - 1
      BY <2>4, <2>5, FS_RemoveElement
    <3>2. Cardinality((S \ D) \ {s}) \in Nat
      BY <3>1, FS_CardinalityType
    <3> HIDE DEF S, E
    <3> QED BY <1>4, <2>4, <3>1, <3>2
  <2> HIDE DEF Good, S, E
  <2>7. Cardinality(S \ E) \in Counts
    BY <2>3, <2>6
  <2>8. n <= Cardinality(S \ E)
    BY <1>3, <2>7
  <2>9. n \in Nat
    BY <1>3 DEF Counts
  <2> QED BY <2>6, <2>8, <2>9
<1>6. CASE D = S
  BY <1>4, <1>6
<1> QED BY <1>5, <1>6

\* And so do all nodes.
LEMMA Descends ==
  ASSUME NEW l, Tree(l), NEW U, NEW a \in U, NEW g \in [Nodes(l) -> [U -> U]]
  PROVE  \E f \in [Nodes(l) -> U] :
            f[l.root] = a /\ \A x \in Nodes(l) : x # l.root => f[x] = g[x][f[HolderOf(l, x)]]
<1>1. CASE Splits(l) = {}
  <2>1. Nodes(l) = {l.root}
    <3>1. ChildrenOf(l) = {}
      BY <1>1 DEF ChildrenOf
    <3> QED BY <3>1 DEF Nodes
  <2> DEFINE f == [x \in Nodes(l) |-> a]
  <2>2. f \in [Nodes(l) -> U] /\ f[l.root] = a
    BY <2>1
  <2> HIDE DEF f
  <2> QED BY <2>1, <2>2
<1>2. CASE Splits(l) # {}
  <2>1. PICK f \in [Splits(l) -> U] : Handed(l, a, g, Splits(l), f)
    BY <1>2, AllHanded
  <2> DEFINE new(x) == g[x][f[HolderOf(l, x)]]
             h == [x \in Nodes(l) |-> IF x \in Splits(l) THEN f[x] ELSE new(x)]
  <2>2. l.root \in Splits(l) /\ Splits(l) \subseteq Nodes(l)
    BY <1>2, TreeNodes
  <2>3. ASSUME NEW x \in Nodes(l), x # l.root PROVE HolderOf(l, x) \in Splits(l) /\ HolderOf(l, x) \in Nodes(l)
    BY <2>2, <2>3, Holder
  <2>4. ASSUME NEW x \in Nodes(l), x # l.root PROVE new(x) \in U
    BY <2>3, <2>4
  <2>5. h[l.root] = a
    BY <2>1, <2>2 DEF Handed
  <2>6. ASSUME NEW x \in Nodes(l), x # l.root PROVE h[x] = new(x) /\ h[HolderOf(l, x)] = f[HolderOf(l, x)]
    <3>1. x \in Splits(l) => f[x] = new(x)
      BY <2>1, <2>6 DEF Handed
    <3> HIDE DEF new
    <3> QED BY <2>3, <2>6, <3>1
  <2>7. h \in [Nodes(l) -> U]
    <3> HIDE DEF new
    <3>1. \A x \in Nodes(l) : x \in Splits(l) \/ new(x) \in U
      BY <2>2, <2>4
    <3> QED BY <3>1
  <2> HIDE DEF h
  <2> QED BY <2>5, <2>6, <2>7
<1> QED BY <1>1, <1>2

-----------------------------------------------------------------------------
(* Rectangles.                                                                *)

Rectangles == [Axes -> Spans]

\* The part of a split's rectangle that its i-th child has.
PartOf(rect, l, s, i) == [rect EXCEPT ![l.splits[s].axis] = Part(@, Children(l, s), i)]

\* Every node has a rectangle, the root the whole and the others the part of their holder's.
LEMMA RectsAre ==
  ASSUME NEW l, Sound(l)
  PROVE  LET R == RectOf(l)
         IN /\ R \in [Nodes(l) -> Rectangles] /\ R[l.root] = Whole
            /\ \A s \in Splits(l) : \A i \in 1..Len(Children(l, s)) :
                  R[Children(l, s)[i].node] = PartOf(R[s], l, s, i)
<1> DEFINE N == Nodes(l)
           Done(f) == f = [x \in N |-> IF x = l.root THEN Whole
                             ELSE LET s == HolderOf(l, x)
                                  IN [f[s] EXCEPT ![l.splits[s].axis] = Part(@, Children(l, s), Place(l, s, x))]]
           R == CHOOSE f : Done(f)
           part(x, u) == PartOf(u, l, HolderOf(l, x), Place(l, HolderOf(l, x), x))
           next(x, u) == IF x = l.root THEN u ELSE part(x, u)
           g == [x \in N |-> [u \in Rectangles |-> next(x, u)]]
<1>1. Tree(l) /\ \A s \in Splits(l) : Full(Children(l, s))
  BY DEF Sound
<1>2. RectOf(l) = R
  BY Zenon DEF RectOf
<1>3. Whole \in Rectangles
  BY ExtentAssumption DEF Whole, Rectangles, Spans
<1>4. ASSUME NEW s \in Splits(l), NEW i \in 1..Len(Children(l, s)), NEW u \in Rectangles
      PROVE  PartOf(u, l, s, i) \in Rectangles
  <2>1. l.splits[s].axis \in Axes /\ Children(l, s) \in Seq(Kid)
    BY <1>1, SplitIs DEF Tree
  <2>2. u[l.splits[s].axis] \in Spans
    BY <2>1 DEF Rectangles
  <2>3. Part(u[l.splits[s].axis], Children(l, s), i) \in Spans
    BY <1>1, <2>1, <2>2, PartsAre
  <2> QED BY <2>1, <2>3 DEF PartOf, Rectangles
<1>5. ASSUME NEW x \in N, NEW u \in Rectangles PROVE next(x, u) \in Rectangles
  <2>1. x # l.root => HolderOf(l, x) \in Splits(l) /\ Place(l, HolderOf(l, x), x) \in 1..Len(Children(l, HolderOf(l, x)))
    BY <1>1, Holder
  <2> QED BY <1>4, <2>1
<1>6. g \in [N -> [Rectangles -> Rectangles]] /\ \A x \in N : \A u \in Rectangles : g[x][u] = next(x, u)
  <2> HIDE DEF next
  <2> QED BY <1>5
<1> HIDE DEF g
<1>7. PICK d \in [N -> Rectangles] : d[l.root] = Whole /\ \A x \in N : x # l.root => d[x] = g[x][d[HolderOf(l, x)]]
  BY <1>1, <1>3, <1>6, Descends
<1>8. \A x \in N : x # l.root => HolderOf(l, x) \in N /\ HolderOf(l, x) \in Splits(l)
  BY <1>1, TreeNodes, Holder
<1>9. \A x \in N : x # l.root => d[x] = part(x, d[HolderOf(l, x)])
  <2> SUFFICES ASSUME NEW x \in N, x # l.root PROVE d[x] = part(x, d[HolderOf(l, x)])
    OBVIOUS
  <2>1. d[HolderOf(l, x)] \in Rectangles
    BY <1>8
  <2>2. g[x][d[HolderOf(l, x)]] = next(x, d[HolderOf(l, x)])
    BY <1>6, <2>1
  <2> HIDE DEF part
  <2> QED BY <1>7, <2>2
<1>10. Done(d)
  <2>1. \A x \in N : d[x] = IF x = l.root THEN Whole ELSE part(x, d[HolderOf(l, x)])
    <3> HIDE DEF part
    <3> QED BY <1>7, <1>9
  <2>2. d = [x \in N |-> d[x]]
    OBVIOUS
  <2>3. \A x \in N : d[x] = IF x = l.root THEN Whole
                             ELSE LET s == HolderOf(l, x)
                                  IN [d[s] EXCEPT ![l.splits[s].axis] = Part(@, Children(l, s), Place(l, s, x))]
    BY <2>1, Zenon DEF PartOf
  <2> HIDE DEF N
  <2> QED BY <2>2, <2>3
<1>11. Done(R)
  <2> HIDE DEF Done
  <2> QED BY <1>10
<1> HIDE DEF R
<1>12. DOMAIN R = N /\ \A x \in N : R[x] = IF x = l.root THEN Whole ELSE part(x, R[HolderOf(l, x)])
  <2>1. \A x \in N : R[x] = IF x = l.root THEN Whole
                             ELSE LET s == HolderOf(l, x)
                                  IN [R[s] EXCEPT ![l.splits[s].axis] = Part(@, Children(l, s), Place(l, s, x))]
    <3> HIDE DEF N
    <3> QED BY <1>11
  <2>2. DOMAIN R = N
    BY <1>11
  <2> QED BY <2>1, <2>2, Zenon DEF PartOf
<1>13. R = [x \in N |-> R[x]]
  <2> HIDE DEF N
  <2> QED BY <1>11
<1> HIDE DEF next
<1>14. ASSUME NEW x \in N, x # l.root, R[HolderOf(l, x)] \in Rectangles PROVE R[x] \in Rectangles
  <2>1. HolderOf(l, x) \in Splits(l) /\ Place(l, HolderOf(l, x), x) \in 1..Len(Children(l, HolderOf(l, x)))
    BY <1>1, <1>14, Holder
  <2> QED BY <1>4, <1>12, <1>14, <2>1
<1> DEFINE Bad == {s \in Splits(l) : R[s] \notin Rectangles}
<1>15. Bad = {}
  <2> SUFFICES ASSUME Bad # {} PROVE FALSE
    OBVIOUS
  <2>1. PICK s \in Bad : \A t \in Bad : s \notin KidsOn(l)[t]
    <3>1. Bad \in SUBSET Splits(l)
      OBVIOUS
    <3> HIDE DEF Bad
    <3> QED BY <1>1, <3>1 DEF Tree, Frame, Grounded
  <2>2. s \in N /\ s # l.root
    BY <1>1, <1>3, <1>12, TreeNodes
  <2> DEFINE k == HolderOf(l, s) i == Place(l, k, s)
  <2>3. k \in Splits(l) /\ i \in 1..Len(Children(l, k)) /\ Children(l, k)[i].node = s
    BY <1>1, <2>2, Holder
  <2>4. s \in KidsOn(l)[k]
    <3> HIDE DEF k, i
    <3>1. s \in NodesOf(Children(l, k))
      BY <2>3 DEF NodesOf
    <3> QED BY <1>1, <2>3, <3>1, SplitIs DEF Tree
  <2>5. k \notin Bad
    BY <2>1, <2>4
  <2> QED BY <1>14, <2>1, <2>2, <2>3, <2>5
<1>16. ASSUME NEW x \in N PROVE R[x] \in Rectangles
  <2>1. x # l.root => HolderOf(l, x) \in Splits(l)
    BY <1>8
  <2> HIDE DEF part
  <2> QED BY <1>3, <1>12, <1>14, <1>15, <2>1
<1>17. ASSUME NEW s \in Splits(l), NEW i \in 1..Len(Children(l, s))
      PROVE  R[Children(l, s)[i].node] = PartOf(R[s], l, s, i)
  <2> DEFINE x == Children(l, s)[i].node
  <2>1. HolderOf(l, x) = s /\ Place(l, s, x) = i /\ x # l.root /\ x \in N
    BY <1>1, Held
  <2> HIDE DEF x
  <2>2. R[x] = PartOf(R[s], l, s, i)
    BY <1>12, <2>1
  <2> QED BY <2>2 DEF x
<1>18. R \in [N -> Rectangles]
  <2> HIDE DEF N
  <2> QED BY <1>13, <1>16
<1>19. l.root \in N
  BY DEF Nodes
<1>20. R[l.root] = Whole
  BY <1>12, <1>19
<1> QED BY <1>2, <1>17, <1>18, <1>20

\* Of some splits of a tree there is one that holds none of them.
LEMMA Lowest ==
  ASSUME NEW l, Tree(l), NEW C \in SUBSET Splits(l), C # {}
  PROVE  \E s \in C : \A x \in C : x \notin KidsOn(l)[s]
<1> DEFINE K == KidsOn(l)
<1> SUFFICES ASSUME \A s \in C : \E x \in C : x \in K[s] PROVE FALSE
  OBVIOUS
<1>1. IsFiniteSet(C) /\ Frame(l.root, Splits(l), K)
  BY FS_Subset DEF Tree, Typed
<1> DEFINE below == [s \in C |-> CHOOSE x \in C : x \in K[s]]
<1>2. below \in [C -> C] /\ \A s \in C : below[s] \in C /\ below[s] \in K[s]
  <2> HIDE DEF K
  <2> QED OBVIOUS
<1> HIDE DEF below, K
<1>3. below \in Injection(C, C)
  <2>1. ASSUME NEW s \in C, NEW t \in C, below[s] = below[t] PROVE s = t
    BY <1>1, <1>2, <2>1 DEF Frame
  <2> QED BY <1>2, <2>1 DEF Injection, IsInjective
<1>4. \A t \in C : \E s \in C : below[s] = t
  <2>1. below \in Surjection(C, C)
    BY <1>1, <1>3, FS_Injection
  <2> QED BY <2>1 DEF Surjection
<1>5. PICK t \in C : \A s \in C : t \notin K[s]
  BY <1>1 DEF Frame, Grounded
<1> QED BY <1>2, <1>4, <1>5

-----------------------------------------------------------------------------
(* Points, and the rectangles that show them.                                 *)

Points == [Axes -> Nat]
Shows(rect, q) == \A axis \in Axes : Within(q[axis], rect[axis])

\* A split shows what its children show, each point in one of them.
LEMMA KidShows ==
  ASSUME NEW l, Sound(l), NEW s \in Splits(l), NEW q \in Points
  PROVE  LET R == RectOf(l) A == Children(l, s)
             shown(i) == Shows(R[A[i].node], q)
         IN /\ R[s] \in Rectangles /\ l.splits[s].axis \in Axes
            /\ \A i \in 1..Len(A) : 
                  shown(i) <=> Shows(R[s], q) /\ Within(q[l.splits[s].axis], Part(R[s][l.splits[s].axis], A, i))
            /\ Shows(R[s], q) => \E i \in 1..Len(A) : shown(i)
            /\ \A i, j \in 1..Len(A) : shown(i) /\ shown(j) => i = j
<1> DEFINE R == RectOf(l) A == Children(l, s) a == l.splits[s].axis
           shown(i) == Shows(R[A[i].node], q)
<1>1. Tree(l) /\ Full(A)
  BY DEF Sound
<1>2. a \in Axes /\ A \in Seq(Kid) /\ s \in Nodes(l)
  BY <1>1, SplitIs, TreeNodes DEF Tree
<1>3. R[s] \in Rectangles /\ \A i \in 1..Len(A) : R[A[i].node] = PartOf(R[s], l, s, i)
  BY <1>2, RectsAre
<1>4. R[s][a] \in Spans /\ q[a] \in Nat
  BY <1>2, <1>3 DEF Rectangles, Points
<1>5. ASSUME NEW i \in 1..Len(A)
      PROVE  shown(i) <=> Shows(R[s], q) /\ Within(q[a], Part(R[s][a], A, i))
  <2> DEFINE part == Part(R[s][a], A, i)
  <2>1. R[A[i].node] = [R[s] EXCEPT ![a] = part]
    BY <1>3 DEF PartOf
  <2>2. Within(q[a], part) => Within(q[a], R[s][a])
    BY <1>1, <1>2, <1>4, PartsAre
  <2> HIDE DEF part, R, a
  <2>3. DOMAIN R[s] = Axes
    BY <1>3 DEF Rectangles
  <2>4. R[A[i].node][a] = part /\ \A x \in Axes : x # a => R[A[i].node][x] = R[s][x]
    BY <1>2, <2>1, <2>3
  <2>5. shown(i) <=> \A x \in Axes : Within(q[x], R[A[i].node][x])
    BY DEF Shows
  <2>6. Shows(R[s], q) <=> \A x \in Axes : Within(q[x], R[s][x])
    BY DEF Shows
  <2> HIDE DEF shown, A
  <2> QED BY <1>2, <2>2, <2>4, <2>5, <2>6 DEF part
<1>6. ASSUME Shows(R[s], q) PROVE \E i \in 1..Len(A) : shown(i)
  <2>1. Within(q[a], R[s][a])
    BY <1>2, <1>6 DEF Shows
  <2>2. PICK i \in 1..Len(A) : Within(q[a], Part(R[s][a], A, i))
    BY <1>1, <1>2, <1>4, <2>1, PartsAre
  <2> HIDE DEF shown
  <2> QED BY <1>5, <1>6, <2>2
<1>7. ASSUME NEW i \in 1..Len(A), NEW j \in 1..Len(A), shown(i), shown(j) PROVE i = j
  <2>1. Within(q[a], Part(R[s][a], A, i)) /\ Within(q[a], Part(R[s][a], A, j))
    BY <1>5, <1>7
  <2> QED BY <1>1, <1>2, <1>4, <2>1, PartsAre
<1> QED BY <1>2, <1>3, <1>5, <1>6, <1>7

\* A child of a split is a node of the layout, and one of those the split holds.
LEMMA KidIs ==
  ASSUME NEW l, Sound(l), NEW s \in Splits(l), NEW i \in 1..Len(Children(l, s))
  PROVE  Children(l, s)[i].node \in Nodes(l) /\ Children(l, s)[i].node \in KidsOn(l)[s]
<1>1. Tree(l)
  BY DEF Sound
<1>2. KidsOn(l)[s] = NodesOf(Children(l, s))
  BY <1>1, SplitIs DEF Tree
<1> QED BY <1>1, <1>2, Held

\* The splits that show a point.
Showing(l, q) == {s \in Splits(l) : Shows(RectOf(l)[s], q)}

\* What holds a node shows the points of the node, and no other child of it does.
LEMMA HolderShows ==
  ASSUME NEW l, Sound(l), NEW q \in Points, NEW x \in Nodes(l), x # l.root, Shows(RectOf(l)[x], q)
  PROVE  /\ HolderOf(l, x) \in Showing(l, q)
         /\ \A y \in Nodes(l) : y # l.root /\ Shows(RectOf(l)[y], q) /\ HolderOf(l, y) = HolderOf(l, x) => x = y
<1> DEFINE s == HolderOf(l, x) A == Children(l, s) R == RectOf(l)
<1>1. Tree(l)
  BY DEF Sound
<1>2. s \in Splits(l) /\ Place(l, s, x) \in 1..Len(A) /\ A[Place(l, s, x)].node = x
  BY <1>1, Holder
<1>3. s \in Showing(l, q)
  BY <1>2, KidShows DEF Showing
<1>4. ASSUME NEW y \in Nodes(l), y # l.root, Shows(R[y], q), HolderOf(l, y) = s
      PROVE  x = y
  <2>1. Place(l, s, y) \in 1..Len(A) /\ A[Place(l, s, y)].node = y
    BY <1>1, <1>4, Holder
  <2> HIDE DEF s, A, R
  <2>2. \A i, j \in 1..Len(A) : Shows(R[A[i].node], q) /\ Shows(R[A[j].node], q) => i = j
    BY <1>2, KidShows DEF A, R
  <2>3. Shows(R[x], q)
    BY DEF R
  <2> QED BY <1>2, <1>4, <2>1, <2>2, <2>3
<1> QED BY <1>3, <1>4

\* A point some node shows is shown by the root.
LEMMA RootShows ==
  ASSUME NEW l, Sound(l), NEW q \in Points, NEW x \in Nodes(l), Shows(RectOf(l)[x], q)
  PROVE  /\ Shows(RectOf(l)[l.root], q)
         /\ x # l.root => l.root \in Showing(l, q)
<1> DEFINE C == Showing(l, q) K == KidsOn(l)
<1> SUFFICES ASSUME x # l.root PROVE l.root \in C
  BY DEF Showing
<1>1. Tree(l) /\ Frame(l.root, Splits(l), K)
  BY DEF Sound, Tree
<1>2. C # {} /\ C \in SUBSET Splits(l)
  BY HolderShows DEF Showing
<1>3. PICK s \in C : \A t \in C : s \notin K[t]
  BY <1>1, <1>2 DEF Frame, Grounded
<1>4. ASSUME s # l.root PROVE FALSE
  <2>1. s \in Nodes(l) /\ Shows(RectOf(l)[s], q)
    BY <1>1, TreeNodes DEF Showing
  <2> DEFINE t == HolderOf(l, s)
  <2>2. t \in C /\ t \in Splits(l)
    BY <1>4, <2>1, HolderShows DEF Showing
  <2>3. s \in NodesOf(Children(l, t))
    BY <1>1, <1>4, <2>1, Holder DEF NodesOf
  <2>4. K[t] = NodesOf(Children(l, t))
    BY <1>1, <2>2, SplitIs DEF Tree
  <2> QED BY <1>3, <2>2, <2>3, <2>4
<1> QED BY <1>3, <1>4

\* A point is shown by one pane at most.
LEMMA OnePane ==
  ASSUME NEW l, Sound(l), NEW q \in Points, NEW p \in PanesOf(l), NEW o \in PanesOf(l),
         Shows(RectOf(l)[p], q), Shows(RectOf(l)[o], q)
  PROVE  p = o
<1> DEFINE C == Showing(l, q) D == (C \ {l.root}) \cup {p} R == RectOf(l)
<1>1. Tree(l) /\ IsFiniteSet(C) /\ C \subseteq Splits(l) /\ p \notin C
  BY FS_Subset DEF Sound, Tree, Typed, Showing, PanesOf
<1>2. p \in Nodes(l) /\ o \in Nodes(l)
  BY DEF PanesOf
<1>3. ASSUME NEW x \in PanesOf(l), x = l.root PROVE PanesOf(l) = {x}
  <2>1. Splits(l) = {}
    BY <1>1, <1>3, TreeNodes DEF PanesOf
  <2>2. ChildrenOf(l) = {}
    BY <2>1 DEF ChildrenOf
  <2> QED BY <1>3, <2>1, <2>2 DEF PanesOf, Nodes
<1>4. CASE p = l.root \/ o = l.root
  BY <1>3, <1>4
<1>5. CASE p # l.root /\ o # l.root
  <2>1. l.root \in C
    BY <1>2, <1>5, RootShows
  <2>2. \A x \in D : x \in Nodes(l) /\ x # l.root /\ Shows(R[x], q)
    BY <1>1, <1>2, <1>5, TreeNodes DEF Showing
  <2> DEFINE up == [x \in D |-> HolderOf(l, x)]
  <2>3. up \in [D -> C] /\ \A x, y \in D : up[x] = up[y] => x = y
    <3>1. \A x \in D : HolderOf(l, x) \in C
      BY <2>2, HolderShows
    <3>2. \A x, y \in D : HolderOf(l, x) = HolderOf(l, y) => x = y
      BY <2>2, HolderShows
    <3> HIDE DEF D, C
    <3> QED BY <3>1, <3>2
  <2>4. up \in Injection(D, C)
    <3> HIDE DEF up, D, C
    <3> QED BY <2>3 DEF Injection, IsInjective
  <2>5. Cardinality(D) = Cardinality(C)
    <3>1. IsFiniteSet(C \ {l.root}) /\ Cardinality(C \ {l.root}) = Cardinality(C) - 1
      BY <1>1, <2>1, FS_RemoveElement
    <3>2. Cardinality(D) = Cardinality(C \ {l.root}) + 1
      BY <1>1, <3>1, FS_AddElement
    <3>3. Cardinality(C) \in Nat
      BY <1>1, FS_CardinalityType
    <3> QED BY <3>1, <3>2, <3>3
  <2>6. up \in Surjection(D, C)
    BY <1>1, <2>4, <2>5, FS_Injection
  <2>7. HolderOf(l, o) \in C
    BY <1>2, <1>5, HolderShows
  <2>8. PICK x \in D : up[x] = HolderOf(l, o)
    <3> HIDE DEF up, D, C
    <3> QED BY <2>6, <2>7 DEF Surjection
  <2>9. x = o
    BY <1>2, <1>5, <2>2, <2>8, HolderShows
  <2> QED BY <1>1, <2>9 DEF PanesOf
<1> QED BY <1>4, <1>5

\* A point of the whole is shown by a pane.
LEMMA SomePane ==
  ASSUME NEW l, Sound(l), NEW q \in Points, Shows(RectOf(l)[l.root], q)
  PROVE  \E p \in PanesOf(l) : Shows(RectOf(l)[p], q)
<1> DEFINE C == Showing(l, q) R == RectOf(l)
<1>1. Tree(l) /\ C \in SUBSET Splits(l)
  BY DEF Sound, Showing
<1>2. CASE C = {}
  <2>1. l.root \notin Splits(l)
    BY <1>2 DEF Showing
  <2> QED BY <2>1 DEF PanesOf, Nodes
<1>3. CASE C # {}
  <2>1. PICK s \in C : \A x \in C : x \notin KidsOn(l)[s]
    BY <1>1, <1>3, Lowest
  <2> DEFINE A == Children(l, s)
  <2>2. s \in Splits(l) /\ Shows(R[s], q)
    BY <2>1 DEF Showing
  <2>3. PICK i \in 1..Len(A) : Shows(R[A[i].node], q)
    BY <2>2, KidShows
  <2>4. A[i].node \in Nodes(l) /\ A[i].node \in KidsOn(l)[s]
    BY <2>2, KidIs
  <2>5. A[i].node \notin Splits(l)
    BY <2>1, <2>3, <2>4 DEF Showing
  <2> QED BY <2>3, <2>4, <2>5 DEF PanesOf
<1> QED BY <1>2, <1>3

\* A node that shows one point of a pane shows them all.
LEMMA PaneWithin ==
  ASSUME NEW l, Sound(l), NEW q \in Points, NEW p \in PanesOf(l), NEW n \in Nodes(l),
         Shows(RectOf(l)[p], q), Shows(RectOf(l)[n], q), NEW z \in Points, Shows(RectOf(l)[p], z)
  PROVE  Shows(RectOf(l)[n], z)
<1> DEFINE R == RectOf(l) Bad == {s \in Splits(l) : Shows(R[s], q) /\ ~Shows(R[s], z)}
<1>1. Tree(l) /\ Bad \in SUBSET Splits(l)
  BY DEF Sound
<1>2. Bad = {}
  <2> SUFFICES ASSUME Bad # {} PROVE FALSE
    OBVIOUS
  <2>1. PICK s \in Bad : \A x \in Bad : x \notin KidsOn(l)[s]
    <3> HIDE DEF Bad
    <3> QED BY <1>1, Lowest
  <2> DEFINE A == Children(l, s)
  <2>2. PICK i \in 1..Len(A) : Shows(R[A[i].node], q)
    BY <2>1, KidShows
  <2> DEFINE x == A[i].node
  <2>3. x \in Nodes(l) /\ x \in KidsOn(l)[s]
    BY KidIs
  <2>4. Shows(R[x], z)
    <3>1. CASE x \in Splits(l)
      <4>1. x \notin Bad
        BY <2>1, <2>3
      <4> QED BY <2>2, <3>1, <4>1
    <3>2. CASE x \notin Splits(l)
      <4>1. x \in PanesOf(l)
        BY <2>3, <3>2 DEF PanesOf
      <4> QED BY <2>2, <4>1, OnePane
    <3> QED BY <3>1, <3>2
  <2>5. Shows(R[s], z)
    BY <2>4, KidShows
  <2> QED BY <2>1, <2>5
<1>3. CASE n \in Splits(l)
  BY <1>2, <1>3
<1>4. CASE n \notin Splits(l)
  <2>1. n \in PanesOf(l)
    BY <1>4 DEF PanesOf
  <2> QED BY <2>1, OnePane
<1> QED BY <1>3, <1>4

\* There are two axes, and each is across the other.
LEMMA Crosses ==
  ASSUME NEW a \in Axes
  PROVE  LET b == CHOOSE axis \in Axes : axis # a
         IN b \in Axes /\ b # a /\ \A axis \in Axes : axis = a \/ axis = b
<1>1. \E axis \in Axes : axis # a
  BY DEF Axes
<1> QED BY <1>1 DEF Axes

\* Two spans overlap by no more than the first has, and do where both show a number.
LEMMA OverlapIs ==
  ASSUME NEW a \in Spans, NEW b \in Spans
  PROVE  /\ Overlap(a, b) \in Nat /\ Overlap(a, b) <= a.end - a.start
         /\ Overlap(a, b) > 0 <=> \E y \in Nat : Within(y, a) /\ Within(y, b)
<1> DEFINE first == IF a.end < b.end THEN a.end ELSE b.end
           last == IF a.start > b.start THEN a.start ELSE b.start
<1>1. /\ a.start \in Nat /\ a.end \in Nat /\ a.start <= a.end
      /\ b.start \in Nat /\ b.end \in Nat /\ b.start <= b.end
  BY DEF Spans
<1>2. Overlap(a, b) = IF first > last THEN first - last ELSE 0
  BY DEF Overlap
<1>3. first \in Nat /\ last \in Nat
  BY <1>1
<1>4. ASSUME NEW y \in Nat PROVE Within(y, a) /\ Within(y, b) <=> last <= y /\ y < first
  BY <1>1 DEF Within
<1>5. first > last => first - last <= a.end - a.start
  BY <1>1
<1> HIDE DEF first, last
<1>6. Overlap(a, b) \in Nat /\ Overlap(a, b) <= a.end - a.start
  BY <1>1, <1>2, <1>3, <1>5
<1>7. Overlap(a, b) > 0 <=> first > last
  BY <1>2, <1>3
<1>8. first > last => \E y \in Nat : last <= y /\ y < first
  <2> SUFFICES ASSUME first > last PROVE last <= last /\ last < first
    BY <1>3
  <2> QED BY <1>3
<1>9. ASSUME NEW y \in Nat, last <= y, y < first PROVE first > last
  BY <1>3, <1>9
<1> QED BY <1>4, <1>6, <1>7, <1>8, <1>9

\* A rectangle is empty where it shows no point.
LEMMA EmptyIs ==
  ASSUME NEW rect \in Rectangles
  PROVE  ~Empty(rect) <=> \E q \in Points : Shows(rect, q)
<1>1. ASSUME NEW axis \in Axes
      PROVE  rect[axis].start \in Nat /\ rect[axis].end \in Nat /\ rect[axis].start <= rect[axis].end
  <2>1. rect[axis] \in Spans
    BY DEF Rectangles
  <2> QED BY <2>1 DEF Spans
<1>2. ASSUME ~Empty(rect) PROVE \E q \in Points : Shows(rect, q)
  <2> DEFINE q == [axis \in Axes |-> rect[axis].start]
  <2>1. q \in Points
    BY <1>1 DEF Points
  <2>2. ASSUME NEW axis \in Axes PROVE Within(q[axis], rect[axis])
    <3>1. rect[axis].start # rect[axis].end
      BY <1>2 DEF Empty
    <3> QED BY <1>1, <3>1 DEF Within
  <2> QED BY <2>1, <2>2 DEF Shows
<1>3. ASSUME NEW q \in Points, Shows(rect, q) PROVE ~Empty(rect)
  <2>1. ASSUME NEW axis \in Axes PROVE rect[axis].start # rect[axis].end
    <3>1. Within(q[axis], rect[axis]) /\ q[axis] \in Nat
      BY <1>3 DEF Shows, Points
    <3> QED BY <1>1, <3>1 DEF Within
  <2> QED BY <2>1 DEF Empty
<1> QED BY <1>2, <1>3

\* Between a number that has a colour and one that has not there are two that follow on
\* each other, of which one has it and the other has not.
LEMMA Borders ==
  ASSUME NEW Q, NEW start \in Nat, NEW end \in Nat, NEW x \in Q, NEW z \in Nat \ Q,
         Q \subseteq Nat, start <= x, x < end, start <= z, z < end
  PROVE  \E m \in Q, u \in Nat \ Q :
            start <= m /\ m < end /\ start <= u /\ u < end /\ (u = m + 1 \/ m = u + 1)
<1> DEFINE D == {d \in Nat : \E m \in Q, u \in Nat \ Q :
                    start <= m /\ m < end /\ start <= u /\ u < end /\ (u = m + d \/ m = u + d)}
<1>1. D # {} /\ D \in SUBSET Nat
  <2>1. x \in Nat /\ z \in Nat
    OBVIOUS
  <2>2. x <= z => z - x \in Nat /\ z = x + (z - x)
    BY <2>1
  <2>3. z <= x => x - z \in Nat /\ x = z + (x - z)
    BY <2>1
  <2>4. x <= z => z - x \in D
    BY <2>2
  <2>5. z <= x => x - z \in D
    BY <2>3
  <2>6. x <= z \/ z <= x
    BY <2>1
  <2> QED BY <2>4, <2>5, <2>6
<1>2. PICK d \in D : \A c \in D : d <= c
  <2> HIDE DEF D
  <2> QED BY <1>1, LeastOf
<1>3. PICK m \in Q, u \in Nat \ Q :
        start <= m /\ m < end /\ start <= u /\ u < end /\ (u = m + d \/ m = u + d)
  BY <1>2
<1>4. d \in Nat /\ m \in Nat /\ u \in Nat /\ m # u
  BY <1>2, <1>3
<1>5. ASSUME d > 1 PROVE FALSE
  <2>1. d - 1 \in Nat /\ 1 \in Nat /\ ~(d <= d - 1) /\ ~(d <= 1)
    BY <1>4, <1>5
  <2>2. d - 1 \notin D /\ 1 \notin D
    BY <1>2, <2>1
  <2>3. CASE u = m + d
    <3> DEFINE v == m + 1
    <3>1. v \in Nat /\ start <= v /\ v < end /\ u = v + (d - 1)
      BY <1>3, <1>4, <1>5, <2>3
    <3>2. CASE v \in Q
      BY <1>3, <2>1, <2>2, <3>1, <3>2
    <3>3. CASE v \notin Q
      BY <1>3, <1>4, <2>1, <2>2, <3>1, <3>3
    <3> QED BY <3>2, <3>3
  <2>4. CASE m = u + d
    <3> DEFINE v == u + 1
    <3>1. v \in Nat /\ start <= v /\ v < end /\ m = v + (d - 1)
      BY <1>3, <1>4, <1>5, <2>4
    <3>2. CASE v \in Q
      BY <1>3, <2>1, <2>2, <3>1, <3>2
    <3>3. CASE v \notin Q
      BY <1>3, <1>4, <2>1, <2>2, <3>1, <3>3
    <3> QED BY <3>2, <3>3
  <2> QED BY <1>3, <2>3, <2>4
<1>6. d = 1
  BY <1>3, <1>4, <1>5
<1> QED BY <1>3, <1>6

\* The rectangles of the panes are those of the nodes.
LEMMA RectsOfPanes ==
  ASSUME NEW l, Sound(l)
  PROVE  /\ DOMAIN Rects(l) = PanesOf(l)
         /\ \A p \in PanesOf(l) : Rects(l)[p] = RectOf(l)[p] /\ RectOf(l)[p] \in Rectangles
<1>1. RectOf(l) \in [Nodes(l) -> Rectangles] /\ PanesOf(l) \subseteq Nodes(l)
  BY RectsAre DEF PanesOf
<1>2. Rects(l) = [p \in PanesOf(l) |-> RectOf(l)[p]]
  BY DEF Rects
<1> HIDE DEF Rects
<1> QED BY <1>1, <1>2

\* Where a pane is next to a side of another along an edge, a move leads to such panes only.
LEMMA Nearest ==
  ASSUME NEW l, Sound(l), NEW from \in PanesOf(l), NEW side \in Sides,
         NEW near \in PanesOf(l) \ {from}, ~Empty(RectOf(l)[near]),
         NEW b \in Axes, b = CHOOSE axis \in Axes : axis # side.axis,
         Distance(RectOf(l)[from], RectOf(l)[near], side) = 0,
         Overlap(RectOf(l)[from][b], RectOf(l)[near][b]) > 0
  PROVE  /\ Neighbors(l, from, side) # {}
         /\ \A c \in Neighbors(l, from, side) :
               /\ c \in PanesOf(l) \ {from} /\ ~Empty(RectOf(l)[c])
               /\ Distance(RectOf(l)[from], RectOf(l)[c], side) = 0
               /\ Overlap(RectOf(l)[from][b], RectOf(l)[c][b]) > 0
<1> DEFINE R == RectOf(l) P == PanesOf(l) \ {from}
           far(p) == Distance(R[from], R[p], side)
           edge(p) == Overlap(R[from][b], R[p][b])
           Reached == {p \in P : ~Empty(R[p]) /\ far(p) >= 0}
           better(p, o) == far(p) < far(o) \/ (far(p) = far(o) /\ edge(p) >= edge(o))
           next == {p \in Reached : \A o \in Reached : better(p, o)}
<1>1. \A p \in PanesOf(l) : R[p] \in Rectangles /\ Rects(l)[p] = R[p]
  BY RectsOfPanes
<1>2. side.axis \in Axes /\ side.leading \in BOOLEAN
  BY DEF Sides
<1>3. ASSUME NEW p \in PanesOf(l), NEW axis \in Axes
      PROVE  R[p][axis] \in Spans /\ R[p][axis].start \in Nat /\ R[p][axis].end \in Nat
  <2>1. R[p][axis] \in Spans
    BY <1>1 DEF Rectangles
  <2> QED BY <2>1 DEF Spans
<1>4. ASSUME NEW p \in P PROVE far(p) \in Int /\ edge(p) \in Nat /\ edge(p) <= R[from][b].end - R[from][b].start
  <2>1. far(p) \in Int
    BY <1>2, <1>3 DEF Distance
  <2>2. R[from][b] \in Spans /\ R[p][b] \in Spans
    BY <1>3
  <2> QED BY <2>1, <2>2, OverlapIs
<1>5. Neighbors(l, from, side) = next
  <2> DEFINE rects == Rects(l)
             candidates == {p \in DOMAIN rects \ {from} :
                              ~Empty(rects[p]) /\ Distance(rects[from], rects[p], side) >= 0}
             Reach(p) == [distance |-> Distance(rects[from], rects[p], side),
                          shared |-> Overlap(rects[from][b], rects[p][b])]
  <2>1. Neighbors(l, from, side) = {p \in candidates : \A q \in candidates : Preferred(Reach(p), Reach(q))}
    BY Zenon DEF Neighbors
  <2>2. candidates = Reached
    <3>1. DOMAIN rects = PanesOf(l)
      BY RectsOfPanes
    <3> HIDE DEF rects, R
    <3> QED BY <1>1, <3>1 DEF rects
  <2>3. ASSUME NEW p \in P PROVE Reach(p).distance = far(p) /\ Reach(p).shared = edge(p)
    BY <1>1
  <2>4. ASSUME NEW p \in P, NEW o \in P PROVE Preferred(Reach(p), Reach(o)) <=> better(p, o)
    <3> HIDE DEF Reach, far, edge
    <3> QED BY <2>3 DEF Preferred
  <2> HIDE DEF candidates, Reach, better, far
  <2>5. Reached \subseteq P
    OBVIOUS
  <2> HIDE DEF Reached
  <2> QED BY <2>1, <2>2, <2>4, <2>5
<1> DEFINE E == R[from][b].end - R[from][b].start
           Close == {p \in P : ~Empty(R[p]) /\ far(p) = 0}
           Rest == {E - edge(p) : p \in Close}
<1>6. near \in Close /\ near \in Reached /\ edge(near) > 0
  OBVIOUS
<1>7. E \in Int
  BY <1>3
<1>8. Close \subseteq Reached /\ Close \subseteq P /\ Reached \subseteq P
  OBVIOUS
<1>9. \A o \in Reached : far(o) >= 0 /\ ~Empty(R[o])
  OBVIOUS
<1>10. \A p \in Close : far(p) = 0
  OBVIOUS
<1>11. \A o \in Reached : far(o) = 0 => o \in Close
  OBVIOUS
<1> HIDE DEF Close, Reached, far, edge, E, P
<1>12. Rest \in SUBSET Nat /\ Rest # {}
  <2>1. ASSUME NEW p \in Close PROVE E - edge(p) \in Nat
    <3>1. p \in P
      BY <1>8
    <3>2. edge(p) \in Nat /\ edge(p) <= E
      BY <1>4, <3>1 DEF E
    <3> QED BY <1>7, <3>2
  <2> QED BY <1>6, <2>1
<1>13. PICK m \in Rest : \A n \in Rest : m <= n
  <2> HIDE DEF Rest
  <2> QED BY <1>12, LeastOf
<1>14. PICK best \in Close : m = E - edge(best)
  BY <1>13
<1>15. best \in next
  <2> SUFFICES ASSUME NEW o \in Reached PROVE better(best, o)
    BY <1>8, <1>14
  <2>1. far(best) = 0 /\ far(o) \in Int /\ far(o) >= 0 /\ best \in P /\ o \in P
    BY <1>4, <1>8, <1>9, <1>10, <1>14
  <2>2. CASE far(o) = 0
    <3>1. o \in Close
      BY <1>11, <2>2
    <3>2. E - edge(best) <= E - edge(o)
      BY <1>13, <1>14, <3>1
    <3>3. edge(best) \in Nat /\ edge(o) \in Nat
      BY <1>4, <2>1
    <3> QED BY <1>7, <2>1, <2>2, <3>2, <3>3
  <2> QED BY <2>1, <2>2
<1>16. ASSUME NEW c \in next PROVE c \in P /\ ~Empty(R[c]) /\ far(c) = 0 /\ edge(c) > 0
  <2>1. c \in Reached /\ c \in P /\ ~Empty(R[c]) /\ far(c) \in Int /\ far(c) >= 0 /\ edge(c) \in Nat
    BY <1>4, <1>8, <1>9, <1>16
  <2>2. better(c, near)
    BY <1>6, <1>16
  <2>3. far(near) = 0 /\ edge(near) \in Nat
    BY <1>4, <1>6, <1>8, <1>10
  <2> QED BY <1>6, <2>1, <2>2, <2>3
<1> HIDE DEF next
<1> QED BY <1>5, <1>15, <1>16 DEF P, far, edge

Visible(l) == {p \in PanesOf(l) : ~Empty(Rects(l)[p])}

\* The points of some panes, and the nodes that show one of them and one that is not.
Marked(l, S, q) == \E p \in S : Shows(RectOf(l)[p], q)
Mixed(l, S, n) ==
    \E q, z \in Points :
        /\ Shows(RectOf(l)[n], q) /\ Marked(l, S, q)
        /\ Shows(RectOf(l)[n], z) /\ ~Marked(l, S, z)

\* A pane with an extent shows a point.
LEMMA VisibleIs ==
  ASSUME NEW l, Sound(l), NEW p \in PanesOf(l)
  PROVE  p \in Visible(l) <=> \E q \in Points : Shows(RectOf(l)[p], q)
<1>1. RectOf(l)[p] \in Rectangles /\ Rects(l)[p] = RectOf(l)[p]
  BY RectsOfPanes
<1> QED BY <1>1, EmptyIs DEF Visible

\* Between some panes and the others there is a split that holds both, and none of its
\* children does.
LEMMA MixedSplit ==
  ASSUME NEW l, Sound(l), NEW S \in SUBSET Visible(l), S # {}, S # Visible(l)
  PROVE  \E s \in Splits(l) :
            Mixed(l, S, s) /\ \A i \in 1..Len(Children(l, s)) : ~Mixed(l, S, Children(l, s)[i].node)
<1> DEFINE R == RectOf(l) C == {s \in Splits(l) : Mixed(l, S, s)}
<1>1. Tree(l) /\ C \in SUBSET Splits(l)
  BY DEF Sound
<1>2. S \subseteq PanesOf(l) /\ Visible(l) \subseteq PanesOf(l) /\ PanesOf(l) \subseteq Nodes(l)
  BY DEF Visible, PanesOf
<1>3. ASSUME NEW n \in PanesOf(l) PROVE ~Mixed(l, S, n)
  <2> SUFFICES ASSUME NEW q \in Points, NEW z \in Points, NEW p \in S,
                      Shows(R[n], q), Shows(R[p], q), Shows(R[n], z), ~Marked(l, S, z)
               PROVE  FALSE
    BY DEF Mixed, Marked
  <2>1. p = n
    BY <1>2, OnePane
  <2> QED BY <2>1 DEF Marked
<1>4. Mixed(l, S, l.root)
  <2>1. PICK p \in S, o \in Visible(l) \ S : TRUE
    OBVIOUS
  <2>2. PICK q \in Points, z \in Points : Shows(R[p], q) /\ Shows(R[o], z)
    BY <1>2, VisibleIs
  <2>3. Marked(l, S, q)
    BY <2>2 DEF Marked
  <2>4. ~Marked(l, S, z)
    BY <1>2, <2>1, <2>2, OnePane DEF Marked
  <2>5. Shows(R[l.root], q) /\ Shows(R[l.root], z)
    BY <1>2, <2>2, RootShows
  <2> QED BY <2>2, <2>3, <2>4, <2>5 DEF Mixed
<1>5. l.root \in C
  <2>1. l.root \in Nodes(l) /\ l.root \notin PanesOf(l)
    BY <1>3, <1>4 DEF Nodes
  <2> QED BY <1>4, <2>1 DEF PanesOf
<1>6. PICK s \in C : \A x \in C : x \notin KidsOn(l)[s]
  <2> HIDE DEF C
  <2> QED BY <1>1, <1>5, Lowest
<1>7. ASSUME NEW i \in 1..Len(Children(l, s)) PROVE ~Mixed(l, S, Children(l, s)[i].node)
  <2> DEFINE x == Children(l, s)[i].node
  <2>1. x \in Nodes(l) /\ x \in KidsOn(l)[s]
    BY KidIs
  <2> HIDE DEF x
  <2>2. x \notin Splits(l) => x \in PanesOf(l)
    BY <2>1 DEF PanesOf
  <2>3. ~Mixed(l, S, x)
    BY <1>3, <1>6, <2>1, <2>2
  <2> QED BY <2>3 DEF x
<1> QED BY <1>6, <1>7

PointAt(a, x, y) == [axis \in Axes |-> IF axis = a THEN x ELSE y]

\* A rectangle shows a point if it shows it on each axis.
LEMMA ShowsAt ==
  ASSUME NEW a \in Axes, NEW b \in Axes, b # a, \A axis \in Axes : axis = a \/ axis = b,
         NEW x \in Nat, NEW y \in Nat
  PROVE  /\ PointAt(a, x, y) \in Points /\ PointAt(a, x, y)[a] = x /\ PointAt(a, x, y)[b] = y
         /\ \A rect : Shows(rect, PointAt(a, x, y)) <=> Within(x, rect[a]) /\ Within(y, rect[b])
<1> DEFINE q == PointAt(a, x, y)
<1>1. q \in Points /\ q[a] = x /\ q[b] = y
  BY DEF PointAt, Points
<1> HIDE DEF q
<1>2. ASSUME NEW rect PROVE Shows(rect, q) <=> Within(x, rect[a]) /\ Within(y, rect[b])
  <2>1. Shows(rect, q) <=> \A axis \in Axes : Within(q[axis], rect[axis])
    BY DEF Shows
  <2> QED BY <1>1, <2>1
<1> QED BY <1>1, <1>2 DEF q

\* Across a split whose children are not mixed there is a line, with nothing but the
\* points of the panes on the one side of it and none of them on the other.
LEMMA MixedLine ==
  ASSUME NEW l, Sound(l), NEW S, NEW s \in Splits(l), Mixed(l, S, s),
         \A i \in 1..Len(Children(l, s)) : ~Mixed(l, S, Children(l, s)[i].node)
  PROVE  LET a == l.splits[s].axis rect == RectOf(l)[s]
         IN \E m, u \in Nat :
               /\ u = m + 1 \/ m = u + 1
               /\ Within(m, rect[a]) /\ Within(u, rect[a])
               /\ \A q \in Points : Shows(rect, q) =>
                     (q[a] = m => Marked(l, S, q)) /\ (q[a] = u => ~Marked(l, S, q))
<1> DEFINE a == l.splits[s].axis rect == RectOf(l)[s] A == Children(l, s)
           b == CHOOSE axis \in Axes : axis # a
<1>1. rect \in Rectangles /\ a \in Axes
  <2>1. Tree(l)
    BY DEF Sound
  <2> QED BY <2>1, RectsAre, SplitIs, TreeNodes DEF Tree
<1>2. b \in Axes /\ b # a /\ \A axis \in Axes : axis = a \/ axis = b
  <2> HIDE DEF a
  <2> QED BY <1>1, Crosses
<1> HIDE DEF b
<1>3. ASSUME NEW q \in Points, NEW z \in Points, Shows(rect, q), Shows(rect, z), q[a] = z[a]
      PROVE  Marked(l, S, q) <=> Marked(l, S, z)
  <2>1. PICK i \in 1..Len(A) : Shows(RectOf(l)[A[i].node], q)
    BY <1>3, KidShows
  <2>2. Within(q[a], Part(rect[a], A, i))
    BY <2>1, KidShows
  <2>3. Shows(RectOf(l)[A[i].node], z)
    BY <1>3, <2>2, KidShows
  <2>4. ~Mixed(l, S, A[i].node)
    OBVIOUS
  <2> QED BY <2>1, <2>3, <2>4 DEF Mixed
<1> HIDE DEF a, rect, A
<1>4. PICK q \in Points, z \in Points :
        Shows(rect, q) /\ Marked(l, S, q) /\ Shows(rect, z) /\ ~Marked(l, S, z)
  BY DEF Mixed, rect
<1> DEFINE y == q[b] Q == {x \in Nat : Marked(l, S, PointAt(a, x, y))}
<1>5. q[a] \in Nat /\ z[a] \in Nat /\ y \in Nat
  BY <1>1, <1>2 DEF Points
<1>6. Within(q[a], rect[a]) /\ Within(z[a], rect[a]) /\ Within(y, rect[b])
  BY <1>1, <1>2, <1>4 DEF Shows
<1> HIDE DEF y
<1>7. ASSUME NEW x \in Nat, Within(x, rect[a]), NEW o \in Points, Shows(rect, o), o[a] = x
      PROVE  x \in Q <=> Marked(l, S, o)
  <2> DEFINE o1 == PointAt(a, x, y)
  <2>1. o1 \in Points /\ o1[a] = x /\ Shows(rect, o1)
    BY <1>1, <1>2, <1>5, <1>6, <1>7, ShowsAt
  <2> HIDE DEF o1
  <2>2. Marked(l, S, o1) <=> Marked(l, S, o)
    BY <1>3, <1>7, <2>1
  <2> QED BY <2>2 DEF o1
<1>8. q[a] \in Q /\ z[a] \in Nat \ Q /\ Q \subseteq Nat
  <2>1. q[a] \in Q /\ z[a] \notin Q
    <3> HIDE DEF Q
    <3> QED BY <1>4, <1>5, <1>6, <1>7
  <2> QED BY <1>5, <2>1
<1> HIDE DEF Q
<1>9. rect[a].start \in Nat /\ rect[a].end \in Nat
  <2>1. rect[a] \in Spans
    BY <1>1 DEF Rectangles
  <2> QED BY <2>1 DEF Spans
<1>10. PICK m \in Q, u \in Nat \ Q :
        /\ rect[a].start <= m /\ m < rect[a].end /\ rect[a].start <= u /\ u < rect[a].end
        /\ u = m + 1 \/ m = u + 1
  <2>1. rect[a].start <= q[a] /\ q[a] < rect[a].end /\ rect[a].start <= z[a] /\ z[a] < rect[a].end
    BY <1>6 DEF Within
  <2> DEFINE from == rect[a].start to == rect[a].end c == q[a] d == z[a]
  <2>2. from \in Nat /\ to \in Nat /\ c \in Q /\ d \in Nat \ Q /\ from <= c /\ c < to /\ from <= d /\ d < to
    BY <1>8, <1>9, <2>1
  <2> HIDE DEF from, to, c, d
  <2>3. \E m \in Q, u \in Nat \ Q : from <= m /\ m < to /\ from <= u /\ u < to /\ (u = m + 1 \/ m = u + 1)
    BY <1>8, <2>2, Borders
  <2> QED BY <2>3 DEF from, to
<1>11. m \in Nat /\ Within(m, rect[a]) /\ Within(u, rect[a])
  BY <1>8, <1>10 DEF Within
<1>12. ASSUME NEW o \in Points, Shows(rect, o)
       PROVE  (o[a] = m => Marked(l, S, o)) /\ (o[a] = u => ~Marked(l, S, o))
  BY <1>7, <1>10, <1>11, <1>12
<1> QED BY <1>10, <1>11, <1>12 DEF a, rect

\* Of some of the panes that have an extent but not all, one has a side on which a move
\* leads to others, whichever of the best it takes.
LEMMA SomeMoveLeaves ==
  ASSUME NEW l, Sound(l), NEW S \in SUBSET Visible(l), S # {}, S # Visible(l)
  PROVE  \E p \in S, side \in Sides :
            LET next == Neighbors(l, p, side) IN next # {} /\ next \subseteq Visible(l) \ S
<1> DEFINE R == RectOf(l)
<1>1. PICK s \in Splits(l) : Mixed(l, S, s) /\ \A i \in 1..Len(Children(l, s)) : ~Mixed(l, S, Children(l, s)[i].node)
  BY MixedSplit
<1> DEFINE a == l.splits[s].axis b == CHOOSE axis \in Axes : axis # a
<1>2. PICK m \in Nat, u \in Nat :
        /\ u = m + 1 \/ m = u + 1
        /\ Within(m, R[s][a]) /\ Within(u, R[s][a])
        /\ \A q \in Points : Shows(R[s], q) =>
              (q[a] = m => Marked(l, S, q)) /\ (q[a] = u => ~Marked(l, S, q))
  BY <1>1, MixedLine
<1>3. a \in Axes /\ s \in Nodes(l) /\ S \subseteq PanesOf(l) /\ PanesOf(l) \subseteq Nodes(l)
  <2>1. Tree(l)
    BY DEF Sound
  <2> QED BY <2>1, SplitIs, TreeNodes DEF Tree, Visible, PanesOf
<1>4. b \in Axes /\ b # a /\ \A axis \in Axes : axis = a \/ axis = b
  <2> HIDE DEF a
  <2> QED BY <1>3, Crosses
<1>5. PICK y \in Nat : Within(y, R[s][b])
  <2>1. PICK q \in Points : Shows(R[s], q)
    BY <1>1 DEF Mixed
  <2> QED BY <1>4, <2>1 DEF Points, Shows
<1> DEFINE side == [axis |-> a, leading |-> m = u + 1]
<1>6. side \in Sides /\ side.axis = a /\ side.leading = (m = u + 1) /\ b = CHOOSE axis \in Axes : axis # side.axis
  BY <1>3 DEF Sides
<1> HIDE DEF b, a, R, side
<1>7. ASSUME NEW n \in Nodes(l), NEW axis \in Axes
      PROVE  /\ R[n] \in Rectangles /\ R[n][axis] \in Spans
             /\ R[n][axis].start \in Nat /\ R[n][axis].end \in Nat
  <2>1. R[n] \in Rectangles
    BY RectsAre DEF R
  <2>2. R[n][axis] \in Spans
    BY <2>1 DEF Rectangles
  <2> QED BY <2>1, <2>2 DEF Spans
<1>8. ASSUME NEW x \in Nat, NEW v \in Nat
      PROVE  /\ PointAt(a, x, v) \in Points /\ PointAt(a, x, v)[a] = x
             /\ \A n : Shows(R[n], PointAt(a, x, v)) <=> Within(x, R[n][a]) /\ Within(v, R[n][b])
  BY <1>3, <1>4, ShowsAt
<1> DEFINE inner == PointAt(a, m, y) outer == PointAt(a, u, y)
<1>9. /\ inner \in Points /\ outer \in Points /\ Shows(R[s], inner) /\ Shows(R[s], outer)
      /\ Marked(l, S, inner) /\ ~Marked(l, S, outer)
  BY <1>2, <1>5, <1>8
<1>10. PICK p \in S : Shows(R[p], inner)
  BY <1>9 DEF Marked, R
<1>11. PICK near \in PanesOf(l) : Shows(R[near], outer)
  BY <1>3, <1>9, RootShows, SomePane DEF R
<1>12. ~Shows(R[p], outer) /\ near # p /\ ~Shows(R[near], inner)
  <2>1. ~Shows(R[p], outer)
    BY <1>9 DEF Marked, R
  <2>2. Shows(R[near], inner) => near = p
    BY <1>3, <1>9, <1>10, OnePane DEF R
  <2> QED BY <1>11, <2>1, <2>2
<1>13. /\ Within(m, R[p][a]) /\ ~Within(u, R[p][a]) /\ Within(y, R[p][b])
       /\ Within(u, R[near][a]) /\ ~Within(m, R[near][a]) /\ Within(y, R[near][b])
  BY <1>8, <1>10, <1>11, <1>12
<1>14. p \in Nodes(l) /\ near \in Nodes(l) /\ p \in PanesOf(l)
  BY <1>3
<1>15. /\ u = m + 1 => R[p][a].end = u /\ R[near][a].start = u
       /\ m = u + 1 => R[p][a].start = m /\ R[near][a].end = m
  <2> DEFINE ps == R[p][a].start pe == R[p][a].end ns == R[near][a].start ne == R[near][a].end
  <2>1. ps \in Nat /\ pe \in Nat /\ ns \in Nat /\ ne \in Nat
    BY <1>3, <1>7, <1>14
  <2>2. /\ ps <= m /\ m < pe /\ ~(ps <= u /\ u < pe)
        /\ ns <= u /\ u < ne /\ ~(ns <= m /\ m < ne)
    BY <1>13 DEF Within
  <2> HIDE DEF ps, pe, ns, ne
  <2>3. /\ u = m + 1 => pe = u /\ ns = u
        /\ m = u + 1 => ps = m /\ ne = m
    BY <2>1, <2>2
  <2> QED BY <2>3 DEF ps, pe, ns, ne
<1>16. ~(u = m + 1 /\ m = u + 1)
  OBVIOUS
<1>17. Distance(R[p], R[near], side) = 0
  <2>1. Distance(R[p], R[near], side)
           = IF m = u + 1 THEN R[p][a].start - R[near][a].end ELSE R[near][a].start - R[p][a].end
    BY <1>6, Zenon DEF Distance
  <2>2. R[near][a].start \in Nat /\ R[near][a].end \in Nat
    BY <1>3, <1>7, <1>14
  <2> HIDE DEF R
  <2>3. CASE u = m + 1
    BY <1>15, <1>16, <2>1, <2>2, <2>3
  <2>4. CASE m = u + 1
    BY <1>15, <2>1, <2>2, <2>4
  <2> QED BY <1>2, <2>3, <2>4
<1>18. ~Empty(R[near]) /\ Overlap(R[p][b], R[near][b]) > 0
  <2>1. R[near] \in Rectangles /\ R[p][b] \in Spans /\ R[near][b] \in Spans
    BY <1>4, <1>7, <1>14
  <2>2. ~Empty(R[near])
    BY <1>9, <1>11, <2>1, EmptyIs
  <2>3. Overlap(R[p][b], R[near][b]) > 0
    BY <1>13, <2>1, OverlapIs
  <2> QED BY <2>2, <2>3
<1> DEFINE next == Neighbors(l, p, side)
<1>19. /\ next # {}
       /\ \A c \in next :
             /\ c \in PanesOf(l) \ {p} /\ ~Empty(R[c]) /\ Distance(R[p], R[c], side) = 0
             /\ Overlap(R[p][b], R[c][b]) > 0
  BY <1>4, <1>6, <1>12, <1>14, <1>17, <1>18, Nearest DEF R
<1> HIDE DEF next
<1>20. ASSUME NEW c \in next PROVE c \in Visible(l) \ S
  <2>1. c \in PanesOf(l) /\ c \in Nodes(l) /\ ~Empty(R[c]) /\ Distance(R[p], R[c], side) = 0
        /\ Overlap(R[p][b], R[c][b]) > 0
    BY <1>3, <1>19
  <2>2. c \in Visible(l)
    BY <2>1, RectsOfPanes DEF Visible, R
  <2>3. R[p][b] \in Spans /\ R[c][b] \in Spans
    BY <1>4, <1>7, <1>14, <2>1
  <2>4. PICK v \in Nat : Within(v, R[p][b]) /\ Within(v, R[c][b])
    BY <2>1, <2>3, OverlapIs
  <2>5. Within(u, R[c][a])
    <3> DEFINE cs == R[c][a].start ce == R[c][a].end ps == R[p][a].start pe == R[p][a].end
    <3>1. cs \in Nat /\ ce \in Nat /\ ps \in Nat /\ pe \in Nat /\ cs <= ce
      BY <1>3, <1>7, <1>14, <2>1 DEF Spans
    <3>2. cs # ce
      BY <1>3, <2>1 DEF Empty
    <3>3. (IF m = u + 1 THEN ps - ce ELSE cs - pe) = 0
      BY <1>6, <2>1 DEF Distance
    <3>4. (u = m + 1 => pe = u) /\ (m = u + 1 => ps = m)
      BY <1>15
    <3> HIDE DEF cs, ce, ps, pe
    <3>5. cs <= u /\ u < ce
      BY <1>2, <1>16, <3>1, <3>2, <3>3, <3>4
    <3> QED BY <3>5 DEF cs, ce, Within
  <2> DEFINE mine == PointAt(a, m, v) its == PointAt(a, u, v)
  <2>6. mine \in Points /\ its \in Points /\ Shows(R[p], mine) /\ Shows(R[c], its) /\ its[a] = u
    BY <1>8, <1>13, <2>4, <2>5
  <2>7. Shows(R[s], mine)
    BY <1>3, <1>9, <1>10, <1>14, <2>6, PaneWithin DEF R
  <2>8. Shows(R[s], its)
    BY <1>2, <1>8, <2>7
  <2>9. ~Marked(l, S, its)
    BY <1>2, <2>6, <2>8
  <2>10. c \notin S
    BY <2>6, <2>9 DEF Marked, R
  <2> QED BY <2>2, <2>10
<1> QED BY <1>6, <1>19, <1>20 DEF next

\* The property NavigationReaches, for every layout an operation can make, every extent
\* of the root, every total and limit: of any panes with an extent, but not all, one
\* move leads to others (pane_layout.rs: rects, neighbor).
THEOREM NavigationAlwaysReaches == Spec => []NavigationReaches
<1>1. LayoutsSound => NavigationReaches
  <2> SUFFICES ASSUME LayoutsSound PROVE NavigationReaches
    OBVIOUS
  <2>1. ASSUME NEW t \in Live, NEW S \in (SUBSET Visible(tabs[t])) \ {{}, Visible(tabs[t])}
        PROVE  \E p \in S, side \in Sides :
                  LET next == Neighbors(tabs[t], p, side)
                  IN next # {} /\ next \subseteq Visible(tabs[t]) \ S
    <3>1. Sound(tabs[t])
      BY LiveIs
    <3> QED BY <3>1, SomeMoveLeaves
  <2> QED BY <2>1, Zenon DEF NavigationReaches, Visible, PanesIn
<1> QED BY <1>1, LayoutsStaySound, PTL

=============================================================================
