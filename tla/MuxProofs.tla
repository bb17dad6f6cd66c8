------------------------------ MODULE MuxProofs ------------------------------
(***************************************************************************)
(* Lists without repetition, partitions into lists, and the structures     *)
(* made of them: what each edit of a structure leaves whole, and which     *)
(* panes stay in their session.  Then the runtime's structure under every  *)
(* operation, whatever its sessions, workspaces, tabs and panes: each      *)
(* leaves every workspace, tab and pane in one place and every viewer in   *)
(* the session of its attachment, and either advances the revision or      *)
(* leaves what a close covers alone.                                       *)
(***************************************************************************)
EXTENDS Mux, SequenceTheorems, FiniteSetTheorems, WellFoundedInduction, TLAPS

-----------------------------------------------------------------------------
(* Lists without repetition.                                               *)

LEMMA ToSetIn ==
  ASSUME NEW E, NEW s \in Seq(E)
  PROVE  /\ ToSet(s) \subseteq E /\ DOMAIN s = 1..Len(s) /\ Len(s) \in Nat
         /\ \A x : Contains(s, x) <=> x \in ToSet(s)
         /\ s # <<>> <=> ToSet(s) # {}
         /\ s \in Seq(ToSet(s))
<1>1. DOMAIN s = 1..Len(s) /\ Len(s) \in Nat /\ \A i \in 1..Len(s) : s[i] \in E
  BY LenProperties, ElementOfSeq
<1>2. ToSet(s) \subseteq E /\ \A x : Contains(s, x) <=> x \in ToSet(s)
  BY <1>1 DEF ToSet, Contains
<1>3. s # <<>> <=> ToSet(s) # {}
  <2>1. s # <<>> <=> 1 \in 1..Len(s)
    BY <1>1, EmptySeq
  <2> QED BY <2>1, <1>1 DEF ToSet
<1>4. s \in Seq(ToSet(s))
  BY <1>1, IsASeq DEF ToSet
<1> QED BY <1>1, <1>2, <1>3, <1>4

LEMMA InjectiveSeq ==
  ASSUME NEW E, NEW s \in Seq(E)
  PROVE  IsInjective(s) <=> \A i, j \in 1..Len(s) : s[i] = s[j] => i = j
BY ToSetIn DEF IsInjective

LEMMA Single ==
  ASSUME NEW E, NEW x \in E
  PROVE  <<x>> \in Seq(E) /\ IsInjective(<<x>>) /\ ToSet(<<x>>) = {x} /\ Len(<<x>>) = 1
BY DEF IsInjective, ToSet

LEMMA EmptyList ==
  ASSUME NEW E
  PROVE  <<>> \in Seq(E) /\ IsInjective(<<>>) /\ ToSet(<<>>) = {} /\ Len(<<>>) = 0
BY DEF IsInjective, ToSet

LEMMA Joins ==
  ASSUME NEW E, NEW s \in Seq(E), NEW t \in Seq(E), IsInjective(s), IsInjective(t),
         ToSet(s) \cap ToSet(t) = {}
  PROVE  s \o t \in Seq(E) /\ IsInjective(s \o t) /\ ToSet(s \o t) = ToSet(s) \cup ToSet(t)
<1> DEFINE n == Len(s)  m == Len(t)  u == s \o t
<1>1. n \in Nat /\ m \in Nat /\ DOMAIN s = 1..n /\ DOMAIN t = 1..m
  BY ToSetIn
<1>2. u \in Seq(E) /\ Len(u) = n + m /\ \A i \in 1..n+m : u[i] = IF i <= n THEN s[i] ELSE t[i - n]
  BY ConcatProperties
<1>3. DOMAIN u = 1..n+m
  BY <1>2, ToSetIn
<1> HIDE DEF n, m, u
<1>4. \A i \in 1..n : i \in 1..n+m /\ u[i] = s[i]
  BY <1>1, <1>2
<1>5. \A i \in 1..m : n + i \in 1..n+m /\ u[n + i] = t[i]
  BY <1>1, <1>2
<1>6. \A i \in 1..n+m : i \in 1..n \/ (i - n \in 1..m /\ u[i] = t[i - n])
  BY <1>1, <1>2
<1>7. ToSet(u) = ToSet(s) \cup ToSet(t)
  <2>1. ToSet(s) \subseteq ToSet(u)
    BY <1>1, <1>3, <1>4 DEF ToSet
  <2>2. ToSet(t) \subseteq ToSet(u)
    BY <1>1, <1>3, <1>5 DEF ToSet
  <2>3. ToSet(u) \subseteq ToSet(s) \cup ToSet(t)
    BY <1>1, <1>3, <1>4, <1>6 DEF ToSet
  <2> QED BY <2>1, <2>2, <2>3
<1>8. IsInjective(u)
  <2> SUFFICES ASSUME NEW i \in 1..n+m, NEW j \in 1..n+m, u[i] = u[j] PROVE i = j
    BY <1>3 DEF IsInjective
  <2>1. CASE i \in 1..n /\ j \in 1..n
    BY <2>1, <1>1, <1>4 DEF IsInjective
  <2>2. CASE i \notin 1..n /\ j \notin 1..n
    <3>1. i - n \in 1..m /\ j - n \in 1..m /\ t[i - n] = t[j - n]
      BY <2>2, <1>6
    <3>2. i - n = j - n
      BY <3>1, <1>1 DEF IsInjective
    <3> QED BY <3>2, <1>1
  <2>3. ASSUME NEW k \in 1..n, NEW l \in 1..m PROVE s[k] # t[l]
    <3>1. s[k] \in ToSet(s) /\ t[l] \in ToSet(t)
      BY <1>1 DEF ToSet
    <3> QED BY <3>1
  <2> QED BY <2>1, <2>2, <2>3, <1>4, <1>6
<1> QED BY <1>2, <1>7, <1>8 DEF u

(* A list cut in two. *)
LEMMA Cut ==
  ASSUME NEW E, NEW s \in Seq(E), IsInjective(s), NEW i \in 0..Len(s)
  PROVE  LET a == SubSeq(s, 1, i)
             b == SubSeq(s, i + 1, Len(s))
         IN /\ a \in Seq(E) /\ b \in Seq(E) /\ IsInjective(a) /\ IsInjective(b)
            /\ ToSet(a) \cap ToSet(b) = {} /\ ToSet(a) \cup ToSet(b) = ToSet(s)
<1> DEFINE n == Len(s)  a == SubSeq(s, 1, i)  b == SubSeq(s, i + 1, n)
<1>1. n \in Nat /\ DOMAIN s = 1..n /\ (\A j \in 1..n : s[j] \in E) /\ i \in Nat /\ i <= n
  BY ToSetIn, ElementOfSeq
<1>2. a \in Seq(E) /\ Len(a) = i /\ \A j \in 1..i : a[j] = s[j]
  <2>1. \A j \in 1..i : s[j] \in E
    BY <1>1
  <2> HIDE DEF n
  <2>2. /\ a \in Seq(E) /\ Len(a) = IF 1 <= i THEN i - 1 + 1 ELSE 0
        /\ \A j \in 1..i-1+1 : a[j] = s[1+j-1]
    BY <2>1, <1>1, SubSeqProperties
  <2>3. \A j \in 1..i : j \in 1..i-1+1 /\ 1+j-1 = j
    BY <1>1
  <2> HIDE DEF a
  <2>4. Len(a) = i
    BY <2>2, <1>1
  <2> QED BY <2>2, <2>3, <2>4
<1>3. b \in Seq(E) /\ Len(b) = n - i /\ \A j \in 1..n-i : b[j] = s[i + j]
  <2>1. \A j \in i+1..n : s[j] \in E
    BY <1>1
  <2> HIDE DEF n
  <2>2. /\ b \in Seq(E) /\ Len(b) = IF i + 1 <= n THEN n - (i + 1) + 1 ELSE 0
        /\ \A j \in 1..n-(i+1)+1 : b[j] = s[(i+1)+j-1]
    BY <2>1, <1>1, SubSeqProperties
  <2>3. \A j \in 1..n-i : j \in 1..n-(i+1)+1 /\ (i+1)+j-1 = i + j
    BY <1>1
  <2> HIDE DEF b
  <2>4. Len(b) = n - i
    BY <2>2, <1>1
  <2> QED BY <2>2, <2>3, <2>4
<1>4. DOMAIN a = 1..i /\ DOMAIN b = 1..n-i
  BY <1>2, <1>3, ToSetIn
<1> HIDE DEF n, a, b
<1>5. \A j \in 1..i : j \in 1..n
  BY <1>1
<1>6. \A j \in 1..n-i : i + j \in 1..n /\ i + j \notin 1..i
  BY <1>1
<1>7. ASSUME NEW j \in 1..n, j \notin 1..i PROVE j - i \in 1..n-i /\ b[j - i] = s[j]
  <2>1. j - i \in 1..n-i /\ i + (j - i) = j
    BY <1>1, <1>7
  <2> QED BY <2>1, <1>3
<1>8. IsInjective(a)
  BY <1>1, <1>2, <1>4, <1>5 DEF IsInjective
<1>9. IsInjective(b)
  <2> SUFFICES ASSUME NEW j \in 1..n-i, NEW k \in 1..n-i, b[j] = b[k] PROVE j = k
    BY <1>4 DEF IsInjective
  <2>1. i + j = i + k
    BY <1>1, <1>3, <1>6 DEF IsInjective
  <2> QED BY <2>1, <1>1
<1>10. ToSet(a) \cap ToSet(b) = {}
  <2> SUFFICES ASSUME NEW j \in 1..i, NEW k \in 1..n-i, a[j] = b[k] PROVE FALSE
    BY <1>4 DEF ToSet
  <2>1. s[j] = s[i + k] /\ j \in 1..n /\ i + k \in 1..n
    BY <1>2, <1>3, <1>5, <1>6
  <2> QED BY <2>1, <1>1, <1>6 DEF IsInjective
<1>11. ToSet(a) \subseteq ToSet(s)
  BY <1>1, <1>2, <1>4, <1>5 DEF ToSet
<1>12. ToSet(b) \subseteq ToSet(s)
  BY <1>1, <1>3, <1>4, <1>6 DEF ToSet
<1>13. ToSet(s) \subseteq ToSet(a) \cup ToSet(b)
  BY <1>1, <1>2, <1>4, <1>7 DEF ToSet
<1> QED BY <1>2, <1>3, <1>8, <1>9, <1>10, <1>11, <1>12, <1>13 DEF a, b, n

(* New members between the two parts of a cut. *)
LEMMA Wedged ==
  ASSUME NEW E, NEW s \in Seq(E), IsInjective(s), NEW i \in 0..Len(s),
         NEW new \in Seq(E), IsInjective(new), ToSet(new) \cap ToSet(s) = {}
  PROVE  LET t == SubSeq(s, 1, i) \o new \o SubSeq(s, i + 1, Len(s))
         IN t \in Seq(E) /\ IsInjective(t) /\ ToSet(t) = ToSet(s) \cup ToSet(new)
<1> DEFINE a == SubSeq(s, 1, i)  b == SubSeq(s, i + 1, Len(s))
<1>1. /\ a \in Seq(E) /\ b \in Seq(E) /\ IsInjective(a) /\ IsInjective(b)
      /\ ToSet(a) \cap ToSet(b) = {} /\ ToSet(a) \cup ToSet(b) = ToSet(s)
  BY Cut
<1> DEFINE c == a \o new  t == c \o b
<1> HIDE DEF a, b
<1>2. c \in Seq(E) /\ IsInjective(c) /\ ToSet(c) = ToSet(a) \cup ToSet(new)
  <2>1. ToSet(a) \cap ToSet(new) = {}
    BY <1>1
  <2> QED BY <1>1, <2>1, Joins
<1> HIDE DEF c
<1>3. t \in Seq(E) /\ IsInjective(t) /\ ToSet(t) = ToSet(c) \cup ToSet(b)
  <2>1. ToSet(c) \cap ToSet(b) = {}
    BY <1>1, <1>2
  <2> QED BY <1>1, <1>2, <2>1, Joins
<1> HIDE DEF t
<1>4. t \in Seq(E) /\ IsInjective(t) /\ ToSet(t) = ToSet(s) \cup ToSet(new)
  BY <1>1, <1>2, <1>3
<1> QED BY <1>4 DEF a, b, c, t

LEMMA Inserted ==
  ASSUME NEW E, NEW s \in Seq(E), IsInjective(s), NEW i \in 1..Len(s)+1,
         NEW x \in E, x \notin ToSet(s)
  PROVE  LET t == InsertAt(s, i, x)
         IN t \in Seq(E) /\ IsInjective(t) /\ ToSet(t) = ToSet(s) \cup {x}
<1>1. i - 1 \in 0..Len(s) /\ (i - 1) + 1 = i
  BY ToSetIn
<1> DEFINE new == <<x>>
           t == SubSeq(s, 1, i - 1) \o new \o SubSeq(s, (i - 1) + 1, Len(s))
<1>2. new \in Seq(E) /\ IsInjective(new) /\ ToSet(new) \cap ToSet(s) = {} /\ ToSet(new) = {x}
  BY Single
<1>3. InsertAt(s, i, x) = t
  BY <1>1 DEF InsertAt
<1> HIDE DEF new
<1>4. t \in Seq(E) /\ IsInjective(t) /\ ToSet(t) = ToSet(s) \cup ToSet(new)
  BY <1>1, <1>2, Wedged
<1> HIDE DEF t
<1> QED BY <1>2, <1>3, <1>4

LEMMA Appended ==
  ASSUME NEW E, NEW s \in Seq(E), IsInjective(s), NEW x \in E, x \notin ToSet(s)
  PROVE  LET t == Append(s, x)
         IN t \in Seq(E) /\ IsInjective(t) /\ ToSet(t) = ToSet(s) \cup {x}
<1> DEFINE new == <<x>>  t == s \o new
<1>1. Append(s, x) = t
  BY AppendIsConcat
<1>2. new \in Seq(E) /\ IsInjective(new) /\ ToSet(s) \cap ToSet(new) = {} /\ ToSet(new) = {x}
  BY Single
<1> HIDE DEF new
<1>3. t \in Seq(E) /\ IsInjective(t) /\ ToSet(t) = ToSet(s) \cup ToSet(new)
  BY <1>2, Joins
<1> HIDE DEF t
<1> QED BY <1>1, <1>2, <1>3

(* Every set of numbers has a least one.  Induction over the positions of a  *)
(* list is the absence of a least position where something fails.            *)
LEMMA Least ==
  ASSUME NEW S \in SUBSET Nat, S # {}
  PROVE  \E m \in S : \A n \in S : m <= n
<1> DEFINE R == {ss \in Nat \X Nat : ss[1] < ss[2]}
<1>1. IsWellFoundedOn(R, Nat)
  BY NatLessThanWellFounded DEF OpToRel
<1> HIDE DEF R
<1>2. PICK m \in S : \A n \in S : ~(<<n, m>> \in R)
  BY <1>1, WFMin
<1>3. ASSUME NEW n \in S PROVE m <= n
  <2>1. <<n, m>> \notin R /\ n \in Nat /\ m \in Nat
    BY <1>2
  <2>2. ~(n < m)
    BY <2>1 DEF R
  <2> QED BY <2>1, <2>2
<1> QED BY <1>3

(* The list up to position i without the members of S, as Dropped builds it. *)
Keeps(s, S, n, f) ==
    f = [i \in 0..n |-> IF i = 0 THEN <<>>
                        ELSE IF s[i] \in S THEN f[i - 1] ELSE Append(f[i - 1], s[i])]

LEMMA KeepsExtends ==
  ASSUME NEW s, NEW S, NEW n \in Nat, NEW f, Keeps(s, S, n, f)
  PROVE  \E g : Keeps(s, S, n + 1, g)
<1> DEFINE g == [i \in 0..n+1 |-> IF i = n + 1
                                  THEN IF s[n + 1] \in S THEN f[n] ELSE Append(f[n], s[n + 1])
                                  ELSE f[i]]
<1>1. ASSUME NEW i \in 0..n+1
      PROVE  g[i] = IF i = 0 THEN <<>>
                    ELSE IF s[i] \in S THEN g[i - 1] ELSE Append(g[i - 1], s[i])
  <2>1. CASE i = n + 1
    <3>1. n \in 0..n+1 /\ n # n + 1 /\ i - 1 = n /\ i # 0
      BY <2>1
    <3>2. g[n] = f[n]
      BY <3>1
    <3>3. g[i] = IF s[n + 1] \in S THEN f[n] ELSE Append(f[n], s[n + 1])
      BY <2>1
    <3> HIDE DEF g
    <3> QED BY <2>1, <3>1, <3>2, <3>3
  <2>2. CASE i # n + 1
    <3>1. i \in 0..n /\ g[i] = f[i]
      BY <2>2
    <3>2. f[i] = IF i = 0 THEN <<>> ELSE IF s[i] \in S THEN f[i - 1] ELSE Append(f[i - 1], s[i])
      BY <3>1 DEF Keeps
    <3>3. i # 0 => g[i - 1] = f[i - 1]
      BY <2>2
    <3> HIDE DEF g
    <3> QED BY <3>1, <3>2, <3>3
  <2> QED BY <2>1, <2>2
<1>2. Keeps(s, S, n + 1, g)
  <2>1. g = [i \in 0..n+1 |-> g[i]]
    OBVIOUS
  <2> HIDE DEF g
  <2> QED BY <1>1, <2>1, Zenon DEF Keeps
<1> QED BY <1>2

LEMMA KeepsExists ==
  ASSUME NEW s, NEW S, NEW n \in Nat
  PROVE  \E f : Keeps(s, S, n, f)
<1> DEFINE Bad == {k \in Nat : ~ \E f : Keeps(s, S, k, f)}
<1>1. SUFFICES ASSUME Bad # {} PROVE FALSE
  OBVIOUS
<1>2. PICK m \in Bad : \A k \in Bad : m <= k
  BY <1>1, Least
<1>3. m # 0
  <2> DEFINE z == [i \in 0..0 |-> <<>>]
  <2>1. Keeps(s, S, 0, z)
    BY DEF Keeps
  <2> QED BY <2>1, <1>2
<1>4. m - 1 \in Nat /\ m - 1 \notin Bad /\ (m - 1) + 1 = m
  BY <1>2, <1>3
<1>5. PICK f : Keeps(s, S, m - 1, f)
  BY <1>4
<1>6. \E g : Keeps(s, S, (m - 1) + 1, g)
  BY <1>4, <1>5, KeepsExtends
<1> QED BY <1>2, <1>4, <1>6

UpTo(s, i) == {s[j] : j \in 1..i}

LEMMA KeepsNice ==
  ASSUME NEW E, NEW s \in Seq(E), IsInjective(s), NEW S, NEW f, Keeps(s, S, Len(s), f),
         NEW i \in 0..Len(s)
  PROVE  /\ f[i] \in Seq(E) /\ IsInjective(f[i])
         /\ ToSet(f[i]) = UpTo(s, i) \ S
<1> DEFINE n == Len(s)
           Nice(k) == /\ f[k] \in Seq(E) /\ IsInjective(f[k])
                      /\ ToSet(f[k]) = UpTo(s, k) \ S
           Bad == {k \in 0..n : ~Nice(k)}
<1>1. n \in Nat /\ DOMAIN s = 1..n /\ \A j \in 1..n : s[j] \in E
  BY ToSetIn, ElementOfSeq
<1>2. SUFFICES ASSUME Bad # {} PROVE FALSE
  OBVIOUS
<1>3. PICK m \in Bad : \A k \in Bad : m <= k
  <2>1. Bad \subseteq Nat
    BY <1>1
  <2> HIDE DEF Bad
  <2> QED BY <2>1, <1>2, Least
<1>4. m # 0
  <2>1. f[0] = <<>>
    BY <1>1 DEF Keeps
  <2>2. UpTo(s, 0) = {}
    BY DEF UpTo
  <2>3. Nice(0)
    BY <2>1, <2>2, EmptyList
  <2> QED BY <2>3, <1>3
<1>5. m - 1 \in 0..n /\ m \in 1..n /\ Nice(m - 1)
  <2> HIDE DEF Nice, n
  <2>1. m - 1 \in 0..n /\ m \in 1..n /\ ~(m <= m - 1)
    BY <1>1, <1>3, <1>4
  <2> QED BY <2>1, <1>3
<1>6. f[m] = IF s[m] \in S THEN f[m - 1] ELSE Append(f[m - 1], s[m])
  BY <1>1, <1>4, <1>5 DEF Keeps
<1>7. UpTo(s, m) = UpTo(s, m - 1) \cup {s[m]}
  BY <1>1, <1>5 DEF UpTo
<1>8. s[m] \in E /\ s[m] \notin UpTo(s, m - 1)
  <2>1. ASSUME NEW j \in 1..m-1 PROVE s[j] # s[m]
    <3>1. j \in 1..n /\ j # m
      BY <1>1, <1>5
    <3> QED BY <3>1, <1>1, <1>5 DEF IsInjective
  <2> QED BY <2>1, <1>1, <1>5 DEF UpTo
<1>9. Nice(m)
  <2>1. CASE s[m] \in S
    BY <2>1, <1>5, <1>6, <1>7
  <2>2. CASE s[m] \notin S
    <3> DEFINE g == f[m - 1]  t == Append(g, s[m])
    <3>1. g \in Seq(E) /\ IsInjective(g) /\ s[m] \notin ToSet(g)
      BY <1>5, <1>8
    <3> HIDE DEF g
    <3>2. t \in Seq(E) /\ IsInjective(t) /\ ToSet(t) = ToSet(g) \cup {s[m]}
      BY <3>1, <1>8, Appended
    <3>3. f[m] = t
      BY <2>2, <1>6 DEF g
    <3> HIDE DEF t
    <3>4. ToSet(t) = UpTo(s, m) \ S
      BY <3>2, <1>5, <1>7, <2>2 DEF g
    <3> QED BY <3>2, <3>3, <3>4
  <2> QED BY <2>1, <2>2
<1> QED BY <1>3, <1>9

LEMMA DroppedList ==
  ASSUME NEW E, NEW s \in Seq(E), IsInjective(s), NEW S
  PROVE  /\ Dropped(s, S) \in Seq(E) /\ IsInjective(Dropped(s, S))
         /\ ToSet(Dropped(s, S)) = ToSet(s) \ S
<1> DEFINE n == Len(s)
           kept == CHOOSE f : f = [i \in 0..n |-> IF i = 0 THEN <<>>
                              ELSE IF s[i] \in S THEN f[i - 1] ELSE Append(f[i - 1], s[i])]
<1>1. n \in Nat /\ DOMAIN s = 1..n /\ n \in 0..n
  BY ToSetIn
<1>2. Keeps(s, S, n, kept)
  <2>1. \E f : Keeps(s, S, n, f)
    BY <1>1, KeepsExists
  <2> QED BY <2>1, Zenon DEF Keeps
<1>3. Dropped(s, S) = kept[n]
  BY DEF Dropped
<1> HIDE DEF kept
<1>4. kept[n] \in Seq(E) /\ IsInjective(kept[n]) /\ ToSet(kept[n]) = UpTo(s, n) \ S
  <2>1. Keeps(s, S, Len(s), kept) /\ n \in 0..Len(s)
    BY <1>1, <1>2
  <2> QED BY <2>1, KeepsNice
<1>5. ToSet(s) = UpTo(s, n)
  BY <1>1 DEF ToSet, UpTo
<1> QED BY <1>3, <1>4, <1>5

-----------------------------------------------------------------------------
(* A list without repetition, and what an edit of it leaves.               *)

Distinct(s) == s \in Seq(ToSet(s)) /\ IsInjective(s)

LEMMA ListOf ==
  ASSUME NEW E, NEW s
  PROVE  s \in Seq(E) /\ IsInjective(s) <=> Distinct(s) /\ ToSet(s) \subseteq E
<1>1. ASSUME s \in Seq(E) PROVE s \in Seq(ToSet(s)) /\ ToSet(s) \subseteq E
  BY <1>1, ToSetIn
<1>2. ASSUME s \in Seq(ToSet(s)), ToSet(s) \subseteq E PROVE s \in Seq(E)
  BY <1>2, SeqMonotonic
<1> QED BY <1>1, <1>2 DEF Distinct

LEMMA ListFacts ==
  ASSUME NEW s, Distinct(s)
  PROVE  /\ DOMAIN s = 1..Len(s) /\ Len(s) \in Nat
         /\ \A x : Contains(s, x) <=> x \in ToSet(s)
         /\ s # <<>> <=> ToSet(s) # {}
BY ToSetIn DEF Distinct

LEMMA ListEmpty == Distinct(<<>>) /\ ToSet(<<>>) = {} /\ Len(<<>>) = 0
BY EmptyList DEF Distinct

LEMMA ListSingle ==
  ASSUME NEW x
  PROVE  Distinct(<<x>>) /\ ToSet(<<x>>) = {x} /\ Len(<<x>>) = 1 /\ <<x>> # <<>>
<1> DEFINE s == <<x>>
<1>1. s \in Seq({x}) /\ IsInjective(s) /\ ToSet(s) = {x} /\ Len(s) = 1
  BY Single
<1> QED BY <1>1, ListOf

LEMMA ListAppend ==
  ASSUME NEW s, Distinct(s), NEW x, x \notin ToSet(s)
  PROVE  Distinct(Append(s, x)) /\ ToSet(Append(s, x)) = ToSet(s) \cup {x}
<1> DEFINE E == ToSet(s) \cup {x}  t == Append(s, x)
<1>1. s \in Seq(E) /\ IsInjective(s) /\ x \in E
  BY ListOf
<1> HIDE DEF E
<1>2. t \in Seq(E) /\ IsInjective(t) /\ ToSet(t) = ToSet(s) \cup {x}
  BY <1>1, Appended
<1> HIDE DEF t
<1>3. Distinct(t)
  BY <1>2, ListOf
<1> QED BY <1>2, <1>3 DEF t

LEMMA ListInsert ==
  ASSUME NEW s, Distinct(s), NEW x, x \notin ToSet(s), NEW i \in 1..Len(s)+1
  PROVE  Distinct(InsertAt(s, i, x)) /\ ToSet(InsertAt(s, i, x)) = ToSet(s) \cup {x}
<1> DEFINE E == ToSet(s) \cup {x}  t == InsertAt(s, i, x)
<1>1. s \in Seq(E) /\ IsInjective(s) /\ x \in E
  BY ListOf
<1> HIDE DEF E
<1>2. t \in Seq(E) /\ IsInjective(t) /\ ToSet(t) = ToSet(s) \cup {x}
  BY <1>1, Inserted
<1> HIDE DEF t
<1>3. Distinct(t)
  BY <1>2, ListOf
<1> QED BY <1>2, <1>3 DEF t

LEMMA ListWedge ==
  ASSUME NEW s, Distinct(s), NEW new, Distinct(new), ToSet(new) \cap ToSet(s) = {}, NEW i \in 0..Len(s)
  PROVE  LET t == SubSeq(s, 1, i) \o new \o SubSeq(s, i + 1, Len(s))
         IN Distinct(t) /\ ToSet(t) = ToSet(s) \cup ToSet(new)
<1> DEFINE E == ToSet(s) \cup ToSet(new)
           t == SubSeq(s, 1, i) \o new \o SubSeq(s, i + 1, Len(s))
<1>1. s \in Seq(E) /\ IsInjective(s) /\ new \in Seq(E) /\ IsInjective(new)
  BY ListOf
<1> HIDE DEF E
<1>2. t \in Seq(E) /\ IsInjective(t) /\ ToSet(t) = ToSet(s) \cup ToSet(new)
  BY <1>1, Wedged
<1> HIDE DEF t
<1>3. Distinct(t)
  BY <1>2, ListOf
<1> QED BY <1>2, <1>3 DEF t

LEMMA ListDropped ==
  ASSUME NEW s, Distinct(s), NEW S
  PROVE  Distinct(Dropped(s, S)) /\ ToSet(Dropped(s, S)) = ToSet(s) \ S
<1> DEFINE E == ToSet(s)
<1>1. s \in Seq(E) /\ IsInjective(s)
  BY DEF Distinct
<1>2. /\ Dropped(s, S) \in Seq(E) /\ IsInjective(Dropped(s, S))
      /\ ToSet(Dropped(s, S)) = E \ S
  BY <1>1, DroppedList
<1> QED BY <1>2, ListOf

(* A list is as long as it has members.                                      *)
LEMMA ListLength ==
  ASSUME NEW s, Distinct(s)
  PROVE  IsFiniteSet(ToSet(s)) /\ Cardinality(ToSet(s)) = Len(s)
<1> DEFINE n == Len(s)  S == ToSet(s)
<1>1. n \in Nat /\ DOMAIN s = 1..n /\ S = {s[i] : i \in 1..n}
  BY ListFacts DEF ToSet
<1>2. s \in [1..n -> S] /\ (\A x \in S : \E i \in 1..n : s[i] = x)
      /\ \A i, j \in 1..n : s[i] = s[j] => i = j
  <2>1. s = [i \in 1..n |-> s[i]]
    BY <1>1 DEF Distinct
  <2>2. \A i \in 1..n : s[i] \in S
    BY <1>1
  <2>3. \A i, j \in 1..n : s[i] = s[j] => i = j
    BY <1>1 DEF Distinct, IsInjective
  <2>4. \A x \in S : \E i \in 1..n : s[i] = x
    BY <1>1
  <2> HIDE DEF n, S
  <2> QED BY <2>1, <2>2, <2>3, <2>4
<1> HIDE DEF n, S
<1>3. s \in Bijection(1..n, S)
  BY <1>2 DEF Bijection, Injection, Surjection, IsInjective
<1>4. ExistsBijection(1..n, S)
  BY <1>3 DEF ExistsBijection
<1>5. IsFiniteSet(1..n) /\ Cardinality(1..n) = n
  BY <1>1, FS_Interval
<1>6. IsFiniteSet(S) /\ Cardinality(S) = Cardinality(1..n)
  BY <1>4, <1>5, FS_Bijection
<1> QED BY <1>5, <1>6 DEF n, S

LEMMA DroppedLength ==
  ASSUME NEW s, Distinct(s), NEW x
  PROVE  Len(Dropped(s, {x})) = IF x \in ToSet(s) THEN Len(s) - 1 ELSE Len(s)
<1> DEFINE d == Dropped(s, {x})  S == ToSet(s)
<1>1. Distinct(d) /\ ToSet(d) = S \ {x}
  BY ListDropped
<1> HIDE DEF d
<1>2. Cardinality(ToSet(d)) = Len(d) /\ IsFiniteSet(S) /\ Cardinality(S) = Len(s)
  BY <1>1, ListLength
<1>3. Cardinality(S \ {x}) = IF x \in S THEN Cardinality(S) - 1 ELSE Cardinality(S)
  BY <1>2, FS_RemoveElement
<1> QED BY <1>1, <1>2, <1>3 DEF d

-----------------------------------------------------------------------------
(* Partitions: what an edit of the lists leaves.                            *)

LEMMA PartitionLists ==
  ASSUME NEW f, NEW E
  PROVE  Partition(f, E) <=>
           /\ \A x \in DOMAIN f : Distinct(f[x]) /\ ToSet(f[x]) \subseteq E
           /\ \A e \in E : \E x \in DOMAIN f : e \in ToSet(f[x])
           /\ \A x, y \in DOMAIN f : x # y => ToSet(f[x]) \cap ToSet(f[y]) = {}
<1>1. \A x \in DOMAIN f : f[x] \in Seq(E) /\ IsInjective(f[x])
                            <=> Distinct(f[x]) /\ ToSet(f[x]) \subseteq E
  BY ListOf
<1> QED BY <1>1, Zenon DEF Partition

LEMMA PartitionAdd ==
  ASSUME NEW f, NEW E, Partition(f, E), NEW x, x \notin DOMAIN f,
         NEW s, Distinct(s), ToSet(s) \cap E = {}
  PROVE  Partition(With(f, x, s), E \cup ToSet(s))
<1> DEFINE g == With(f, x, s)
<1>1. DOMAIN g = DOMAIN f \cup {x} /\ g[x] = s /\ \A y \in DOMAIN f : g[y] = f[y]
  BY DEF With
<1> HIDE DEF g
<1>2. Partition(g, E \cup ToSet(s))
  BY <1>1, PartitionLists
<1> QED BY <1>2 DEF g

LEMMA PartitionPut ==
  ASSUME NEW f, NEW E, Partition(f, E), NEW x \in DOMAIN f,
         NEW s, Distinct(s), ToSet(s) \cap E \subseteq ToSet(f[x])
  PROVE  Partition([f EXCEPT ![x] = s], (E \ ToSet(f[x])) \cup ToSet(s))
<1> DEFINE g == [f EXCEPT ![x] = s]
           F == (E \ ToSet(f[x])) \cup ToSet(s)
<1>1. DOMAIN g = DOMAIN f /\ g[x] = s /\ \A y \in DOMAIN f : y # x => g[y] = f[y]
  OBVIOUS
<1> HIDE DEF g
<1>2. \A y \in DOMAIN f : Distinct(g[y]) /\ ToSet(g[y]) \subseteq F
  BY <1>1, PartitionLists
<1>3. \A e \in F : \E y \in DOMAIN g : e \in ToSet(g[y])
  BY <1>1, PartitionLists
<1>4. \A y, z \in DOMAIN g : y # z => ToSet(g[y]) \cap ToSet(g[z]) = {}
  BY <1>1, PartitionLists
<1>5. Partition(g, F)
  BY <1>1, <1>2, <1>3, <1>4, PartitionLists
<1> QED BY <1>5 DEF g

Dropping(f, S) == [x \in DOMAIN f |-> Dropped(f[x], S)]

LEMMA PartitionDrop ==
  ASSUME NEW f, NEW E, Partition(f, E), NEW S
  PROVE  /\ Partition(Dropping(f, S), E \ S) /\ DOMAIN Dropping(f, S) = DOMAIN f
         /\ \A x \in DOMAIN f : /\ Dropping(f, S)[x] = Dropped(f[x], S)
                               /\ Distinct(Dropping(f, S)[x])
                               /\ ToSet(Dropping(f, S)[x]) = ToSet(f[x]) \ S
<1> DEFINE g == Dropping(f, S)
<1>1. DOMAIN g = DOMAIN f /\ \A x \in DOMAIN f : g[x] = Dropped(f[x], S)
  BY DEF Dropping
<1> HIDE DEF g
<1>2. \A x \in DOMAIN f : Distinct(g[x]) /\ ToSet(g[x]) = ToSet(f[x]) \ S
  BY <1>1, PartitionLists, ListDropped
<1>3. Partition(g, E \ S)
  BY <1>1, <1>2, PartitionLists
<1> QED BY <1>1, <1>2, <1>3 DEF g

LEMMA PartitionWithout ==
  ASSUME NEW f, NEW E, Partition(f, E), NEW X, X \subseteq DOMAIN f
  PROVE  Partition(Without(f, X), E \ UNION {ToSet(f[x]) : x \in X})
<1> DEFINE g == Without(f, X)
           F == E \ UNION {ToSet(f[x]) : x \in X}
<1>1. DOMAIN g = DOMAIN f \ X /\ \A x \in DOMAIN f \ X : g[x] = f[x]
  BY DEF Without, Restrict
<1> HIDE DEF g
<1>2. \A e : e \in F <=> e \in E /\ \A x \in X : e \notin ToSet(f[x])
  OBVIOUS
<1> HIDE DEF F
<1>3. Partition(g, F)
  BY <1>1, <1>2, PartitionLists
<1> QED BY <1>3 DEF g, F

(* Which list holds a member.                                               *)
HomeIn(f, e) == CHOOSE x \in DOMAIN f : Contains(f[x], e)

LEMMA PartitionHome ==
  ASSUME NEW f, NEW E, Partition(f, E), NEW e
  PROVE  /\ e \in E => HomeIn(f, e) \in DOMAIN f /\ e \in ToSet(f[HomeIn(f, e)])
         /\ \A x \in DOMAIN f : e \in ToSet(f[x]) => e \in E /\ x = HomeIn(f, e)
<1>1. \A x \in DOMAIN f : Contains(f[x], e) <=> e \in ToSet(f[x])
  BY PartitionLists, ListFacts
<1>2. ASSUME NEW x \in DOMAIN f, e \in ToSet(f[x])
      PROVE  HomeIn(f, e) \in DOMAIN f /\ e \in ToSet(f[HomeIn(f, e)])
  <2>1. HomeIn(f, e) \in DOMAIN f /\ Contains(f[HomeIn(f, e)], e)
    BY <1>1, <1>2 DEF HomeIn
  <2> QED BY <2>1, <1>1
<1>3. e \in E => HomeIn(f, e) \in DOMAIN f /\ e \in ToSet(f[HomeIn(f, e)])
  BY <1>2, PartitionLists
<1>4. \A x \in DOMAIN f : e \in ToSet(f[x]) => e \in E /\ x = HomeIn(f, e)
  BY <1>2, PartitionLists
<1> QED BY <1>3, <1>4

-----------------------------------------------------------------------------
(* A whole structure, and the edits of it that leave it whole.              *)

Fields(g) == g = [sessions |-> g.sessions, workspaces |-> g.workspaces, tabs |-> g.tabs,
                  layout |-> g.layout, attachments |-> g.attachments]

Fun(f) == f = [x \in DOMAIN f |-> f[x]]

GoodLayout(l) ==
    /\ l = [panes |-> l.panes, zoomed |-> l.zoomed]
    /\ Distinct(l.panes) /\ l.panes # <<>> /\ ValidZoom(l)

Whole(g, P) ==
    /\ Fields(g)
    /\ Fun(g.workspaces) /\ Fun(g.tabs) /\ Fun(g.layout) /\ Fun(g.attachments)
    /\ Distinct(g.sessions) /\ ToSet(g.sessions) = DOMAIN g.workspaces
    /\ Partition(g.workspaces, DOMAIN g.tabs)
    /\ Partition(g.tabs, DOMAIN g.layout)
    /\ Partition(PaneLists(g.layout), P)
    /\ \A t \in DOMAIN g.layout : GoodLayout(g.layout[t])
    /\ \A a \in DOMAIN g.attachments : g.attachments[a] \in DOMAIN g.workspaces

LEMMA PaneListsIs ==
  ASSUME NEW l
  PROVE  DOMAIN PaneLists(l) = DOMAIN l /\ \A t \in DOMAIN l : PaneLists(l)[t] = l[t].panes
BY DEF PaneLists

LEMMA WholeIs ==
  ASSUME NEW g, NEW P
  PROVE  Whole(g, P) <=> IsHierarchy(g) /\ Sound(g, P)
<1>1. g.sessions \in Seq(DOMAIN g.workspaces) /\ IsInjective(g.sessions)
        <=> Distinct(g.sessions) /\ ToSet(g.sessions) \subseteq DOMAIN g.workspaces
  BY ListOf
<1>2. ASSUME Partition(PaneLists(g.layout), P)
      PROVE  \A t \in DOMAIN g.layout : Distinct(g.layout[t].panes)
  BY <1>2, PaneListsIs, PartitionLists
<1>3. Fun(g.layout) /\ (\A t \in DOMAIN g.layout :
                          g.layout[t] = [panes |-> g.layout[t].panes, zoomed |-> g.layout[t].zoomed])
        <=> g.layout = [t \in DOMAIN g.layout |->
                          [panes |-> g.layout[t].panes, zoomed |-> g.layout[t].zoomed]]
  BY DEF Fun
<1> QED BY <1>1, <1>2, <1>3 DEF Whole, IsHierarchy, Sound, Fields, Fun, GoodLayout

(* The session a pane is in.                                                *)
Sits(g, p, s) ==
    \E w \in DOMAIN g.tabs, t \in DOMAIN g.layout :
        /\ s \in DOMAIN g.workspaces /\ w \in ToSet(g.workspaces[s])
        /\ t \in ToSet(g.tabs[w]) /\ p \in ToSet(g.layout[t].panes)

LEMMA Houses ==
  ASSUME NEW g, NEW P, Whole(g, P)
  PROVE  /\ \A w \in DOMAIN g.tabs :
              SessionOf(g, w) \in DOMAIN g.workspaces /\ w \in ToSet(g.workspaces[SessionOf(g, w)])
         /\ \A s \in DOMAIN g.workspaces : \A w \in ToSet(g.workspaces[s]) :
              w \in DOMAIN g.tabs /\ s = SessionOf(g, w)
         /\ \A t \in DOMAIN g.layout :
              WorkspaceOf(g, t) \in DOMAIN g.tabs /\ t \in ToSet(g.tabs[WorkspaceOf(g, t)])
         /\ \A w \in DOMAIN g.tabs : \A t \in ToSet(g.tabs[w]) :
              t \in DOMAIN g.layout /\ w = WorkspaceOf(g, t)
         /\ \A p \in P : TabOf(g, p) \in DOMAIN g.layout /\ p \in ToSet(g.layout[TabOf(g, p)].panes)
         /\ \A t \in DOMAIN g.layout : \A p \in ToSet(g.layout[t].panes) :
              p \in P /\ t = TabOf(g, p)
<1>1. Partition(g.workspaces, DOMAIN g.tabs) /\ Partition(g.tabs, DOMAIN g.layout)
      /\ Partition(PaneLists(g.layout), P)
  BY DEF Whole
<1>2. /\ \A w : SessionOf(g, w) = HomeIn(g.workspaces, w)
      /\ \A t : WorkspaceOf(g, t) = HomeIn(g.tabs, t)
      /\ \A p : TabOf(g, p) = HomeIn(PaneLists(g.layout), p)
  BY PaneListsIs DEF SessionOf, WorkspaceOf, TabOf, HomeIn
<1>3. ASSUME NEW w \in DOMAIN g.tabs
      PROVE  SessionOf(g, w) \in DOMAIN g.workspaces /\ w \in ToSet(g.workspaces[SessionOf(g, w)])
  BY <1>1, <1>2, PartitionHome
<1>4. ASSUME NEW s \in DOMAIN g.workspaces, NEW w \in ToSet(g.workspaces[s])
      PROVE  w \in DOMAIN g.tabs /\ s = SessionOf(g, w)
  BY <1>1, <1>2, PartitionHome
<1>5. ASSUME NEW t \in DOMAIN g.layout
      PROVE  WorkspaceOf(g, t) \in DOMAIN g.tabs /\ t \in ToSet(g.tabs[WorkspaceOf(g, t)])
  BY <1>1, <1>2, PartitionHome
<1>6. ASSUME NEW w \in DOMAIN g.tabs, NEW t \in ToSet(g.tabs[w])
      PROVE  t \in DOMAIN g.layout /\ w = WorkspaceOf(g, t)
  BY <1>1, <1>2, PartitionHome
<1>7. ASSUME NEW p \in P
      PROVE  TabOf(g, p) \in DOMAIN g.layout /\ p \in ToSet(g.layout[TabOf(g, p)].panes)
  BY <1>1, <1>2, PartitionHome, PaneListsIs
<1>8. ASSUME NEW t \in DOMAIN g.layout, NEW p \in ToSet(g.layout[t].panes)
      PROVE  p \in P /\ t = TabOf(g, p)
  BY <1>1, <1>2, PartitionHome, PaneListsIs
<1> QED BY <1>3, <1>4, <1>5, <1>6, <1>7, <1>8

LEMMA SitsIs ==
  ASSUME NEW g, NEW P, Whole(g, P), NEW p \in P, NEW s
  PROVE  Sits(g, p, s) <=> s = SessionOfPane(g, p)
BY Houses DEF Sits, SessionOfPane, SessionOfTab

(* The panes of a tab are in its session. *)
LEMMA TabSits ==
  ASSUME NEW g, NEW P, Whole(g, P), NEW t \in DOMAIN g.layout
  PROVE  \A p \in ToSet(g.layout[t].panes) : p \in P /\ t = TabOf(g, p) /\ Sits(g, p, SessionOfTab(g, t))
<1>1. \A p \in ToSet(g.layout[t].panes) : p \in P /\ t = TabOf(g, p)
  BY Houses
<1> QED BY <1>1, SitsIs DEF SessionOfPane

(* Panes that stay in their session. *)
Stays(g, n, P) == \A p \in P : \A s : Sits(g, p, s) => Sits(n, p, s)

LEMMA SessionPut ==
  ASSUME NEW g, NEW P, Whole(g, P), NEW n, Fields(n), NEW s, s \notin DOMAIN g.workspaces,
         NEW l, Distinct(l), ToSet(l) = ToSet(g.sessions) \cup {s}, NEW e, Distinct(e), ToSet(e) = {},
         n.sessions = l, n.workspaces = With(g.workspaces, s, e),
         n.tabs = g.tabs, n.layout = g.layout, n.attachments = g.attachments
  PROVE  Whole(n, P) /\ Stays(g, n, P)
<1>1. /\ DOMAIN n.workspaces = DOMAIN g.workspaces \cup {s}
      /\ \A r \in DOMAIN g.workspaces : n.workspaces[r] = g.workspaces[r]
      /\ Fun(n.workspaces)
  BY DEF With, Fun
<1>2. Distinct(n.sessions) /\ ToSet(n.sessions) = DOMAIN n.workspaces
  BY <1>1 DEF Whole
<1>3. Partition(n.workspaces, DOMAIN n.tabs)
  <2>1. Partition(With(g.workspaces, s, e), DOMAIN g.tabs \cup ToSet(e))
    BY PartitionAdd DEF Whole
  <2> QED BY <2>1
<1>4. Whole(n, P)
  BY <1>1, <1>2, <1>3 DEF Whole
<1>5. Stays(g, n, P)
  BY <1>1 DEF Stays, Sits
<1> QED BY <1>4, <1>5

LEMMA WorkspacePut ==
  ASSUME NEW g, NEW P, Whole(g, P), NEW n, Fields(n), NEW w, w \notin DOMAIN g.tabs,
         NEW s \in DOMAIN g.workspaces,
         NEW l, Distinct(l), ToSet(l) = ToSet(g.workspaces[s]) \cup {w}, NEW e, Distinct(e), ToSet(e) = {},
         n.workspaces = [g.workspaces EXCEPT ![s] = l], n.tabs = With(g.tabs, w, e),
         n.sessions = g.sessions, n.layout = g.layout, n.attachments = g.attachments
  PROVE  Whole(n, P) /\ Stays(g, n, P)
<1>1. ToSet(g.workspaces[s]) \subseteq DOMAIN g.tabs
  BY PartitionLists DEF Whole
<1>2. /\ DOMAIN n.workspaces = DOMAIN g.workspaces
      /\ n.workspaces[s] = l
      /\ \A r \in DOMAIN g.workspaces : r # s => n.workspaces[r] = g.workspaces[r]
      /\ Fun(n.workspaces)
  BY DEF Fun
<1>3. /\ DOMAIN n.tabs = DOMAIN g.tabs \cup {w} /\ Fun(n.tabs)
      /\ \A v \in DOMAIN g.tabs : n.tabs[v] = g.tabs[v]
  BY DEF With, Fun
<1>4. Partition(n.workspaces, DOMAIN n.tabs)
  <2>1. ToSet(l) \cap DOMAIN g.tabs \subseteq ToSet(g.workspaces[s])
    BY <1>1
  <2>2. Partition(n.workspaces, (DOMAIN g.tabs \ ToSet(g.workspaces[s])) \cup ToSet(l))
    BY <1>1, <1>2, <2>1, PartitionPut DEF Whole
  <2>3. (DOMAIN g.tabs \ ToSet(g.workspaces[s])) \cup ToSet(l) = DOMAIN n.tabs
    BY <1>1, <1>3
  <2> QED BY <2>2, <2>3
<1>5. Partition(n.tabs, DOMAIN n.layout)
  <2>1. Partition(With(g.tabs, w, e), DOMAIN g.layout \cup ToSet(e))
    BY PartitionAdd DEF Whole
  <2> QED BY <2>1
<1>6. Whole(n, P)
  BY <1>2, <1>3, <1>4, <1>5 DEF Whole
<1>7. Stays(g, n, P)
  BY <1>1, <1>2, <1>3 DEF Stays, Sits
<1> QED BY <1>6, <1>7

LEMMA TabPut ==
  ASSUME NEW g, NEW P, Whole(g, P), NEW n, Fields(n), NEW t, t \notin DOMAIN g.layout,
         NEW w \in DOMAIN g.tabs, NEW l, Distinct(l), ToSet(l) = ToSet(g.tabs[w]) \cup {t},
         NEW layout, GoodLayout(layout), ToSet(layout.panes) \cap P = {},
         n.tabs = [g.tabs EXCEPT ![w] = l], n.layout = With(g.layout, t, layout),
         n.sessions = g.sessions, n.workspaces = g.workspaces, n.attachments = g.attachments
  PROVE  /\ Whole(n, P \cup ToSet(layout.panes)) /\ Stays(g, n, P)
         /\ \A p \in ToSet(layout.panes) : Sits(n, p, SessionOf(g, w))
<1>1. /\ DOMAIN n.tabs = DOMAIN g.tabs /\ Fun(n.tabs) /\ n.tabs[w] = l
      /\ \A v \in DOMAIN g.tabs : v # w => n.tabs[v] = g.tabs[v]
  BY DEF Fun
<1>2. /\ DOMAIN n.layout = DOMAIN g.layout \cup {t} /\ Fun(n.layout) /\ n.layout[t] = layout
      /\ \A u \in DOMAIN g.layout : n.layout[u] = g.layout[u]
  BY DEF With, Fun
<1>3. ToSet(g.tabs[w]) \subseteq DOMAIN g.layout
  BY PartitionLists DEF Whole
<1>4. Partition(n.tabs, DOMAIN n.layout)
  <2>1. ToSet(l) \cap DOMAIN g.layout \subseteq ToSet(g.tabs[w])
    OBVIOUS
  <2>2. Partition(n.tabs, (DOMAIN g.layout \ ToSet(g.tabs[w])) \cup ToSet(l))
    BY <2>1, PartitionPut DEF Whole
  <2>3. (DOMAIN g.layout \ ToSet(g.tabs[w])) \cup ToSet(l) = DOMAIN n.layout
    BY <1>2, <1>3
  <2> QED BY <2>2, <2>3
<1>5. Partition(PaneLists(n.layout), P \cup ToSet(layout.panes))
  <2>1. PaneLists(n.layout) = With(PaneLists(g.layout), t, layout.panes)
    BY <1>2 DEF PaneLists, With
  <2>2. Distinct(layout.panes) /\ t \notin DOMAIN PaneLists(g.layout)
    BY PaneListsIs DEF GoodLayout
  <2> QED BY <2>1, <2>2, PartitionAdd DEF Whole
<1>6. Whole(n, P \cup ToSet(layout.panes))
  BY <1>1, <1>2, <1>4, <1>5 DEF Whole
<1>7. Stays(g, n, P)
  <2>1. \A v \in DOMAIN g.tabs : v \in DOMAIN n.tabs /\ ToSet(g.tabs[v]) \subseteq ToSet(n.tabs[v])
    BY <1>1
  <2>2. \A u \in DOMAIN g.layout : u \in DOMAIN n.layout /\ n.layout[u] = g.layout[u]
    BY <1>2
  <2> QED BY <2>1, <2>2 DEF Stays, Sits
<1>8. \A p \in ToSet(layout.panes) : Sits(n, p, SessionOf(g, w))
  <2>1. SessionOf(g, w) \in DOMAIN g.workspaces /\ w \in ToSet(g.workspaces[SessionOf(g, w)])
    BY Houses
  <2> QED BY <2>1, <1>1, <1>2 DEF Sits
<1> QED BY <1>6, <1>7, <1>8

LEMMA LayoutPut ==
  ASSUME NEW g, NEW P, Whole(g, P), NEW n, Fields(n), NEW t \in DOMAIN g.layout,
         NEW layout, GoodLayout(layout), ToSet(layout.panes) \cap P \subseteq ToSet(g.layout[t].panes),
         n.layout = [g.layout EXCEPT ![t] = layout],
         n.sessions = g.sessions, n.workspaces = g.workspaces, n.tabs = g.tabs,
         n.attachments = g.attachments
  PROVE  /\ Whole(n, (P \ ToSet(g.layout[t].panes)) \cup ToSet(layout.panes))
         /\ Stays(g, n, (P \ ToSet(g.layout[t].panes)) \cup ToSet(layout.panes))
         /\ \A p \in ToSet(layout.panes) : Sits(n, p, SessionOfTab(g, t))
<1> DEFINE Q == (P \ ToSet(g.layout[t].panes)) \cup ToSet(layout.panes)
<1>1. /\ DOMAIN n.layout = DOMAIN g.layout /\ Fun(n.layout) /\ n.layout[t] = layout
      /\ \A u \in DOMAIN g.layout : u # t => n.layout[u] = g.layout[u]
  BY DEF Fun
<1>2. Partition(PaneLists(n.layout), Q)
  <2>1. PaneLists(n.layout) = [PaneLists(g.layout) EXCEPT ![t] = layout.panes]
    BY <1>1 DEF PaneLists
  <2>2. Distinct(layout.panes) /\ t \in DOMAIN PaneLists(g.layout) /\ PaneLists(g.layout)[t] = g.layout[t].panes
    BY PaneListsIs DEF GoodLayout
  <2>3. Partition(PaneLists(g.layout), P)
    BY DEF Whole
  <2> HIDE DEF Q
  <2>4. Partition(PaneLists(n.layout), (P \ ToSet(PaneLists(g.layout)[t])) \cup ToSet(layout.panes))
    BY <2>1, <2>2, <2>3, PartitionPut
  <2> QED BY <2>2, <2>4 DEF Q
<1>3. Whole(n, Q)
  BY <1>1, <1>2 DEF Whole
<1>4. \A u \in DOMAIN g.layout : \A p \in ToSet(g.layout[u].panes) \cap Q : p \in ToSet(n.layout[u].panes)
  <2> SUFFICES ASSUME NEW u \in DOMAIN g.layout, NEW p \in ToSet(g.layout[u].panes), p \in Q
               PROVE  p \in ToSet(n.layout[u].panes)
    OBVIOUS
  <2>1. p \in P /\ u = TabOf(g, p)
    BY Houses
  <2>2. CASE p \in ToSet(layout.panes)
    BY <2>1, <2>2, <1>1, Houses
  <2>3. CASE p \notin ToSet(layout.panes)
    BY <2>3, <1>1
  <2> QED BY <2>2, <2>3
<1>5. Stays(g, n, Q)
  BY <1>1, <1>4 DEF Stays, Sits
<1>6. \A p \in ToSet(layout.panes) : Sits(n, p, SessionOfTab(g, t))
  BY <1>1, Houses DEF Sits, SessionOfTab
<1> QED BY <1>3, <1>5, <1>6

LEMMA UnorderedIs ==
  ASSUME NEW g, NEW P, Whole(g, P), NEW t
  PROVE  /\ Fields(Unordered(g, t))
         /\ Unordered(g, t).tabs = Dropping(g.tabs, {t})
         /\ Unordered(g, t).sessions = g.sessions /\ Unordered(g, t).workspaces = g.workspaces
         /\ Unordered(g, t).layout = g.layout /\ Unordered(g, t).attachments = g.attachments
BY DEF Whole, Fields, Unordered, Dropping

(* A tab taken out of its list and put into a place of another or of the same. *)
MoveFields(g, n) ==
    /\ n.layout = g.layout /\ n.workspaces = g.workspaces /\ n.attachments = g.attachments
    /\ DOMAIN n.tabs = DOMAIN g.tabs

(* A place of a list, or the one after its last. *)
Room(l, i) == i \in 1..Len(l) + 1

LEMMA TabMove ==
  ASSUME NEW g, NEW P, Whole(g, P), NEW t \in DOMAIN g.layout, NEW w \in DOMAIN g.tabs,
         NEW i, Room(Dropped(g.tabs[w], {t}), i),
         NEW n, n = Ordered(Unordered(g, t), w, i, t)
  PROVE  /\ Whole(n, P) /\ Stays(g, n, P \ ToSet(g.layout[t].panes))
         /\ \A p \in ToSet(g.layout[t].panes) : Sits(n, p, SessionOf(g, w))
         /\ MoveFields(g, n)
<1> DEFINE u == Unordered(g, t)
           l == InsertAt(u.tabs[w], i, t)
<1>1. /\ Fields(u) /\ u.tabs = Dropping(g.tabs, {t})
      /\ u.sessions = g.sessions /\ u.workspaces = g.workspaces
      /\ u.layout = g.layout /\ u.attachments = g.attachments
  BY UnorderedIs
<1>2. /\ Partition(u.tabs, DOMAIN g.layout \ {t}) /\ DOMAIN u.tabs = DOMAIN g.tabs
      /\ \A v \in DOMAIN g.tabs : /\ Distinct(u.tabs[v]) /\ u.tabs[v] = Dropped(g.tabs[v], {t})
                                  /\ ToSet(u.tabs[v]) = ToSet(g.tabs[v]) \ {t}
  <2>1. Partition(g.tabs, DOMAIN g.layout)
    BY DEF Whole
  <2> DEFINE f == g.tabs  d == Dropping(f, {t})
  <2> HIDE DEF u, f
  <2>2. /\ Partition(d, DOMAIN g.layout \ {t}) /\ DOMAIN d = DOMAIN f
        /\ \A v \in DOMAIN f : /\ Distinct(d[v]) /\ d[v] = Dropped(f[v], {t})
                               /\ ToSet(d[v]) = ToSet(f[v]) \ {t}
    BY <2>1, PartitionDrop DEF f
  <2> HIDE DEF d
  <2> QED BY <1>1, <2>2 DEF d, f
<1>3. Partition(u.tabs, DOMAIN g.layout \ {t})
  BY <1>2
<1>4. Distinct(l) /\ ToSet(l) = ToSet(u.tabs[w]) \cup {t}
  <2>1. i \in 1..Len(u.tabs[w]) + 1 /\ t \notin ToSet(u.tabs[w]) /\ Distinct(u.tabs[w])
    BY <1>2 DEF Room
  <2> HIDE DEF u
  <2> QED BY <2>1, ListInsert
<1>5. /\ Fields(n) /\ n.sessions = g.sessions /\ n.workspaces = g.workspaces
      /\ n.layout = g.layout /\ n.attachments = g.attachments
      /\ n.tabs = [u.tabs EXCEPT ![w] = l]
  <2>1. Fields(u)
    BY <1>1
  <2> HIDE DEF u
  <2>2. /\ Fields(Ordered(u, w, i, t))
        /\ Ordered(u, w, i, t).tabs = [u.tabs EXCEPT ![w] = InsertAt(u.tabs[w], i, t)]
        /\ Ordered(u, w, i, t).sessions = u.sessions /\ Ordered(u, w, i, t).workspaces = u.workspaces
        /\ Ordered(u, w, i, t).layout = u.layout /\ Ordered(u, w, i, t).attachments = u.attachments
    BY <2>1 DEF Ordered, Fields
  <2>3. n = Ordered(u, w, i, t)
    BY DEF u
  <2> QED BY <1>1, <2>2, <2>3
<1> HIDE DEF u, l
<1>6. /\ DOMAIN n.tabs = DOMAIN g.tabs /\ Fun(n.tabs) /\ n.tabs[w] = l
      /\ \A v \in DOMAIN g.tabs : v # w => n.tabs[v] = u.tabs[v]
  BY <1>2, <1>5 DEF Fun
<1>7. Partition(n.tabs, DOMAIN n.layout)
  <2>1. ToSet(u.tabs[w]) \subseteq DOMAIN g.layout \ {t}
    BY <1>2, PartitionLists
  <2>2. ToSet(l) \cap (DOMAIN g.layout \ {t}) \subseteq ToSet(u.tabs[w]) /\ w \in DOMAIN u.tabs
    BY <1>2, <1>4
  <2>3. Partition(n.tabs, ((DOMAIN g.layout \ {t}) \ ToSet(u.tabs[w])) \cup ToSet(l))
    BY <1>3, <1>4, <1>5, <2>2, PartitionPut
  <2>4. ((DOMAIN g.layout \ {t}) \ ToSet(u.tabs[w])) \cup ToSet(l) = DOMAIN n.layout
    BY <1>4, <1>5, <2>1
  <2> QED BY <2>3, <2>4
<1>8. Whole(n, P)
  BY <1>5, <1>6, <1>7 DEF Whole
<1>9. Stays(g, n, P \ ToSet(g.layout[t].panes))
  <2>1. \A v \in DOMAIN g.tabs : ToSet(g.tabs[v]) \ {t} \subseteq ToSet(n.tabs[v])
    BY <1>2, <1>4, <1>6
  <2> QED BY <2>1, <1>5, <1>6 DEF Stays, Sits
<1>10. \A p \in ToSet(g.layout[t].panes) : Sits(n, p, SessionOf(g, w))
  <2>1. SessionOf(g, w) \in DOMAIN g.workspaces /\ w \in ToSet(g.workspaces[SessionOf(g, w)])
    BY Houses
  <2> QED BY <2>1, <1>4, <1>5, <1>6 DEF Sits
<1> QED BY <1>5, <1>6, <1>8, <1>9, <1>10 DEF MoveFields

(* A workspace taken out of its session and put into a list of another or of *)
(* the same.                                                                 *)
LEMMA WorkspaceMove ==
  ASSUME NEW g, NEW P, Whole(g, P), NEW w \in DOMAIN g.tabs, NEW s \in DOMAIN g.workspaces,
         NEW n, Fields(n), Fun(n.workspaces), DOMAIN n.workspaces = DOMAIN g.workspaces,
         \A r \in DOMAIN g.workspaces :
            /\ Distinct(n.workspaces[r])
            /\ ToSet(n.workspaces[r]) = IF r = s THEN ToSet(g.workspaces[r]) \cup {w}
                                                 ELSE ToSet(g.workspaces[r]) \ {w},
         n.sessions = g.sessions, n.tabs = g.tabs, n.layout = g.layout, n.attachments = g.attachments
  PROVE  /\ Whole(n, P) /\ Stays(g, n, P \ PanesIn(g, ToSet(g.tabs[w])))
         /\ \A p \in PanesIn(g, ToSet(g.tabs[w])) : Sits(n, p, s)
<1>1. Partition(n.workspaces, DOMAIN n.tabs)
  <2>1. Partition(g.workspaces, DOMAIN g.tabs)
    BY DEF Whole
  <2>0. /\ \A r \in DOMAIN g.workspaces : ToSet(g.workspaces[r]) \subseteq DOMAIN g.tabs
        /\ \A e \in DOMAIN g.tabs : \E r \in DOMAIN g.workspaces : e \in ToSet(g.workspaces[r])
        /\ \A q, r \in DOMAIN g.workspaces : q # r => ToSet(g.workspaces[q]) \cap ToSet(g.workspaces[r]) = {}
    BY <2>1, PartitionLists
  <2>2. \A r \in DOMAIN n.workspaces : Distinct(n.workspaces[r]) /\ ToSet(n.workspaces[r]) \subseteq DOMAIN n.tabs
    <3> SUFFICES ASSUME NEW r \in DOMAIN g.workspaces
                 PROVE  Distinct(n.workspaces[r]) /\ ToSet(n.workspaces[r]) \subseteq DOMAIN g.tabs
      OBVIOUS
    <3>1. ToSet(n.workspaces[r]) \subseteq ToSet(g.workspaces[r]) \cup {w}
      OBVIOUS
    <3> QED BY <3>1, <2>0
  <2>3. \A e \in DOMAIN n.tabs : \E r \in DOMAIN n.workspaces : e \in ToSet(n.workspaces[r])
    <3> SUFFICES ASSUME NEW e \in DOMAIN g.tabs
                 PROVE  \E r \in DOMAIN g.workspaces : e \in ToSet(n.workspaces[r])
      OBVIOUS
    <3>1. CASE e = w
      BY <3>1
    <3>2. CASE e # w
      BY <3>2, <2>0
    <3> QED BY <3>1, <3>2
  <2>4. \A q, r \in DOMAIN n.workspaces : q # r => ToSet(n.workspaces[q]) \cap ToSet(n.workspaces[r]) = {}
    <3> SUFFICES ASSUME NEW q \in DOMAIN g.workspaces, NEW r \in DOMAIN g.workspaces, q # r
                 PROVE  ToSet(n.workspaces[q]) \cap ToSet(n.workspaces[r]) = {}
      OBVIOUS
    <3>1. ToSet(g.workspaces[q]) \cap ToSet(g.workspaces[r]) = {}
      BY <2>0
    <3> QED BY <3>1
  <2> QED BY <2>2, <2>3, <2>4, PartitionLists
<1>2. Whole(n, P)
  BY <1>1 DEF Whole
<1>3. Stays(g, n, P \ PanesIn(g, ToSet(g.tabs[w])))
  <2>1. \A r \in DOMAIN g.workspaces : ToSet(g.workspaces[r]) \ {w} \subseteq ToSet(n.workspaces[r])
    OBVIOUS
  <2> QED BY <2>1 DEF Stays, Sits, PanesIn
<1>4. \A p \in PanesIn(g, ToSet(g.tabs[w])) : Sits(n, p, s)
  <2>1. ToSet(g.tabs[w]) \subseteq DOMAIN g.layout
    BY PartitionLists DEF Whole
  <2>2. w \in ToSet(n.workspaces[s])
    OBVIOUS
  <2> QED BY <2>1, <2>2 DEF PanesIn, Sits
<1> QED BY <1>2, <1>3, <1>4

LEMMA PanesInIs ==
  ASSUME NEW g, NEW T, NEW p
  PROVE  p \in PanesIn(g, T) <=> \E t \in T : p \in ToSet(g.layout[t].panes)
BY DEF PanesIn

LEMMA TabsInIs ==
  ASSUME NEW g, NEW W, NEW t
  PROVE  t \in TabsIn(g, W) <=> \E w \in W : t \in ToSet(g.tabs[w])
BY DEF TabsIn

(* The layouts without those of some tabs. *)
LEMMA LayoutsLeft ==
  ASSUME NEW g, NEW P, Whole(g, P), NEW T, T \subseteq DOMAIN g.layout
  PROVE  LET l == Without(g.layout, T)
         IN /\ Fun(l) /\ DOMAIN l = DOMAIN g.layout \ T /\ \A t \in DOMAIN l : l[t] = g.layout[t]
            /\ Partition(PaneLists(l), P \ PanesIn(g, T))
<1> DEFINE l == Without(g.layout, T)
<1>1. Fun(l) /\ DOMAIN l = DOMAIN g.layout \ T /\ \A t \in DOMAIN l : l[t] = g.layout[t]
  BY DEF Without, Restrict, Fun
<1> DEFINE f == PaneLists(g.layout)
<1>2. Partition(f, P) /\ T \subseteq DOMAIN f /\ \A t \in T : f[t] = g.layout[t].panes
  BY PaneListsIs DEF Whole
<1>3. PaneLists(l) = Without(f, T)
  BY <1>1, PaneListsIs DEF PaneLists, Without, Restrict
<1>4. UNION {ToSet(f[t]) : t \in T} = PanesIn(g, T)
  BY <1>2 DEF PanesIn
<1> HIDE DEF f
<1>5. Partition(Without(f, T), P \ UNION {ToSet(f[t]) : t \in T})
  BY <1>2, PartitionWithout
<1> QED BY <1>1, <1>3, <1>4, <1>5

LEMMA TabsLeave ==
  ASSUME NEW g, NEW P, Whole(g, P), NEW T, T \subseteq DOMAIN g.layout
  PROVE  LET n == WithoutTabs(g, T)
         IN /\ Whole(n, P \ PanesIn(g, T)) /\ Stays(g, n, P \ PanesIn(g, T))
            /\ n.workspaces = g.workspaces /\ n.attachments = g.attachments
            /\ DOMAIN n.tabs = DOMAIN g.tabs /\ DOMAIN n.layout = DOMAIN g.layout \ T
            /\ \A w \in DOMAIN g.tabs : ToSet(n.tabs[w]) = ToSet(g.tabs[w]) \ T
            /\ \A t \in DOMAIN g.layout \ T : n.layout[t] = g.layout[t]
<1> DEFINE n == WithoutTabs(g, T)
<1>1. /\ Fields(n) /\ n.tabs = Dropping(g.tabs, T) /\ n.layout = Without(g.layout, T)
      /\ n.sessions = g.sessions /\ n.workspaces = g.workspaces /\ n.attachments = g.attachments
  <2> DEFINE d == Dropping(g.tabs, T)  l == Without(g.layout, T)
  <2>1. n = [g EXCEPT !.tabs = d, !.layout = l]
    BY DEF WithoutTabs, Dropping
  <2>2. Fields(g)
    BY DEF Whole
  <2> HIDE DEF n, d, l
  <2>3. /\ Fields(n) /\ n.tabs = d /\ n.layout = l
        /\ n.sessions = g.sessions /\ n.workspaces = g.workspaces /\ n.attachments = g.attachments
    BY <2>1, <2>2 DEF Fields
  <2> QED BY <2>3 DEF d, l
<1> HIDE DEF n
<1> DEFINE f == g.tabs  d == Dropping(f, T)
<1>2. /\ Partition(d, DOMAIN g.layout \ T) /\ DOMAIN d = DOMAIN f
      /\ \A w \in DOMAIN f : ToSet(d[w]) = ToSet(f[w]) \ T
  <2>1. Partition(f, DOMAIN g.layout)
    BY DEF Whole
  <2> HIDE DEF f
  <2> QED BY <2>1, PartitionDrop
<1> HIDE DEF d
<1>3. n.tabs = d
  BY <1>1 DEF d
<1>4. Fun(n.tabs)
  BY <1>1 DEF Dropping, Fun
<1>5. /\ Fun(n.layout) /\ DOMAIN n.layout = DOMAIN g.layout \ T
      /\ \A t \in DOMAIN n.layout : n.layout[t] = g.layout[t]
      /\ Partition(PaneLists(n.layout), P \ PanesIn(g, T))
  <2> DEFINE l == Without(g.layout, T)
  <2>1. /\ Fun(l) /\ DOMAIN l = DOMAIN g.layout \ T /\ \A t \in DOMAIN l : l[t] = g.layout[t]
        /\ Partition(PaneLists(l), P \ PanesIn(g, T))
    BY LayoutsLeft
  <2>2. n.layout = l
    BY <1>1
  <2> HIDE DEF l
  <2> QED BY <2>1, <2>2
<1>6. Whole(n, P \ PanesIn(g, T))
  BY <1>1, <1>2, <1>3, <1>4, <1>5 DEF Whole
<1>7. Stays(g, n, P \ PanesIn(g, T))
  BY <1>1, <1>2, <1>3, <1>5 DEF Stays, Sits, PanesIn
<1> QED BY <1>1, <1>2, <1>3, <1>5, <1>6, <1>7 DEF n

LEMMA WorkspacesLeave ==
  ASSUME NEW g, NEW P, Whole(g, P), NEW W, W \subseteq DOMAIN g.tabs
  PROVE  LET n == WithoutWorkspaces(g, W)
         IN /\ Whole(n, P \ PanesIn(g, TabsIn(g, W)))
            /\ Stays(g, n, P \ PanesIn(g, TabsIn(g, W)))
            /\ n.sessions = g.sessions /\ n.attachments = g.attachments
            /\ DOMAIN n.workspaces = DOMAIN g.workspaces
            /\ \A s \in DOMAIN g.workspaces : ToSet(n.workspaces[s]) = ToSet(g.workspaces[s]) \ W
<1> DEFINE n == WithoutWorkspaces(g, W)  T == TabsIn(g, W)
<1>1. /\ Fields(n) /\ n.workspaces = Dropping(g.workspaces, W) /\ n.tabs = Without(g.tabs, W)
      /\ n.layout = Without(g.layout, T)
      /\ n.sessions = g.sessions /\ n.attachments = g.attachments
  <2> DEFINE d == Dropping(g.workspaces, W)  k == Without(g.tabs, W)  l == Without(g.layout, T)
  <2>1. n = [g EXCEPT !.workspaces = d, !.tabs = k, !.layout = l]
    BY DEF WithoutWorkspaces, Dropping
  <2>2. Fields(g)
    BY DEF Whole
  <2> HIDE DEF n, d, k, l
  <2>3. /\ Fields(n) /\ n.workspaces = d /\ n.tabs = k /\ n.layout = l
        /\ n.sessions = g.sessions /\ n.attachments = g.attachments
    BY <2>1, <2>2 DEF Fields
  <2> QED BY <2>3 DEF d, k, l
<1>2. T \subseteq DOMAIN g.layout /\ T = UNION {ToSet(g.tabs[w]) : w \in W}
  BY PartitionLists DEF Whole, TabsIn
<1> HIDE DEF n, T
<1> DEFINE f == g.workspaces  d == Dropping(f, W)
<1>3. /\ Partition(d, DOMAIN g.tabs \ W) /\ DOMAIN d = DOMAIN f
      /\ \A s \in DOMAIN f : ToSet(d[s]) = ToSet(f[s]) \ W
  <2>1. Partition(f, DOMAIN g.tabs)
    BY DEF Whole
  <2> HIDE DEF f
  <2> QED BY <2>1, PartitionDrop
<1> HIDE DEF d
<1>4. n.workspaces = d /\ Fun(n.workspaces)
  BY <1>1 DEF d, Dropping, Fun
<1>5. Fun(n.tabs) /\ DOMAIN n.tabs = DOMAIN g.tabs \ W /\ \A w \in DOMAIN n.tabs : n.tabs[w] = g.tabs[w]
  BY <1>1 DEF Without, Restrict, Fun
<1>6. /\ Fun(n.layout) /\ DOMAIN n.layout = DOMAIN g.layout \ T
      /\ \A t \in DOMAIN n.layout : n.layout[t] = g.layout[t]
      /\ Partition(PaneLists(n.layout), P \ PanesIn(g, T))
  <2> DEFINE l == Without(g.layout, T)
  <2>0. T \subseteq DOMAIN g.layout
    BY <1>2
  <2>1. /\ Fun(l) /\ DOMAIN l = DOMAIN g.layout \ T /\ \A t \in DOMAIN l : l[t] = g.layout[t]
        /\ Partition(PaneLists(l), P \ PanesIn(g, T))
    BY <2>0, LayoutsLeft
  <2>2. n.layout = l
    BY <1>1
  <2> HIDE DEF l
  <2> QED BY <2>1, <2>2
<1>7. Partition(n.tabs, DOMAIN n.layout)
  <2>1. Partition(g.tabs, DOMAIN g.layout)
    BY DEF Whole
  <2>2. Partition(Without(g.tabs, W), DOMAIN g.layout \ UNION {ToSet(g.tabs[w]) : w \in W})
    BY <2>1, PartitionWithout
  <2> QED BY <2>2, <1>1, <1>2, <1>6
<1>8. Whole(n, P \ PanesIn(g, T))
  BY <1>1, <1>3, <1>4, <1>5, <1>6, <1>7 DEF Whole
<1>9. Stays(g, n, P \ PanesIn(g, T))
  <2> SUFFICES ASSUME NEW p, p \notin PanesIn(g, T), NEW s, Sits(g, p, s) PROVE Sits(n, p, s)
    BY DEF Stays
  <2>1. PICK w \in DOMAIN g.tabs, t \in DOMAIN g.layout :
          /\ s \in DOMAIN g.workspaces /\ w \in ToSet(g.workspaces[s])
          /\ t \in ToSet(g.tabs[w]) /\ p \in ToSet(g.layout[t].panes)
    BY DEF Sits
  <2>2. t \notin T
    BY <2>1, PanesInIs
  <2>3. w \notin W
    BY <2>1, <2>2 DEF T, TabsIn
  <2> QED BY <2>1, <2>2, <2>3, <1>3, <1>4, <1>5, <1>6 DEF Sits
<1> QED BY <1>1, <1>3, <1>4, <1>8, <1>9 DEF n, T

LEMMA SessionLeaves ==
  ASSUME NEW g, NEW P, Whole(g, P), NEW s \in DOMAIN g.workspaces
  PROVE  LET n == WithoutSession(g, s)
             T == TabsIn(g, ToSet(g.workspaces[s]))
         IN /\ Whole(n, P \ PanesIn(g, T)) /\ Stays(g, n, P \ PanesIn(g, T))
            /\ DOMAIN n.attachments = {a \in DOMAIN g.attachments : g.attachments[a] # s}
            /\ \A a \in DOMAIN n.attachments : n.attachments[a] = g.attachments[a]
<1> DEFINE W == ToSet(g.workspaces[s])
           m == WithoutWorkspaces(g, W)
           n == WithoutSession(g, s)
           Q == P \ PanesIn(g, TabsIn(g, W))
<1>1. W \subseteq DOMAIN g.tabs
  BY PartitionLists DEF Whole
<1>2. /\ Whole(m, Q) /\ Stays(g, m, Q)
      /\ m.sessions = g.sessions /\ m.attachments = g.attachments
      /\ DOMAIN m.workspaces = DOMAIN g.workspaces
      /\ \A r \in DOMAIN g.workspaces : ToSet(m.workspaces[r]) = ToSet(g.workspaces[r]) \ W
  BY <1>1, WorkspacesLeave
<1>3. n = [m EXCEPT !.sessions = Dropped(@, {s}),
                    !.workspaces = Without(@, {s}),
                    !.attachments = Restrict(@, {a \in DOMAIN @ : @[a] # s})]
  BY DEF WithoutSession
<1> HIDE DEF m, n, Q
<1>4. /\ Fields(n) /\ n.sessions = Dropped(m.sessions, {s}) /\ n.workspaces = Without(m.workspaces, {s})
      /\ n.tabs = m.tabs /\ n.layout = m.layout
      /\ n.attachments = Restrict(m.attachments, {a \in DOMAIN m.attachments : m.attachments[a] # s})
  BY <1>2, <1>3 DEF Whole, Fields
<1>5. Distinct(n.sessions) /\ ToSet(n.sessions) = DOMAIN g.workspaces \ {s}
  BY <1>2, <1>4, ListDropped DEF Whole
<1>6. /\ Fun(n.workspaces) /\ DOMAIN n.workspaces = DOMAIN g.workspaces \ {s}
      /\ \A r \in DOMAIN n.workspaces : n.workspaces[r] = m.workspaces[r]
  BY <1>2, <1>4 DEF Without, Restrict, Fun
<1>7. Partition(n.workspaces, DOMAIN n.tabs)
  <2>1. Partition(m.workspaces, DOMAIN m.tabs) /\ {s} \subseteq DOMAIN m.workspaces
    BY <1>2 DEF Whole
  <2>2. Partition(Without(m.workspaces, {s}), DOMAIN m.tabs \ UNION {ToSet(m.workspaces[r]) : r \in {s}})
    BY <2>1, PartitionWithout
  <2>3. UNION {ToSet(m.workspaces[r]) : r \in {s}} = {}
    BY <1>2
  <2> QED BY <2>2, <2>3, <1>4
<1>8. /\ Fun(n.attachments) /\ DOMAIN n.attachments = {a \in DOMAIN g.attachments : g.attachments[a] # s}
      /\ \A a \in DOMAIN n.attachments : n.attachments[a] = g.attachments[a]
  BY <1>2, <1>4 DEF Restrict, Fun
<1>9. Whole(n, Q)
  BY <1>2, <1>4, <1>5, <1>6, <1>7, <1>8 DEF Whole
<1>10. Stays(g, n, Q)
  <2> SUFFICES ASSUME NEW p \in Q, NEW r, Sits(g, p, r) PROVE Sits(n, p, r)
    BY DEF Stays
  <2>1. Sits(m, p, r)
    BY <1>2 DEF Stays
  <2>2. r # s
    BY <2>1, <1>2 DEF Sits
  <2> QED BY <2>1, <2>2, <1>2, <1>4, <1>6 DEF Sits
<1> QED BY <1>8, <1>9, <1>10 DEF n, Q

LEMMA AttachmentsChange ==
  ASSUME NEW g, NEW P, Whole(g, P), NEW n, Fields(n), Fun(n.attachments),
         \A a \in DOMAIN n.attachments : n.attachments[a] \in DOMAIN g.workspaces,
         n.sessions = g.sessions, n.workspaces = g.workspaces, n.tabs = g.tabs, n.layout = g.layout
  PROVE  Whole(n, P) /\ Stays(g, n, P)
BY DEF Whole, Stays, Sits

LEMMA NothingLeft == Whole(EmptyHierarchy, {})
<1> DEFINE e == <<>>  n == EmptyHierarchy
<1>1. Distinct(e) /\ ToSet(e) = {} /\ DOMAIN e = {} /\ Fun(e)
  BY ListEmpty DEF Fun
<1>2. Fields(n) /\ n.sessions = e /\ n.workspaces = e /\ n.tabs = e /\ n.layout = e /\ n.attachments = e
  BY DEF Fields, EmptyHierarchy
<1> HIDE DEF e, n
<1>3. \A f : DOMAIN f = {} => Partition(f, {})
  BY PartitionLists
<1>4. DOMAIN PaneLists(e) = {}
  BY <1>1 DEF PaneLists
<1> QED BY <1>1, <1>2, <1>3, <1>4 DEF Whole, n

(* A tab whose panes stay is in the session it was in. *)
LEMMA TabStays ==
  ASSUME NEW g, NEW P, Whole(g, P), NEW n, NEW Q, Whole(n, Q), Stays(g, n, Q),
         NEW t \in DOMAIN g.layout, t \in DOMAIN n.layout,
         \E p \in ToSet(g.layout[t].panes) : p \in ToSet(n.layout[t].panes)
  PROVE  SessionOfTab(n, t) = SessionOfTab(g, t)
<1>1. PICK p \in ToSet(g.layout[t].panes) : p \in ToSet(n.layout[t].panes)
  OBVIOUS
<1>2. Sits(g, p, SessionOfTab(g, t))
  BY TabSits
<1>3. p \in Q /\ t = TabOf(n, p)
  BY <1>1, TabSits
<1>4. Sits(n, p, SessionOfTab(g, t))
  BY <1>2, <1>3 DEF Stays
<1> QED BY <1>3, <1>4, SitsIs DEF SessionOfPane

(* Panes taken out of a structure and put into a layout that is still there. *)
LEMMA Gathered ==
  ASSUME NEW g, NEW P, Whole(g, P), NEW M, M \subseteq P,
         NEW k, Whole(k, P \ M), Stays(g, k, P \ M),
         NEW t \in DOMAIN k.layout, t \in DOMAIN g.layout, k.layout[t] = g.layout[t],
         NEW layout, GoodLayout(layout), ToSet(layout.panes) = ToSet(g.layout[t].panes) \cup M,
         NEW n, Fields(n), n.layout = [k.layout EXCEPT ![t] = layout],
         n.sessions = k.sessions, n.workspaces = k.workspaces, n.tabs = k.tabs,
         n.attachments = k.attachments
  PROVE  /\ Whole(n, P) /\ Stays(g, n, P \ M) /\ DOMAIN n.layout = DOMAIN k.layout
         /\ \A p \in M : Sits(n, p, SessionOfTab(g, t))
<1> DEFINE R == P \ M  T == ToSet(g.layout[t].panes)  L == ToSet(layout.panes)
           Q == (R \ T) \cup L
<1>1. T \subseteq R
  BY TabSits
<1>2. L \cap R \subseteq ToSet(k.layout[t].panes) /\ ToSet(k.layout[t].panes) = T /\ Q = P
  BY <1>1
<1>3. /\ Whole(n, (R \ ToSet(k.layout[t].panes)) \cup L)
      /\ Stays(k, n, (R \ ToSet(k.layout[t].panes)) \cup L)
      /\ \A p \in L : Sits(n, p, SessionOfTab(k, t))
  <2> HIDE DEF R
  <2> QED BY <1>2, LayoutPut DEF R
<1>4. Whole(n, P) /\ Stays(k, n, P)
  BY <1>2, <1>3
<1>5. SessionOfTab(k, t) = SessionOfTab(g, t)
  <2>1. \E p \in T : p \in ToSet(k.layout[t].panes)
    BY <1>2, ListFacts DEF Whole, GoodLayout
  <2> QED BY <2>1, TabStays
<1>6. Stays(g, n, P \ M)
  BY <1>4 DEF Stays
<1> QED BY <1>3, <1>4, <1>5, <1>6

-----------------------------------------------------------------------------
(* Places in a list.                                                       *)

LEMMA IndexIs ==
  ASSUME NEW s, Distinct(s), NEW x \in ToSet(s)
  PROVE  Index(s, x) \in 1..Len(s) /\ s[Index(s, x)] = x
<1>1. DOMAIN s = 1..Len(s) /\ \E i \in DOMAIN s : s[i] = x
  BY ListFacts DEF ToSet
<1> QED BY <1>1 DEF Index

LEMMA PlaceIs ==
  ASSUME NEW s, Distinct(s), NEW before \in Anchors(s)
  PROVE  Place(s, before) \in 1..Len(s)+1
<1>1. Len(s) \in Nat
  BY ListFacts
<1>2. CASE before = None
  BY <1>1, <1>2 DEF Place
<1>3. CASE before # None
  <2>1. before \in ToSet(s)
    BY <1>3 DEF Anchors
  <2>2. Index(s, before) \in 1..Len(s)
    BY <2>1, IndexIs
  <2> QED BY <2>2, <1>1, <1>3 DEF Place
<1> QED BY <1>2, <1>3

(* The place of a member that is first taken out of the list.              *)
LEMMA PlaceAmong ==
  ASSUME NEW s, Distinct(s), NEW before \in Anchors(s), NEW x
  PROVE  LET i == Place(s, before)
         IN (IF x \in ToSet(s) /\ Index(s, x) < i THEN i - 1 ELSE i) \in 1..Len(Dropped(s, {x}))+1
<1> DEFINE i == Place(s, before)  n == Len(s)  m == Len(Dropped(s, {x}))
<1>1. n \in Nat /\ i \in 1..n+1 /\ m = IF x \in ToSet(s) THEN n - 1 ELSE n
  BY ListFacts, PlaceIs, DroppedLength
<1>2. x \in ToSet(s) => Index(s, x) \in 1..n
  BY IndexIs
<1> HIDE DEF i, n, m
<1>3. (IF x \in ToSet(s) /\ Index(s, x) < i THEN i - 1 ELSE i) \in 1..m+1
  BY <1>1, <1>2
<1> QED BY <1>3 DEF i, m

-----------------------------------------------------------------------------
(* Layouts.                                                                *)

LEMMA SingleLayout ==
  ASSUME NEW p
  PROVE  LET l == [panes |-> <<p>>, zoomed |-> None]
         IN GoodLayout(l) /\ ToSet(l.panes) = {p}
<1> DEFINE s == <<p>>  l == [panes |-> s, zoomed |-> None]
<1>1. Distinct(s) /\ ToSet(s) = {p} /\ s # <<>>
  BY ListSingle
<1> HIDE DEF s
<1>2. GoodLayout(l) /\ ToSet(l.panes) = {p}
  BY <1>1 DEF GoodLayout, ValidZoom
<1> QED BY <1>2 DEF s

LEMMA BesideIs ==
  ASSUME NEW l, Distinct(l.panes), NEW p \in ToSet(l.panes), NEW side \in {0, 1},
         NEW new, Distinct(new), ToSet(new) \cap ToSet(l.panes) = {}
  PROVE  /\ GoodLayout(Beside(l, p, side, new))
         /\ ToSet(Beside(l, p, side, new).panes) = ToSet(l.panes) \cup ToSet(new)
<1> DEFINE s == l.panes
           i == Index(s, p) + side - 1
           t == SubSeq(s, 1, i) \o new \o SubSeq(s, i + 1, Len(s))
           b == [panes |-> t, zoomed |-> None]
<1>1. Beside(l, p, side, new) = b
  BY DEF Beside
<1>2. i \in 0..Len(s)
  <2>1. Index(s, p) \in 1..Len(s) /\ Len(s) \in Nat
    BY IndexIs, ListFacts
  <2> QED BY <2>1
<1> HIDE DEF i
<1>3. Distinct(t) /\ ToSet(t) = ToSet(s) \cup ToSet(new)
  BY <1>2, ListWedge
<1> HIDE DEF t
<1>4. t # <<>>
  BY <1>3, ListFacts
<1>5. GoodLayout(b) /\ ToSet(b.panes) = ToSet(s) \cup ToSet(new)
  BY <1>3, <1>4 DEF GoodLayout, ValidZoom
<1> QED BY <1>1, <1>5

(* A zoom that is kept only while it is valid.                             *)
LEMMA KeptZoomIs ==
  ASSUME NEW s, Distinct(s), s # <<>>, NEW z
  PROVE  LET l == [panes |-> s, zoomed |-> KeptZoom(s, z)]
         IN GoodLayout(l) /\ l.panes = s
BY DEF KeptZoom, GoodLayout, ValidZoom

LEMMA RemainingIs ==
  ASSUME NEW t, NEW p, Distinct(h.layout[t].panes)
  PROVE  /\ Distinct(Remaining(t, p).panes)
         /\ ToSet(Remaining(t, p).panes) = ToSet(h.layout[t].panes) \ {p}
         /\ Remaining(t, p).panes # <<>> => GoodLayout(Remaining(t, p))
         /\ Remaining(t, p).panes = <<>> <=> ToSet(h.layout[t].panes) \subseteq {p}
<1> DEFINE s == Dropped(h.layout[t].panes, {p})
           r == [panes |-> s, zoomed |-> KeptZoom(s, h.layout[t].zoomed)]
<1>1. Remaining(t, p) = r
  BY DEF Remaining
<1>2. Distinct(s) /\ ToSet(s) = ToSet(h.layout[t].panes) \ {p} /\ (s # <<>> <=> ToSet(s) # {})
  BY ListDropped, ListFacts
<1> HIDE DEF s
<1>3. s # <<>> => GoodLayout(r)
  BY <1>2, KeptZoomIs
<1> QED BY <1>1, <1>2, <1>3

-----------------------------------------------------------------------------
(* The inductive invariant of the structure: it is whole, its identities are *)
(* among those handed out, every viewer is in the session of its attachment, *)
(* and each history entry can be restored one place at a time.               *)

Numbered(g, P, k) ==
    /\ k \in Nat /\ P \subseteq 1..k
    /\ DOMAIN g.workspaces \subseteq 1..k /\ DOMAIN g.tabs \subseteq 1..k
    /\ DOMAIN g.layout \subseteq 1..k /\ DOMAIN g.attachments \subseteq 1..k

Watches(g, P, V) ==
    /\ V \subseteq (DOMAIN g.attachments) \X P
    /\ \A v \in V : Sits(g, v[2], g.attachments[v[1]])

(* The recorded tabs on one side of an entry. *)
Recorded(side, T) ==
    /\ DOMAIN side \subseteq T
    /\ \A t \in DOMAIN side : GoodLayout(side[t].layout) /\ side[t].index \in Nat \ {0}
    /\ \A t, u \in DOMAIN side :
         t # u => ToSet(side[t].layout.panes) \cap ToSet(side[u].layout.panes) = {}

(* The tabs that are opened or placed on the way to a side. *)
Comes(from, to, placed) == {t \in DOMAIN to : t \notin DOMAIN from \/ t \in placed}

Entry(c, k) ==
    /\ Distinct(c.tabs) /\ ToSet(c.tabs) \subseteq 1..k
    /\ Recorded(c.before, ToSet(c.tabs)) /\ Recorded(c.after, ToSet(c.tabs))
    /\ \A t, u \in Comes(c.before, c.after, c.placed) : t = u
    /\ \A t, u \in Comes(c.after, c.before, c.placed) : t = u

Entries(past, k) ==
    /\ past = [undo |-> past.undo, redo |-> past.redo]
    /\ Entry(past.undo, k) /\ Entry(past.redo, k)

(* A list of anything, and the envelopes its events are sent in. *)
Listed(s) == s \in Seq(ToSet(s))
Envelopes(events, k) == [i \in DOMAIN events |-> [seq |-> k + i, event |-> events[i]]]

(* A subscription holds a list of events, no more than its capacity. *)
Feed(q) ==
    /\ q = [open |-> q.open, events |-> q.events, lagged |-> q.lagged, wake |-> q.wake]
    /\ q.open \in BOOLEAN /\ q.lagged \in BOOLEAN /\ q.wake \in BOOLEAN
    /\ Listed(q.events) /\ Len(q.events) <= Capacity

Counts == seq \in Nat /\ left \in Nat /\ revision \in Nat /\ Feed(queue)

MuxInv ==
    /\ Whole(h, terminals) /\ Numbered(h, terminals, next)
    /\ Watches(h, terminals, viewers)
    /\ Entries(history, next)
    /\ Counts

(* What a close request and its effect are read from stays as it is. *)
SameScope ==
    /\ h'.workspaces = h.workspaces /\ h'.attachments = h.attachments
    /\ DOMAIN h'.tabs = DOMAIN h.tabs /\ \A w \in DOMAIN h.tabs : ToSet(h'.tabs[w]) = ToSet(h.tabs[w])
    /\ DOMAIN h'.layout = DOMAIN h.layout /\ terminals' = terminals
    /\ \A t \in DOMAIN h.layout : ToSet(h'.layout[t].panes) = ToSet(h.layout[t].panes)

(* The revision advances, or nothing changed that a close is about. *)
Accounted == revision' = revision + 1 \/ (revision' = revision /\ SameScope)

LEMMA EntriesGrow ==
  ASSUME NEW past, NEW k \in Nat, NEW j \in Nat, k <= j, Entries(past, k)
  PROVE  Entries(past, j)
<1>1. 1..k \subseteq 1..j
  OBVIOUS
<1> QED BY <1>1 DEF Entries, Entry

LEMMA NoEntry == \A k : Entry(NoChange, k)
<1> DEFINE e == <<>>
<1>1. Distinct(e) /\ ToSet(e) = {} /\ DOMAIN e = {}
  BY ListEmpty
<1>2. NoChange.tabs = e /\ NoChange.before = e /\ NoChange.after = e
  BY DEF NoChange
<1> HIDE DEF e
<1> QED BY <1>1, <1>2 DEF Entry, Recorded, Comes

LEMMA ListedIs ==
  /\ \A s : Listed(s) => Len(s) \in Nat /\ DOMAIN s = 1..Len(s)
  /\ \A n \in Nat : \A s : DOMAIN s = 1..n /\ s = [i \in 1..n |-> s[i]] => Listed(s) /\ Len(s) = n
<1>1. ASSUME NEW s, Listed(s) PROVE Len(s) \in Nat /\ DOMAIN s = 1..Len(s)
  BY <1>1, LenProperties DEF Listed
<1>2. ASSUME NEW n \in Nat, NEW s, DOMAIN s = 1..n, s = [i \in 1..n |-> s[i]]
      PROVE  Listed(s) /\ Len(s) = n
  <2>1. \A i \in 1..n : s[i] \in ToSet(s)
    BY <1>2 DEF ToSet
  <2>2. s \in Seq(ToSet(s))
    BY <2>1, <1>2, IsASeq
  <2> QED BY <2>2, <1>2, LenProperties DEF Listed
<1> QED BY <1>1, <1>2

LEMMA ListedSingle == \A e : Listed(<<e>>) /\ Len(<<e>>) = 1
BY DEF Listed, ToSet

LEMMA ListedNone == Listed(<<>>) /\ Len(<<>>) = 0
BY DEF Listed, ToSet

LEMMA ListedJoin ==
  ASSUME NEW s, NEW t, Listed(s), Listed(t)
  PROVE  /\ Listed(s \o t) /\ Len(s \o t) = Len(s) + Len(t)
         /\ \A i \in 1..Len(s) : (s \o t)[i] = s[i]
         /\ \A i \in 1..Len(t) : (s \o t)[Len(s) + i] = t[i]
<1> DEFINE E == ToSet(s) \cup ToSet(t)  n == Len(s)  m == Len(t)  u == s \o t
<1>1. s \in Seq(E) /\ t \in Seq(E) /\ n \in Nat /\ m \in Nat
  <2>1. ToSet(s) \subseteq E /\ ToSet(t) \subseteq E
    OBVIOUS
  <2> HIDE DEF E
  <2>2. n \in Nat /\ m \in Nat
    BY ListedIs
  <2> HIDE DEF E, n, m
  <2>3. s \in Seq(E)
    BY <2>1, SeqMonotonic DEF Listed
  <2>4. t \in Seq(E)
    BY <2>1, SeqMonotonic DEF Listed
  <2> QED BY <2>2, <2>3, <2>4
<1> HIDE DEF E
<1>2. u \in Seq(E) /\ Len(u) = n + m /\ \A i \in 1..n+m : u[i] = IF i <= n THEN s[i] ELSE t[i - n]
  BY <1>1, ConcatProperties
<1> HIDE DEF u, n, m
<1>3. DOMAIN u = 1..n+m /\ u = [i \in 1..n+m |-> u[i]]
  BY <1>1, <1>2, LenProperties
<1>4. Listed(u)
  <2> DEFINE k == n + m
  <2>1. k \in Nat /\ DOMAIN u = 1..k /\ u = [i \in 1..k |-> u[i]]
    BY <1>1, <1>3
  <2> HIDE DEF k
  <2> QED BY <2>1, ListedIs
<1>5. \A i \in 1..n : i \in 1..n+m /\ i <= n
  BY <1>1
<1>6. \A i \in 1..m : n + i \in 1..n+m /\ ~(n + i <= n) /\ (n + i) - n = i
  BY <1>1
<1> QED BY <1>2, <1>4, <1>5, <1>6 DEF u, n, m

LEMMA FeedEmits ==
  ASSUME Feed(queue), NEW events, Listed(events), Emit(events)
  PROVE  Feed(queue')
<1> DEFINE v == Envelopes(events, seq)  q == queue.events
<1>1. queue' = Published(queue, v)
  BY DEF Emit, Envelopes
<1>2. Listed(v)
  <2>1. DOMAIN v = 1..Len(events) /\ Len(events) \in Nat
    BY ListedIs DEF Envelopes
  <2>2. v = [i \in 1..Len(events) |-> v[i]]
    BY <2>1 DEF Envelopes
  <2> HIDE DEF v
  <2> QED BY <2>1, <2>2, ListedIs
<1> HIDE DEF v
<1>3. Listed(q \o v) /\ Len(q \o v) = Len(q) + Len(v)
  BY <1>2, ListedJoin DEF Feed
<1>4. Len(q) \in Nat /\ Len(v) \in Nat /\ Capacity \in Nat
  BY <1>2, ListedIs, MuxConstants DEF Feed
<1>5. CASE ~queue.open \/ queue.lagged \/ v = <<>>
  BY <1>1, <1>5 DEF Published
<1>6. CASE ~(~queue.open \/ queue.lagged \/ v = <<>>) /\ Len(q) + Len(v) > Capacity
  <2> DEFINE none == <<>>
  <2>1. queue' = [open |-> queue.open, events |-> none, lagged |-> TRUE, wake |-> TRUE]
    BY <1>1, <1>6 DEF Published, Feed
  <2>2. Listed(none) /\ Len(none) <= Capacity
    BY <1>4, ListedNone
  <2> HIDE DEF none
  <2> QED BY <2>1, <2>2 DEF Feed
<1>7. CASE ~(~queue.open \/ queue.lagged \/ v = <<>>) /\ ~(Len(q) + Len(v) > Capacity)
  <2> DEFINE u == q \o v
  <2>1. queue' = [open |-> queue.open, events |-> u, lagged |-> queue.lagged, wake |-> TRUE]
    BY <1>1, <1>7 DEF Published, Feed
  <2>2. Len(u) <= Capacity /\ Listed(u)
    BY <1>3, <1>4, <1>7
  <2> HIDE DEF u, q
  <2> QED BY <2>1, <2>2 DEF Feed
<1> QED BY <1>5, <1>6, <1>7

LEMMA CommitIs ==
  ASSUME Counts, NEW new, NEW e, Commit(new, <<e>>)
  PROVE  h' = new /\ seq' \in Nat /\ left' \in Nat /\ Feed(queue')
<1>1. h' = new /\ left' \in Nat
  BY DEF Commit, Spend, Counts
<1>2. seq' = seq + 1
  <2>1. seq' = seq + Len(<<e>>)
    BY DEF Commit, Emit
  <2> QED BY <2>1
<1>3. Feed(queue')
  <2> DEFINE events == <<e>>
  <2>1. Emit(events) /\ Listed(events)
    BY ListedSingle DEF Commit
  <2> HIDE DEF events
  <2> QED BY <2>1, FeedEmits DEF Counts
<1> QED BY <1>1, <1>2, <1>3 DEF Counts

LEMMA FeedBegins == Feed(Subscribed) /\ Feed(Unsubscribed)
<1> DEFINE none == <<>>
<1>1. Listed(none) /\ Len(none) <= Capacity
  BY ListedNone, MuxConstants
<1>2. /\ Subscribed = [open |-> TRUE, events |-> none, lagged |-> FALSE, wake |-> FALSE]
      /\ Unsubscribed = [open |-> FALSE, events |-> none, lagged |-> FALSE, wake |-> FALSE]
  <2>1. Subscribed = [open |-> TRUE, events |-> none, lagged |-> FALSE, wake |-> FALSE]
    BY DEF Subscribed
  <2> HIDE DEF none
  <2> DEFINE u == [open |-> FALSE, events |-> none, lagged |-> FALSE, wake |-> FALSE]
  <2>2. Unsubscribed = u
    <3>1. DOMAIN Unsubscribed = DOMAIN u
      BY <2>1 DEF Unsubscribed
    <3>2. /\ Unsubscribed.open = u.open /\ Unsubscribed.events = u.events
          /\ Unsubscribed.lagged = u.lagged /\ Unsubscribed.wake = u.wake
      BY <2>1 DEF Unsubscribed
    <3> QED BY <2>1, <3>1, <3>2 DEF Unsubscribed
  <2> QED BY <2>1, <2>2
<1> HIDE DEF none
<1> QED BY <1>1, <1>2 DEF Feed

(* The invariant after a step that advances the revision. *)
LEMMA Advanced ==
  ASSUME MuxInv, NEW new, NEW e, Commit(new, <<e>>), Changed,
         Whole(new, terminals'), Numbered(new, terminals', next'),
         Watches(new, terminals', viewers'), Entries(history', next')
  PROVE  MuxInv' /\ Accounted
<1>1. Counts
  BY DEF MuxInv
<1>2. h' = new /\ seq' \in Nat /\ left' \in Nat /\ Feed(queue')
  BY <1>1, CommitIs
<1>3. revision' = revision + 1 /\ revision' \in Nat
  BY <1>1 DEF Changed, Counts
<1> QED BY <1>2, <1>3 DEF MuxInv, Counts, Accounted

LEMMA WatchesKept ==
  ASSUME NEW g, NEW P, NEW V, Watches(g, P, V), NEW n, NEW Q, NEW U \in SUBSET V,
         \A v \in U : /\ v[2] \in Q /\ v[1] \in DOMAIN n.attachments
                      /\ n.attachments[v[1]] = g.attachments[v[1]],
         \A v \in U : \A s : Sits(g, v[2], s) => Sits(n, v[2], s)
  PROVE  Watches(n, Q, U)
<1>1. \A v \in U : v = <<v[1], v[2]>>
  BY DEF Watches
<1>2. U \subseteq (DOMAIN n.attachments) \X Q
  BY <1>1
<1>3. ASSUME NEW v \in U PROVE Sits(n, v[2], n.attachments[v[1]])
  BY DEF Watches
<1> QED BY <1>2, <1>3 DEF Watches

(* Viewers of panes that all stay. *)
LEMMA WatchesStay ==
  ASSUME NEW g, NEW P, NEW V, Watches(g, P, V), NEW n, NEW Q,
         NEW U \in SUBSET V, \A v \in U : v[2] \in Q, Stays(g, n, Q),
         DOMAIN g.attachments \subseteq DOMAIN n.attachments,
         \A a \in DOMAIN g.attachments : n.attachments[a] = g.attachments[a]
  PROVE  Watches(n, Q, U)
<1>1. \A v \in U : v[1] \in DOMAIN g.attachments
  BY DEF Watches
<1> QED BY <1>1, WatchesKept DEF Stays

LEMMA WatchesSame ==
  ASSUME NEW g, NEW P, NEW V, Watches(g, P, V), NEW n, NEW Q, P \subseteq Q, Stays(g, n, P),
         DOMAIN g.attachments \subseteq DOMAIN n.attachments,
         \A a \in DOMAIN g.attachments : n.attachments[a] = g.attachments[a]
  PROVE  Watches(n, Q, V)
<1>1. V \in SUBSET V /\ \A v \in V : v[2] \in P
  BY DEF Watches
<1>2. Watches(n, P, V)
  BY <1>1, WatchesStay
<1> QED BY <1>2 DEF Watches

LEMMA CreateSessionKeeps ==
  ASSUME MuxInv, CreateSession
  PROVE  MuxInv' /\ Accounted
<1> DEFINE k == next + 1  l == Append(h.sessions, k)  e == <<>>
           new == [h EXCEPT !.sessions = l, !.workspaces = With(@, k, e)]
           ev == [kind |-> "SessionCreated", session |-> k, index |-> Len(h.sessions) + 1]
<1>1. /\ Commit(new, <<ev>>) /\ Changed /\ next' = next + 1
      /\ terminals' = terminals /\ viewers' = viewers /\ history' = history
  BY DEF CreateSession
<1>2. Whole(h, terminals) /\ Numbered(h, terminals, next) /\ Watches(h, terminals, viewers)
      /\ Entries(history, next)
  BY DEF MuxInv
<1>3. k \in Nat /\ k = next + 1 /\ k \notin DOMAIN h.workspaces /\ ToSet(h.sessions) = DOMAIN h.workspaces
  BY <1>2 DEF Numbered, Whole
<1>4. Distinct(l) /\ ToSet(l) = ToSet(h.sessions) \cup {k} /\ Distinct(e) /\ ToSet(e) = {}
  <2>1. Distinct(l) /\ ToSet(l) = ToSet(h.sessions) \cup {k}
    <3>1. Distinct(h.sessions) /\ k \notin ToSet(h.sessions)
      BY <1>2, <1>3 DEF Whole
    <3> HIDE DEF k
    <3> QED BY <3>1, ListAppend
  <2> QED BY <2>1, ListEmpty
<1> HIDE DEF k, l, e, ev
<1>5. /\ Fields(new) /\ new.sessions = l /\ new.workspaces = With(h.workspaces, k, e)
      /\ new.tabs = h.tabs /\ new.layout = h.layout /\ new.attachments = h.attachments
  <2>1. Fields(h) /\ new = [h EXCEPT !.sessions = l, !.workspaces = With(h.workspaces, k, e)]
    BY <1>2 DEF Whole
  <2> HIDE DEF new
  <2> QED BY <2>1 DEF Fields
<1> HIDE DEF new
<1>6. Whole(new, terminals) /\ Stays(h, new, terminals)
  BY <1>2, <1>3, <1>4, <1>5, SessionPut
<1>7. Numbered(new, terminals, k)
  BY <1>2, <1>3, <1>5 DEF Numbered, With
<1>8. Watches(new, terminals, viewers)
  BY <1>2, <1>5, <1>6, WatchesSame
<1>9. Entries(history, k)
  BY <1>2, <1>3, EntriesGrow DEF Numbered
<1> QED BY <1>1, <1>3, <1>6, <1>7, <1>8, <1>9, Advanced

LEMMA CreateWorkspaceKeeps ==
  ASSUME MuxInv, NEW s \in DOMAIN h.workspaces, CreateWorkspace(s)
  PROVE  MuxInv' /\ Accounted
<1> DEFINE k == next + 1  l == Append(h.workspaces[s], k)  e == <<>>
           new == [h EXCEPT !.workspaces[s] = l, !.tabs = With(@, k, e)]
           ev == [kind |-> "WorkspaceCreated", session |-> s, workspace |-> k,
                  index |-> Len(h.workspaces[s]) + 1]
<1>1. /\ Commit(new, <<ev>>) /\ Changed /\ next' = next + 1
      /\ terminals' = terminals /\ viewers' = viewers /\ history' = history
  BY DEF CreateWorkspace
<1>2. Whole(h, terminals) /\ Numbered(h, terminals, next) /\ Watches(h, terminals, viewers)
      /\ Entries(history, next)
  BY DEF MuxInv
<1>3. k \in Nat /\ k = next + 1 /\ k \notin DOMAIN h.tabs
  BY <1>2 DEF Numbered
<1>4. Distinct(l) /\ ToSet(l) = ToSet(h.workspaces[s]) \cup {k} /\ Distinct(e) /\ ToSet(e) = {}
  <2>1. Distinct(h.workspaces[s]) /\ k \notin ToSet(h.workspaces[s])
    BY <1>2, <1>3, PartitionLists DEF Whole
  <2> HIDE DEF k
  <2>2. Distinct(l) /\ ToSet(l) = ToSet(h.workspaces[s]) \cup {k}
    BY <2>1, ListAppend
  <2> QED BY <2>2, ListEmpty
<1> HIDE DEF k, l, e, ev
<1>5. /\ Fields(new) /\ new.workspaces = [h.workspaces EXCEPT ![s] = l]
      /\ new.tabs = With(h.tabs, k, e)
      /\ new.sessions = h.sessions /\ new.layout = h.layout /\ new.attachments = h.attachments
  <2>1. Fields(h) /\ new = [h EXCEPT !.workspaces = [h.workspaces EXCEPT ![s] = l],
                                     !.tabs = With(h.tabs, k, e)]
    BY <1>2 DEF Whole
  <2> HIDE DEF new
  <2> QED BY <2>1 DEF Fields
<1> HIDE DEF new
<1>6. Whole(new, terminals) /\ Stays(h, new, terminals)
  BY <1>2, <1>3, <1>4, <1>5, WorkspacePut
<1>7. Numbered(new, terminals, k)
  BY <1>2, <1>3, <1>5 DEF Numbered, With
<1>8. Watches(new, terminals, viewers)
  BY <1>2, <1>5, <1>6, WatchesSame
<1>9. Entries(history, k)
  BY <1>2, <1>3, EntriesGrow DEF Numbered
<1> QED BY <1>1, <1>3, <1>6, <1>7, <1>8, <1>9, Advanced

LEMMA OpenTabKeeps ==
  ASSUME MuxInv, NEW w \in DOMAIN h.tabs, OpenTab(w)
  PROVE  MuxInv' /\ Accounted
<1> DEFINE t == next + 1  p == next + 2  l == Append(h.tabs[w], t)
           layout == [panes |-> <<p>>, zoomed |-> None]
           new == [h EXCEPT !.tabs[w] = l, !.layout = With(@, t, layout)]
           ev == [kind |-> "TabOpened", workspace |-> w, tab |-> t, layout |-> layout,
                  index |-> Len(h.tabs[w]) + 1]
<1>1. /\ Commit(new, <<ev>>) /\ Changed /\ next' = p
      /\ terminals' = terminals \cup {p} /\ viewers' = viewers /\ history' = history
  BY DEF OpenTab
<1>2. Whole(h, terminals) /\ Numbered(h, terminals, next) /\ Watches(h, terminals, viewers)
      /\ Entries(history, next)
  BY DEF MuxInv
<1>3. /\ t \in Nat /\ p \in Nat /\ t \in 1..p /\ p \in 1..p /\ next <= p /\ 1..next \subseteq 1..p
      /\ t \notin DOMAIN h.layout /\ p \notin terminals
  BY <1>2 DEF Numbered
<1>4. Distinct(l) /\ ToSet(l) = ToSet(h.tabs[w]) \cup {t}
  <2>1. Distinct(h.tabs[w]) /\ t \notin ToSet(h.tabs[w])
    BY <1>2, <1>3, PartitionLists DEF Whole
  <2> HIDE DEF t
  <2> QED BY <2>1, ListAppend
<1>5. GoodLayout(layout) /\ ToSet(layout.panes) = {p}
  BY SingleLayout
<1> HIDE DEF t, p, l, layout, ev
<1>6. /\ Fields(new) /\ new.tabs = [h.tabs EXCEPT ![w] = l] /\ new.layout = With(h.layout, t, layout)
      /\ new.sessions = h.sessions /\ new.workspaces = h.workspaces /\ new.attachments = h.attachments
  <2>1. Fields(h) /\ new = [h EXCEPT !.tabs = [h.tabs EXCEPT ![w] = l],
                                     !.layout = With(h.layout, t, layout)]
    BY <1>2 DEF Whole
  <2> HIDE DEF new
  <2> QED BY <2>1 DEF Fields
<1> HIDE DEF new
<1>7. Whole(new, terminals \cup {p}) /\ Stays(h, new, terminals)
  <2>0. ToSet(layout.panes) \cap terminals = {}
    BY <1>3, <1>5
  <2>1. /\ Whole(new, terminals \cup ToSet(layout.panes)) /\ Stays(h, new, terminals)
        /\ \A q \in ToSet(layout.panes) : Sits(new, q, SessionOf(h, w))
    <3>1. Whole(h, terminals) /\ t \notin DOMAIN h.layout /\ GoodLayout(layout)
      BY <1>2, <1>3, <1>5
    <3> QED BY <3>1, <2>0, <1>4, <1>6, TabPut
  <2> QED BY <2>1, <1>5
<1>8. Numbered(new, terminals \cup {p}, p)
  BY <1>2, <1>3, <1>6 DEF Numbered, With
<1>9. Watches(new, terminals \cup {p}, viewers)
  BY <1>2, <1>6, <1>7, WatchesSame
<1>10. Entries(history, p)
  BY <1>2, <1>3, EntriesGrow DEF Numbered
<1> QED BY <1>1, <1>7, <1>8, <1>9, <1>10, Advanced

(* The identities a failed spawn used up are not handed out again. *)
LEMMA SpawnFailsKeeps ==
  ASSUME MuxInv, SpawnFails
  PROVE  MuxInv' /\ Accounted
<1>1. /\ next' = next + 2 /\ h' = h /\ terminals' = terminals /\ viewers' = viewers
      /\ history' = history /\ seq' = seq /\ queue' = queue
      /\ left > 0 /\ left' = left - 1 /\ revision' = revision + 1
  BY DEF SpawnFails, Spend, Changed
<1>2. next' \in Nat /\ next <= next' /\ 1..next \subseteq 1..next'
  BY <1>1 DEF MuxInv, Numbered
<1>3. Numbered(h, terminals, next')
  BY <1>2 DEF MuxInv, Numbered
<1>4. Entries(history, next')
  BY <1>2, EntriesGrow DEF MuxInv, Numbered
<1>5. Counts'
  BY <1>1 DEF MuxInv, Counts
<1> QED BY <1>1, <1>3, <1>4, <1>5 DEF MuxInv, Accounted

LEMMA SplitPaneKeeps ==
  ASSUME MuxInv, NEW t \in DOMAIN h.layout, NEW side \in Sides,
         NEW q \in ToSet(h.layout[t].panes), SplitPane(t, q, side)
  PROVE  MuxInv' /\ Accounted
<1> DEFINE p == next + 1  one == <<p>>
           layout == Beside(h.layout[t], q, side, one)
           new == [h EXCEPT !.layout[t] = layout]
           ev == LayoutEvent(t, layout)
<1>1. /\ Commit(new, <<ev>>) /\ Changed /\ next' = p
      /\ terminals' = terminals \cup {p} /\ viewers' = viewers /\ history' = history
  BY DEF SplitPane
<1>2. Whole(h, terminals) /\ Numbered(h, terminals, next) /\ Watches(h, terminals, viewers)
      /\ Entries(history, next)
  BY DEF MuxInv
<1>3. p \in Nat /\ p \in 1..p /\ next <= p /\ 1..next \subseteq 1..p /\ p \notin terminals
  BY <1>2 DEF Numbered
<1>4. Distinct(one) /\ ToSet(one) = {p}
  BY ListSingle
<1>5. Distinct(h.layout[t].panes) /\ ToSet(h.layout[t].panes) \subseteq terminals
  BY <1>2, Houses DEF Whole, GoodLayout
<1> HIDE DEF p, one
<1>6. GoodLayout(layout) /\ ToSet(layout.panes) = ToSet(h.layout[t].panes) \cup {p}
  <2>1. side \in {0, 1}
    BY MuxConstants
  <2>2. ToSet(one) \cap ToSet(h.layout[t].panes) = {}
    BY <1>3, <1>4, <1>5
  <2> DEFINE from == h.layout[t]
  <2>3. Distinct(one) /\ Distinct(from.panes) /\ q \in ToSet(from.panes)
        /\ ToSet(one) \cap ToSet(from.panes) = {}
    BY <2>2, <1>4, <1>5
  <2> HIDE DEF from
  <2>4. /\ GoodLayout(Beside(from, q, side, one))
        /\ ToSet(Beside(from, q, side, one).panes) = ToSet(from.panes) \cup ToSet(one)
    BY <2>1, <2>3, BesideIs
  <2> QED BY <2>4, <1>4 DEF from
<1> HIDE DEF layout, ev
<1>7. /\ Fields(new) /\ new.layout = [h.layout EXCEPT ![t] = layout] /\ new.tabs = h.tabs
      /\ new.sessions = h.sessions /\ new.workspaces = h.workspaces /\ new.attachments = h.attachments
  <2>1. Fields(h) /\ new = [h EXCEPT !.layout = [h.layout EXCEPT ![t] = layout]]
    BY <1>2 DEF Whole
  <2> HIDE DEF new
  <2> QED BY <2>1 DEF Fields
<1> HIDE DEF new
<1>8. Whole(new, terminals \cup {p}) /\ Stays(h, new, terminals \cup {p})
  <2>1. ToSet(layout.panes) \cap terminals \subseteq ToSet(h.layout[t].panes)
    BY <1>3, <1>6
  <2> DEFINE Q == (terminals \ ToSet(h.layout[t].panes)) \cup ToSet(layout.panes)
  <2>2. Whole(new, Q) /\ Stays(h, new, Q)
    BY <2>1, <1>2, <1>6, <1>7, LayoutPut
  <2>3. Q = terminals \cup {p}
    BY <1>5, <1>6
  <2> HIDE DEF Q
  <2> QED BY <2>2, <2>3
<1>9. Numbered(new, terminals \cup {p}, p)
  BY <1>2, <1>3, <1>7 DEF Numbered
<1>10. Watches(new, terminals \cup {p}, viewers)
  BY <1>2, <1>7, <1>8, WatchesSame DEF Stays
<1>11. Entries(history, p)
  BY <1>2, <1>3, EntriesGrow DEF Numbered
<1> QED BY <1>1, <1>8, <1>9, <1>10, <1>11, Advanced

LEMMA AttachSessionKeeps ==
  ASSUME MuxInv, NEW s \in DOMAIN h.workspaces, AttachSession(s)
  PROVE  MuxInv' /\ Accounted
<1> DEFINE a == next + 1
           new == [h EXCEPT !.attachments = With(@, a, s)]
           ev == [kind |-> "AttachmentCreated", attachment |-> a, session |-> s]
<1>1. /\ Commit(new, <<ev>>) /\ Changed /\ next' = a
      /\ terminals' = terminals /\ viewers' = viewers /\ history' = history
  BY DEF AttachSession
<1>2. Whole(h, terminals) /\ Numbered(h, terminals, next) /\ Watches(h, terminals, viewers)
      /\ Entries(history, next)
  BY DEF MuxInv
<1>3. a \in Nat /\ a \in 1..a /\ next <= a /\ 1..next \subseteq 1..a /\ a \notin DOMAIN h.attachments
  BY <1>2 DEF Numbered
<1> HIDE DEF a, ev
<1>4. /\ Fields(new) /\ new.attachments = With(h.attachments, a, s) /\ new.layout = h.layout
      /\ new.sessions = h.sessions /\ new.workspaces = h.workspaces /\ new.tabs = h.tabs
  BY <1>2 DEF Whole, Fields
<1> HIDE DEF new
<1>5. /\ DOMAIN new.attachments = DOMAIN h.attachments \cup {a} /\ Fun(new.attachments)
      /\ new.attachments[a] = s
      /\ \A b \in DOMAIN h.attachments : new.attachments[b] = h.attachments[b]
  BY <1>3, <1>4 DEF With, Fun
<1>6. Whole(new, terminals) /\ Stays(h, new, terminals)
  <2>1. \A b \in DOMAIN new.attachments : new.attachments[b] \in DOMAIN h.workspaces
    BY <1>2, <1>5 DEF Whole
  <2> QED BY <2>1, <1>2, <1>4, <1>5, AttachmentsChange
<1>7. Numbered(new, terminals, a)
  BY <1>2, <1>3, <1>4, <1>5 DEF Numbered
<1>8. Watches(new, terminals, viewers)
  BY <1>2, <1>5, <1>6, WatchesSame
<1>9. Entries(history, a)
  BY <1>2, <1>3, EntriesGrow DEF Numbered
<1> QED BY <1>1, <1>6, <1>7, <1>8, <1>9, Advanced

-----------------------------------------------------------------------------
(* What is filed for undo.                                                 *)

LEMMA SnapshotIs ==
  ASSUME NEW g, NEW P, Whole(g, P), NEW T
  PROVE  /\ Recorded(Snapshot(g, T), T) /\ DOMAIN Snapshot(g, T) = T \cap DOMAIN g.layout
         /\ \A t \in T \cap DOMAIN g.layout :
              /\ Snapshot(g, T)[t].session = SessionOfTab(g, t)
              /\ Snapshot(g, T)[t].workspace = WorkspaceOf(g, t)
              /\ Snapshot(g, T)[t].layout = g.layout[t]
<1> DEFINE s == Snapshot(g, T)
<1>1. /\ DOMAIN s = T \cap DOMAIN g.layout
      /\ \A t \in T \cap DOMAIN g.layout :
           /\ s[t].session = SessionOfTab(g, t) /\ s[t].workspace = WorkspaceOf(g, t)
           /\ s[t].layout = g.layout[t] /\ s[t].index = Index(g.tabs[WorkspaceOf(g, t)], t)
  BY DEF Snapshot, SessionOfTab
<1> HIDE DEF s
<1>2. ASSUME NEW t \in DOMAIN s PROVE GoodLayout(s[t].layout) /\ s[t].index \in Nat \ {0}
  <2>1. t \in ToSet(g.tabs[WorkspaceOf(g, t)]) /\ Distinct(g.tabs[WorkspaceOf(g, t)])
    BY <1>1, Houses, PartitionLists DEF Whole
  <2>2. s[t].index \in 1..Len(g.tabs[WorkspaceOf(g, t)])
    BY <2>1, <1>1, IndexIs
  <2>3. GoodLayout(s[t].layout)
    BY <1>1 DEF Whole
  <2> QED BY <2>2, <2>3
<1>3. ASSUME NEW t \in DOMAIN s, NEW u \in DOMAIN s, t # u
      PROVE  ToSet(s[t].layout.panes) \cap ToSet(s[u].layout.panes) = {}
  <2>1. Partition(PaneLists(g.layout), P)
    BY DEF Whole
  <2> QED BY <2>1, <1>1, <1>3, PaneListsIs, PartitionLists
<1> QED BY <1>1, <1>2, <1>3 DEF s, Recorded

(* One tab at most opens, closes or is placed by what is filed. *)
LEMMA Files ==
  ASSUME NEW P, Whole(h, P), NEW n, NEW Q, Whole(n, Q),
         NEW k \in Nat, NEW j \in Nat, k <= j, Entries(history, k),
         NEW tabs, Distinct(tabs), ToSet(tabs) \subseteq 1..j, NEW placed,
         NEW x, \A t \in ToSet(tabs) \ {x} :
                  t \notin placed /\ (t \in DOMAIN h.layout <=> t \in DOMAIN n.layout),
         Record(LayoutChange(n, tabs, placed))
  PROVE  Entries(history', j)
<1> DEFINE c == LayoutChange(n, tabs, placed)  T == ToSet(tabs)
<1>1. c.tabs = tabs /\ c.before = Snapshot(h, T) /\ c.after = Snapshot(n, T) /\ c.placed = placed
  BY DEF LayoutChange
<1>2. /\ Recorded(c.before, T) /\ DOMAIN c.before = T \cap DOMAIN h.layout
      /\ Recorded(c.after, T) /\ DOMAIN c.after = T \cap DOMAIN n.layout
  <2> HIDE DEF c, T
  <2>1. Recorded(Snapshot(h, T), T) /\ DOMAIN Snapshot(h, T) = T \cap DOMAIN h.layout
    BY SnapshotIs
  <2>2. Recorded(Snapshot(n, T), T) /\ DOMAIN Snapshot(n, T) = T \cap DOMAIN n.layout
    BY SnapshotIs
  <2> QED BY <1>1, <2>1, <2>2
<1> HIDE DEF c
<1>3. Entry(c, j)
  <2>1. \A t \in Comes(c.before, c.after, c.placed) : t = x
    BY <1>1, <1>2 DEF Comes
  <2>2. \A t \in Comes(c.after, c.before, c.placed) : t = x
    BY <1>1, <1>2 DEF Comes
  <2> QED BY <2>1, <2>2, <1>1, <1>2 DEF Entry
<1>4. CASE history' = [undo |-> c, redo |-> NoChange]
  <2>1. history'.undo = c /\ history'.redo = NoChange
        /\ history' = [undo |-> history'.undo, redo |-> history'.redo]
    BY <1>4
  <2> QED BY <2>1, <1>3, NoEntry DEF Entries
<1>5. CASE UNCHANGED history
  BY <1>5, EntriesGrow
<1> QED BY <1>4, <1>5 DEF Record, c

LEMMA Pair ==
  ASSUME NEW a, NEW b, a # b
  PROVE  Distinct(<<a, b>>) /\ ToSet(<<a, b>>) = {a, b}
<1> DEFINE s == <<a, b>>
<1>1. s \in Seq({a, b}) /\ DOMAIN s = 1..2 /\ s[1] = a /\ s[2] = b
  OBVIOUS
<1> HIDE DEF s
<1>2. IsInjective(s) /\ ToSet(s) = {a, b}
  BY <1>1 DEF IsInjective, ToSet
<1> QED BY <1>1, <1>2 DEF Distinct, s

-----------------------------------------------------------------------------
(* Changes inside a tab that leave the revision.                            *)

(* A layout that holds the panes it held. *)
LEMMA Arranged ==
  ASSUME MuxInv, NEW t \in DOMAIN h.layout, NEW layout, GoodLayout(layout),
         ToSet(layout.panes) = ToSet(h.layout[t].panes),
         NEW new, Fields(new), new.layout = [h.layout EXCEPT ![t] = layout],
         new.sessions = h.sessions, new.workspaces = h.workspaces, new.tabs = h.tabs,
         new.attachments = h.attachments
  PROVE  /\ Whole(new, terminals) /\ Numbered(new, terminals, next)
         /\ Watches(new, terminals, viewers)
         /\ DOMAIN new.layout = DOMAIN h.layout
         /\ \A u \in DOMAIN h.layout : ToSet(new.layout[u].panes) = ToSet(h.layout[u].panes)
<1>1. Whole(h, terminals) /\ Numbered(h, terminals, next) /\ Watches(h, terminals, viewers)
  BY DEF MuxInv
<1>2. ToSet(h.layout[t].panes) \subseteq terminals
  BY <1>1, Houses
<1>3. Whole(new, terminals) /\ Stays(h, new, terminals)
  <2> DEFINE Q == (terminals \ ToSet(h.layout[t].panes)) \cup ToSet(layout.panes)
  <2>1. Whole(new, Q) /\ Stays(h, new, Q)
    BY <1>1, LayoutPut
  <2>2. Q = terminals
    BY <1>2
  <2> HIDE DEF Q
  <2> QED BY <2>1, <2>2
<1>4. Numbered(new, terminals, next)
  BY <1>1 DEF Numbered
<1>5. Watches(new, terminals, viewers)
  BY <1>1, <1>3, WatchesSame
<1> QED BY <1>3, <1>4, <1>5

(* The invariant after such a change. *)
LEMMA Rested ==
  ASSUME MuxInv, NEW t \in DOMAIN h.layout, NEW layout, GoodLayout(layout),
         ToSet(layout.panes) = ToSet(h.layout[t].panes),
         NEW new, Fields(new), new.layout = [h.layout EXCEPT ![t] = layout],
         new.sessions = h.sessions, new.workspaces = h.workspaces, new.tabs = h.tabs,
         new.attachments = h.attachments,
         NEW e, Commit(new, <<e>>),
         UNCHANGED <<revision, next, terminals, viewers>>,
         Entries(history', next)
  PROVE  MuxInv' /\ Accounted
<1>1. /\ Whole(new, terminals) /\ Numbered(new, terminals, next)
      /\ Watches(new, terminals, viewers)
      /\ DOMAIN new.layout = DOMAIN h.layout
      /\ \A u \in DOMAIN h.layout : ToSet(new.layout[u].panes) = ToSet(h.layout[u].panes)
  BY Arranged
<1>2. h' = new /\ seq' \in Nat /\ left' \in Nat /\ Feed(queue')
  BY CommitIs DEF MuxInv
<1>3. Accounted
  BY <1>1, <1>2 DEF Accounted, SameScope
<1>4. MuxInv'
  BY <1>1, <1>2 DEF MuxInv, Counts
<1> QED BY <1>3, <1>4

LEMMA SetPaneZoomKeeps ==
  ASSUME MuxInv, NEW t \in DOMAIN h.layout, NEW p \in ToSet(h.layout[t].panes) \cup {None},
         SetPaneZoom(t, p)
  PROVE  MuxInv' /\ Accounted
<1> DEFINE layout == [h.layout[t] EXCEPT !.zoomed = p]
           new == [h EXCEPT !.layout[t].zoomed = p]
           ev == [kind |-> "PaneZoomChanged", tab |-> t, zoomed |-> p]
<1>1. /\ Commit(new, <<ev>>) /\ UNCHANGED <<revision, next, terminals, viewers, history>>
      /\ (p = None \/ Len(h.layout[t].panes) > 1)
  BY DEF SetPaneZoom
<1>2. Whole(h, terminals) /\ Entries(history, next)
  BY DEF MuxInv
<1>3. GoodLayout(h.layout[t])
  BY <1>2 DEF Whole
<1>4. layout = [panes |-> h.layout[t].panes, zoomed |-> p]
  BY <1>3 DEF GoodLayout
<1>5. Fields(new) /\ new.layout = [h.layout EXCEPT ![t] = layout] /\ new.tabs = h.tabs
      /\ new.sessions = h.sessions /\ new.workspaces = h.workspaces /\ new.attachments = h.attachments
  <2>1. Fields(h) /\ new = [h EXCEPT !.layout = [h.layout EXCEPT ![t] = layout]]
    BY <1>2 DEF Whole
  <2> HIDE DEF new, layout
  <2> QED BY <2>1 DEF Fields
<1> HIDE DEF layout, new, ev
<1>6. GoodLayout(layout) /\ ToSet(layout.panes) = ToSet(h.layout[t].panes)
  <2>1. Contains(h.layout[t].panes, p) \/ p = None
    BY <1>3, ListFacts DEF GoodLayout
  <2> QED BY <2>1, <1>1, <1>3, <1>4 DEF GoodLayout, ValidZoom
<1>7. Entries(history', next)
  BY <1>1, <1>2
<1> QED BY <1>1, <1>5, <1>6, <1>7, Rested

(* What is filed of a change inside one tab. *)
LEMMA FilesOne ==
  ASSUME MuxInv, NEW t \in DOMAIN h.layout, NEW n, NEW Q, Whole(n, Q),
         DOMAIN n.layout = DOMAIN h.layout, Record(LayoutChange(n, <<t>>, {}))
  PROVE  Entries(history', next)
<1> DEFINE tabs == <<t>>
<1>1. Distinct(tabs) /\ ToSet(tabs) = {t}
  BY ListSingle
<1> HIDE DEF tabs
<1>2. Whole(h, terminals) /\ Numbered(h, terminals, next) /\ Entries(history, next)
  BY DEF MuxInv
<1>3. next \in Nat /\ next <= next /\ ToSet(tabs) \subseteq 1..next
  BY <1>1, <1>2 DEF Numbered
<1>4. \A u \in ToSet(tabs) \ {t} : u \notin {} /\ (u \in DOMAIN h.layout <=> u \in DOMAIN n.layout)
  BY <1>1
<1>5. Record(LayoutChange(n, tabs, {}))
  BY DEF tabs
<1> QED BY <1>1, <1>2, <1>3, <1>4, <1>5, Files

LEMMA Swapped ==
  ASSUME NEW s, Distinct(s), NEW a \in ToSet(s), NEW b \in ToSet(s)
  PROVE  LET t == [i \in DOMAIN s |-> IF s[i] = a THEN b ELSE IF s[i] = b THEN a ELSE s[i]]
         IN Distinct(t) /\ ToSet(t) = ToSet(s) /\ Len(t) = Len(s)
<1> DEFINE n == Len(s)  S == ToSet(s)
           t == [i \in DOMAIN s |-> IF s[i] = a THEN b ELSE IF s[i] = b THEN a ELSE s[i]]
<1>1. n \in Nat /\ DOMAIN s = 1..n /\ S = {s[i] : i \in 1..n}
      /\ \A i, j \in 1..n : s[i] = s[j] => i = j
  BY ListFacts DEF ToSet, Distinct, IsInjective
<1>2. \A i \in 1..n : t[i] = IF s[i] = a THEN b ELSE IF s[i] = b THEN a ELSE s[i]
  BY <1>1
<1>3. t \in Seq(S) /\ DOMAIN t = 1..n
  <2>1. t = [i \in 1..n |-> t[i]] /\ \A i \in 1..n : t[i] \in S
    BY <1>1, <1>2
  <2>2. n \in Nat
    BY <1>1
  <2> HIDE DEF t, S, n
  <2>3. t \in Seq(S) /\ DOMAIN t = 1..n
    BY <2>1, <2>2
  <2> QED BY <2>3
<1> HIDE DEF t, S, n
<1>4. \A i, j \in 1..n : t[i] = t[j] => i = j
  BY <1>1, <1>2
<1>5. ToSet(t) = S
  <2>1. PICK i \in 1..n, j \in 1..n : s[i] = a /\ s[j] = b
    BY <1>1 DEF S
  <2>2. t[i] = b /\ t[j] = a
    BY <2>1, <1>2
  <2>3. ASSUME NEW x \in S PROVE \E l \in 1..n : t[l] = x
    <3>1. PICK l \in 1..n : s[l] = x
      BY <1>1
    <3> QED BY <3>1, <2>1, <2>2, <1>2
  <2>4. \A l \in 1..n : t[l] \in S
    BY <1>1, <1>2 DEF S
  <2> QED BY <2>3, <2>4, <1>3 DEF ToSet
<1>6. Distinct(t)
  BY <1>3, <1>4, <1>5 DEF Distinct, IsInjective
<1>7. Len(t) = n
  BY <1>1, <1>3, LenProperties
<1> QED BY <1>5, <1>6, <1>7 DEF t, S, n

LEMMA SwapPanesKeeps ==
  ASSUME MuxInv, NEW t \in DOMAIN h.layout, NEW a \in ToSet(h.layout[t].panes),
         NEW b \in ToSet(h.layout[t].panes), SwapPanes(t, a, b)
  PROVE  MuxInv' /\ Accounted
<1> DEFINE panes == h.layout[t].panes
           swapped == [i \in DOMAIN panes |-> IF panes[i] = a THEN b ELSE IF panes[i] = b THEN a ELSE panes[i]]
           layout == [h.layout[t] EXCEPT !.panes = swapped]
           new == [h EXCEPT !.layout[t].panes = swapped]
           ev == LayoutEvent(t, new.layout[t])
<1>1. /\ Commit(new, <<ev>>) /\ UNCHANGED <<revision, next, terminals, viewers>>
      /\ Record(LayoutChange(new, <<t>>, {}))
  BY DEF SwapPanes
<1>2. Whole(h, terminals)
  BY DEF MuxInv
<1>3. GoodLayout(h.layout[t])
  BY <1>2 DEF Whole
<1>4. Distinct(swapped) /\ ToSet(swapped) = ToSet(panes) /\ Len(swapped) = Len(panes)
  <2>1. Distinct(panes)
    BY <1>3 DEF GoodLayout
  <2> HIDE DEF panes
  <2> QED BY <2>1, Swapped DEF panes
<1> HIDE DEF swapped
<1>5. layout = [panes |-> swapped, zoomed |-> h.layout[t].zoomed]
  BY <1>3 DEF GoodLayout
<1>6. Fields(new) /\ new.layout = [h.layout EXCEPT ![t] = layout] /\ new.tabs = h.tabs
      /\ new.sessions = h.sessions /\ new.workspaces = h.workspaces /\ new.attachments = h.attachments
  <2>1. Fields(h) /\ new = [h EXCEPT !.layout = [h.layout EXCEPT ![t] = layout]]
    BY <1>2 DEF Whole
  <2> HIDE DEF new, layout
  <2> QED BY <2>1 DEF Fields
<1> HIDE DEF layout, new, ev
<1>7. GoodLayout(layout) /\ ToSet(layout.panes) = ToSet(h.layout[t].panes)
  <2>1. swapped # <<>> /\ \A z : Contains(swapped, z) <=> Contains(panes, z)
    BY <1>3, <1>4, ListFacts DEF GoodLayout
  <2> QED BY <2>1, <1>3, <1>4, <1>5 DEF GoodLayout, ValidZoom
<1>8. Whole(new, terminals) /\ DOMAIN new.layout = DOMAIN h.layout
  BY <1>6, <1>7, Arranged
<1>9. Entries(history', next)
  BY <1>1, <1>8, FilesOne
<1> QED BY <1>1, <1>6, <1>7, <1>9, Rested

LEMMA ArrangePanesKeeps ==
  ASSUME MuxInv, NEW t \in DOMAIN h.layout,
         NEW panes \in [DOMAIN h.layout[t].panes -> ToSet(h.layout[t].panes)], ArrangePanes(t, panes)
  PROVE  MuxInv' /\ Accounted
<1> DEFINE layout == [panes |-> panes, zoomed |-> None]
           new == [h EXCEPT !.layout[t] = layout]
           ev == LayoutEvent(t, new.layout[t])
<1>1. /\ Commit(new, <<ev>>) /\ UNCHANGED <<revision, next, terminals, viewers>>
      /\ Record(LayoutChange(new, <<t>>, {}))
      /\ IsInjective(panes) /\ ToSet(panes) = ToSet(h.layout[t].panes)
  BY DEF ArrangePanes
<1>2. Whole(h, terminals)
  BY DEF MuxInv
<1>3. GoodLayout(h.layout[t])
  BY <1>2 DEF Whole
<1>4. Distinct(panes)
  <2> DEFINE n == Len(h.layout[t].panes)  S == ToSet(h.layout[t].panes)
  <2>1. n \in Nat /\ DOMAIN h.layout[t].panes = 1..n
    BY <1>3, ListFacts DEF GoodLayout
  <2>2. panes \in [1..n -> S] /\ ToSet(panes) = S
    BY <2>1, <1>1
  <2> HIDE DEF n, S
  <2>3. panes \in Seq(S)
    BY <2>1, <2>2, SeqDef
  <2> QED BY <2>2, <2>3, <1>1 DEF Distinct
<1>5. Fields(new) /\ new.layout = [h.layout EXCEPT ![t] = layout] /\ new.tabs = h.tabs
      /\ new.sessions = h.sessions /\ new.workspaces = h.workspaces /\ new.attachments = h.attachments
  <2>1. Fields(h) /\ new = [h EXCEPT !.layout = [h.layout EXCEPT ![t] = layout]]
    BY <1>2 DEF Whole
  <2> HIDE DEF new, layout
  <2> QED BY <2>1 DEF Fields
<1> HIDE DEF new, ev
<1>6. GoodLayout(layout) /\ ToSet(layout.panes) = ToSet(h.layout[t].panes)
  <2>1. panes # <<>>
    BY <1>1, <1>3, <1>4, ListFacts DEF GoodLayout
  <2> QED BY <2>1, <1>1, <1>4 DEF GoodLayout, ValidZoom
<1> HIDE DEF layout
<1>7. Whole(new, terminals) /\ DOMAIN new.layout = DOMAIN h.layout
  BY <1>5, <1>6, Arranged
<1>8. Entries(history', next)
  BY <1>1, <1>7, FilesOne
<1> QED BY <1>1, <1>5, <1>6, <1>8, Rested

-----------------------------------------------------------------------------
(* Moves.                                                                  *)

(* Panes that move with their viewers, or without them into another session. *)
LEMMA MovesWatched ==
  ASSUME NEW P, Whole(h, P), Watches(h, P, viewers), NEW n, n.attachments = h.attachments,
         NEW M, Stays(h, n, P \ M), NEW s, NEW r, MovesTo(M, s, r),
         \A p \in M : p \in P /\ Sits(h, p, s) /\ Sits(n, p, r)
  PROVE  Watches(n, P, viewers')
<1>1. \A v \in viewers : v[1] \in DOMAIN h.attachments /\ v[2] \in P
  BY DEF Watches
<1>2. CASE s = r
  <2>1. viewers' = viewers
    BY <1>2 DEF MovesTo
  <2>2. ASSUME NEW v \in viewers, NEW x, Sits(h, v[2], x) PROVE Sits(n, v[2], x)
    <3>1. CASE v[2] \in M
      BY <1>2, <2>2, <3>1, SitsIs
    <3>2. CASE v[2] \notin M
      BY <1>1, <2>2, <3>2 DEF Stays
    <3> QED BY <3>1, <3>2
  <2> QED BY <2>1, <2>2, <1>1, WatchesKept
<1>3. CASE s # r
  <2> DEFINE U == {v \in viewers : v[2] \notin M}
  <2>1. viewers' = U
    BY <1>3 DEF MovesTo, RevokeTerminals
  <2>2. U \in SUBSET viewers /\ \A v \in U : v[2] \in P \ M /\ v[2] \in P
    BY <1>1
  <2> HIDE DEF U
  <2>3. Watches(n, P, U)
    BY <2>2, <1>1, WatchesKept DEF Stays
  <2> QED BY <2>1, <2>3
<1> QED BY <1>2, <1>3

LEMMA MoveEnds ==
  ASSUME MuxInv, NEW new, NEW e, Commit(new, <<e>>), Changed,
         Whole(new, terminals), Numbered(new, terminals, next'), terminals' = terminals,
         new.attachments = h.attachments,
         NEW M, Stays(h, new, terminals \ M), NEW s, NEW r, MovesTo(M, s, r),
         \A p \in M : p \in terminals /\ Sits(h, p, s) /\ Sits(new, p, r),
         Entries(history', next')
  PROVE  MuxInv' /\ Accounted
<1>1. Whole(h, terminals) /\ Watches(h, terminals, viewers)
  BY DEF MuxInv
<1>2. Watches(new, terminals, viewers')
  BY <1>1, MovesWatched
<1> QED BY <1>2, Advanced

LEMMA MoveTabKeeps ==
  ASSUME MuxInv, NEW t \in DOMAIN h.layout, NEW w \in DOMAIN h.tabs,
         NEW before \in Anchors(h.tabs[w]), MoveTab(t, w, before)
  PROVE  MuxInv' /\ Accounted
<1> DEFINE source == WorkspaceOf(h, t)
           i == Place(h.tabs[w], before)
           index == IF source = w /\ Index(h.tabs[w], t) < i THEN i - 1 ELSE i
           new == Ordered(Unordered(h, t), w, index, t)
           M == ToSet(h.layout[t].panes)
           ev == [kind |-> "TabMoved", tab |-> t, workspace |-> w, index |-> index]
<1>1. /\ Commit(new, <<ev>>) /\ Changed /\ next' = next /\ terminals' = terminals
      /\ history' = history /\ MovesTo(M, SessionOf(h, source), SessionOf(h, w))
  BY DEF MoveTab
<1>2. Whole(h, terminals) /\ Numbered(h, terminals, next) /\ Entries(history, next)
  BY DEF MuxInv
<1>3. index \in 1..Len(Dropped(h.tabs[w], {t})) + 1
  <2>1. source = w <=> t \in ToSet(h.tabs[w])
    BY <1>2, Houses
  <2>2. Distinct(h.tabs[w])
    BY <1>2, PartitionLists DEF Whole
  <2>3. (IF t \in ToSet(h.tabs[w]) /\ Index(h.tabs[w], t) < i THEN i - 1 ELSE i)
          \in 1..Len(Dropped(h.tabs[w], {t})) + 1
    BY <2>2, PlaceAmong
  <2> HIDE DEF i, source
  <2> QED BY <2>1, <2>3
<1> HIDE DEF index, ev
<1>4. /\ Whole(new, terminals) /\ Stays(h, new, terminals \ M)
      /\ \A p \in M : Sits(new, p, SessionOf(h, w))
      /\ new.layout = h.layout /\ new.workspaces = h.workspaces /\ new.attachments = h.attachments
      /\ DOMAIN new.tabs = DOMAIN h.tabs
  <2>1. Whole(h, terminals)
    BY <1>2
  <2> HIDE DEF new
  <2>2. new = Ordered(Unordered(h, t), w, index, t)
    BY DEF new
  <2>3. Room(Dropped(h.tabs[w], {t}), index)
    BY <1>3 DEF Room
  <2>4. Whole(new, terminals) /\ Stays(h, new, terminals \ M)
        /\ (\A p \in M : Sits(new, p, SessionOf(h, w))) /\ MoveFields(h, new)
    BY <2>1, <2>2, <2>3, TabMove
  <2> QED BY <2>4 DEF MoveFields
<1>5. \A p \in M : p \in terminals /\ Sits(h, p, SessionOf(h, source))
  BY <1>2, TabSits DEF SessionOfTab
<1> HIDE DEF new, source, M
<1>6. Numbered(new, terminals, next)
  BY <1>2, <1>4 DEF Numbered
<1> QED BY <1>1, <1>2, <1>4, <1>5, <1>6, MoveEnds

LEMMA MoveWorkspaceKeeps ==
  ASSUME MuxInv, NEW w \in DOMAIN h.tabs, NEW s \in DOMAIN h.workspaces,
         NEW before \in Anchors(h.workspaces[s]), MoveWorkspace(w, s, before)
  PROVE  MuxInv' /\ Accounted
<1> DEFINE source == SessionOf(h, w)
           i == Place(h.workspaces[s], before)
           index == IF source = s /\ Index(h.workspaces[s], w) < i THEN i - 1 ELSE i
           m == [h.workspaces EXCEPT ![source] = Dropped(@, {w})]
           l == InsertAt(m[s], index, w)
           new == [[h EXCEPT !.workspaces[source] = Dropped(@, {w})]
                     EXCEPT !.workspaces[s] = InsertAt(@, index, w)]
           M == PanesIn(h, ToSet(h.tabs[w]))
           ev == [kind |-> "WorkspaceMoved", workspace |-> w, session |-> s, index |-> index]
<1>1. /\ Commit(new, <<ev>>) /\ Changed /\ next' = next /\ terminals' = terminals
      /\ history' = history /\ MovesTo(M, source, s)
  BY DEF MoveWorkspace
<1>2. Whole(h, terminals) /\ Numbered(h, terminals, next) /\ Entries(history, next)
  BY DEF MuxInv
<1>3. /\ source \in DOMAIN h.workspaces
      /\ \A r \in DOMAIN h.workspaces : Distinct(h.workspaces[r]) /\ (source = r <=> w \in ToSet(h.workspaces[r]))
  BY <1>2, Houses, PartitionLists DEF Whole
<1>4. index \in 1..Len(Dropped(h.workspaces[s], {w})) + 1
  <2>1. (IF w \in ToSet(h.workspaces[s]) /\ Index(h.workspaces[s], w) < i THEN i - 1 ELSE i)
          \in 1..Len(Dropped(h.workspaces[s], {w})) + 1
    BY <1>3, PlaceAmong
  <2> HIDE DEF i, source
  <2> QED BY <2>1, <1>3
<1> HIDE DEF index, ev
<1>5. /\ DOMAIN m = DOMAIN h.workspaces
      /\ \A r \in DOMAIN m : Distinct(m[r]) /\ ToSet(m[r]) = ToSet(h.workspaces[r]) \ {w}
      /\ Len(m[s]) = Len(Dropped(h.workspaces[s], {w}))
  <2>1. Distinct(h.workspaces[source]) /\ Distinct(h.workspaces[s])
    BY <1>3
  <2>2. /\ Distinct(Dropped(h.workspaces[source], {w}))
        /\ ToSet(Dropped(h.workspaces[source], {w})) = ToSet(h.workspaces[source]) \ {w}
    BY <2>1, ListDropped
  <2>3. Len(Dropped(h.workspaces[s], {w})) = IF w \in ToSet(h.workspaces[s]) THEN Len(h.workspaces[s]) - 1
                                                                            ELSE Len(h.workspaces[s])
    BY <2>1, DroppedLength
  <2> HIDE DEF source
  <2> QED BY <2>2, <2>3, <1>3
<1>6. Distinct(l) /\ ToSet(l) = ToSet(m[s]) \cup {w}
  <2>1. Distinct(m[s]) /\ w \notin ToSet(m[s]) /\ index \in 1..Len(m[s]) + 1
    BY <1>4, <1>5
  <2> HIDE DEF m
  <2> QED BY <2>1, ListInsert
<1>7. /\ Fields(new) /\ new.workspaces = [m EXCEPT ![s] = l]
      /\ new.sessions = h.sessions /\ new.tabs = h.tabs /\ new.layout = h.layout
      /\ new.attachments = h.attachments
  <2>1. Fields(h)
    BY <1>2 DEF Whole
  <2>2. new = [h EXCEPT !.workspaces = [m EXCEPT ![s] = l]]
    <3> DEFINE d == Dropped(h.workspaces[source], {w})
               k == [h EXCEPT !.workspaces[source] = d]
    <3>1. m = [h.workspaces EXCEPT ![source] = d]
      OBVIOUS
    <3>2. new = [k EXCEPT !.workspaces[s] = InsertAt(k.workspaces[s], index, w)]
      OBVIOUS
    <3> HIDE DEF new, m, d
    <3>3. Fields(k) /\ k.workspaces = m /\ k.sessions = h.sessions /\ k.tabs = h.tabs
          /\ k.layout = h.layout /\ k.attachments = h.attachments
      BY <2>1, <3>1 DEF Fields
    <3> HIDE DEF k
    <3>4. new = [k EXCEPT !.workspaces = [m EXCEPT ![s] = l]]
      BY <3>2, <3>3
    <3> HIDE DEF l
    <3> QED BY <2>1, <3>3, <3>4 DEF Fields
  <2> HIDE DEF new, m, l
  <2> QED BY <2>1, <2>2 DEF Fields
<1> HIDE DEF new, m, l
<1>8. /\ Whole(new, terminals) /\ Stays(h, new, terminals \ M)
      /\ \A p \in M : Sits(new, p, s)
  <2>1. Whole(h, terminals) /\ DOMAIN new.workspaces = DOMAIN h.workspaces /\ Fun(new.workspaces)
    BY <1>2, <1>5, <1>7 DEF Fun
  <2>2. \A r \in DOMAIN h.workspaces :
           /\ Distinct(new.workspaces[r])
           /\ ToSet(new.workspaces[r]) = IF r = s THEN ToSet(h.workspaces[r]) \cup {w}
                                                  ELSE ToSet(h.workspaces[r]) \ {w}
    BY <1>5, <1>6, <1>7
  <2> QED BY <2>1, <2>2, <1>7, WorkspaceMove
<1>9. \A p \in M : p \in terminals /\ Sits(h, p, source)
  <2> SUFFICES ASSUME NEW p \in M PROVE p \in terminals /\ Sits(h, p, source)
    OBVIOUS
  <2>1. PICK t \in ToSet(h.tabs[w]) : p \in ToSet(h.layout[t].panes)
    BY PanesInIs
  <2>2. t \in DOMAIN h.layout /\ source \in DOMAIN h.workspaces /\ w \in ToSet(h.workspaces[source])
    BY <1>2, Houses
  <2> QED BY <2>1, <2>2, <1>2, TabSits DEF Sits
<1>10. Numbered(new, terminals, next)
  BY <1>2, <1>5, <1>7 DEF Numbered
<1> HIDE DEF source, M
<1> QED BY <1>1, <1>2, <1>7, <1>8, <1>9, <1>10, MoveEnds

(* The structure is filed for undo with two tabs, one of which may go or come. *)
LEMMA FilesTwo ==
  ASSUME MuxInv, NEW n, NEW Q, Whole(n, Q), NEW j \in Nat, next <= j,
         NEW a \in 1..j, NEW b \in 1..j, a # b,
         NEW x, \A t \in {a, b} \ {x} : t \in DOMAIN h.layout <=> t \in DOMAIN n.layout,
         Record(LayoutChange(n, <<a, b>>, {}))
  PROVE  Entries(history', j)
<1> DEFINE tabs == <<a, b>>
<1>1. Distinct(tabs) /\ ToSet(tabs) = {a, b}
  BY Pair
<1>2. Record(LayoutChange(n, tabs, {}))
  OBVIOUS
<1> HIDE DEF tabs
<1>3. Whole(h, terminals) /\ next \in Nat /\ Entries(history, next)
  BY DEF MuxInv, Numbered
<1>4. ToSet(tabs) \subseteq 1..j
  BY <1>1
<1>5. \A t \in ToSet(tabs) \ {x} : t \notin {} /\ (t \in DOMAIN h.layout <=> t \in DOMAIN n.layout)
  BY <1>1
<1> QED BY <1>1, <1>2, <1>3, <1>4, <1>5, Files

LEMMA MoveTabToPaneKeeps ==
  ASSUME MuxInv, NEW q \in terminals, NEW side \in Sides, NEW t \in DOMAIN h.layout,
         MoveTabToPane(t, q, side)
  PROVE  MuxInv' /\ Accounted
<1> DEFINE target == TabOf(h, q)
           layout == Beside(h.layout[target], q, side, h.layout[t].panes)
           k == WithoutTabs(h, {t})
           new == [WithoutTab(h, t) EXCEPT !.layout[target] = layout]
           ev == Rearrangement(<<RemovedStep(t), LayoutStep(target, layout)>>)
           M == ToSet(h.layout[t].panes)
<1>1. /\ Commit(new, <<ev>>) /\ Changed /\ next' = next /\ terminals' = terminals
      /\ MovesTo(M, SessionOfTab(h, t), SessionOfTab(h, target))
      /\ Record(LayoutChange(new, <<t, target>>, {})) /\ target # t
  BY DEF MoveTabToPane
<1>2. Whole(h, terminals) /\ Numbered(h, terminals, next)
  BY DEF MuxInv
<1>3. target \in DOMAIN h.layout /\ q \in ToSet(h.layout[target].panes)
  BY <1>2, Houses
<1>4. PanesIn(h, {t}) = M /\ {t} \subseteq DOMAIN h.layout
  BY DEF PanesIn
<1>5. /\ Whole(k, terminals \ M) /\ Stays(h, k, terminals \ M)
      /\ k.workspaces = h.workspaces /\ k.attachments = h.attachments
      /\ DOMAIN k.tabs = DOMAIN h.tabs /\ DOMAIN k.layout = DOMAIN h.layout \ {t}
      /\ \A u \in DOMAIN h.layout \ {t} : k.layout[u] = h.layout[u]
  <2> DEFINE T == {t}
  <2>1. T \subseteq DOMAIN h.layout /\ PanesIn(h, T) = M
    BY <1>4
  <2> HIDE DEF T, M
  <2>2. LET n == WithoutTabs(h, T)
        IN /\ Whole(n, terminals \ PanesIn(h, T)) /\ Stays(h, n, terminals \ PanesIn(h, T))
           /\ n.workspaces = h.workspaces /\ n.attachments = h.attachments
           /\ DOMAIN n.tabs = DOMAIN h.tabs /\ DOMAIN n.layout = DOMAIN h.layout \ T
           /\ \A w \in DOMAIN h.tabs : ToSet(n.tabs[w]) = ToSet(h.tabs[w]) \ T
           /\ \A u \in DOMAIN h.layout \ T : n.layout[u] = h.layout[u]
    BY <1>2, <2>1, TabsLeave
  <2> QED BY <2>1, <2>2 DEF T
<1> HIDE DEF ev, target, k
<1>6. GoodLayout(layout) /\ ToSet(layout.panes) = ToSet(h.layout[target].panes) \cup M
  <2> DEFINE from == h.layout[target]  moved == h.layout[t].panes
  <2>1. side \in {0, 1} /\ Distinct(from.panes) /\ Distinct(moved) /\ q \in ToSet(from.panes)
    BY <1>2, <1>3, MuxConstants DEF Whole, GoodLayout
  <2>2. ToSet(moved) \cap ToSet(from.panes) = {}
    BY <1>1, <1>2, <1>3, TabSits
  <2> HIDE DEF from, moved
  <2>3. /\ GoodLayout(Beside(from, q, side, moved))
        /\ ToSet(Beside(from, q, side, moved).panes) = ToSet(from.panes) \cup ToSet(moved)
    BY <2>1, <2>2, BesideIs
  <2> QED BY <2>3 DEF from, moved
<1> HIDE DEF layout
<1>7. /\ Fields(new) /\ new.layout = [k.layout EXCEPT ![target] = layout]
      /\ new.sessions = k.sessions /\ new.workspaces = k.workspaces /\ new.tabs = k.tabs
      /\ new.attachments = k.attachments
  <2>1. Fields(k) /\ new = [k EXCEPT !.layout[target] = layout]
    BY <1>5 DEF Whole, k, WithoutTab
  <2> HIDE DEF new
  <2> QED BY <2>1 DEF Fields
<1>8. \A p \in M : p \in terminals /\ Sits(h, p, SessionOfTab(h, t))
  BY <1>2, TabSits
<1> HIDE DEF new, M
<1>9. /\ Whole(new, terminals) /\ Stays(h, new, terminals \ M) /\ DOMAIN new.layout = DOMAIN k.layout
      /\ \A p \in M : Sits(new, p, SessionOfTab(h, target))
  <2>1. /\ Whole(h, terminals) /\ M \subseteq terminals /\ Whole(k, terminals \ M)
        /\ Stays(h, k, terminals \ M)
        /\ target \in DOMAIN k.layout /\ target \in DOMAIN h.layout
        /\ k.layout[target] = h.layout[target]
    BY <1>1, <1>2, <1>3, <1>5, <1>8
  <2> QED BY <2>1, <1>6, <1>7, Gathered, SMTT(40)
<1>10. Numbered(new, terminals, next)
  BY <1>2, <1>5, <1>7, <1>9 DEF Numbered
<1>11. Entries(history', next)
  <2>1. next \in Nat /\ next <= next /\ t \in 1..next /\ target \in 1..next
    BY <1>2, <1>3 DEF Numbered
  <2>2. \A u \in {t, target} \ {t} : u \in DOMAIN h.layout <=> u \in DOMAIN new.layout
    BY <1>1, <1>3, <1>5, <1>9
  <2> QED BY <2>1, <2>2, <1>1, <1>9, FilesTwo
<1> QED BY <1>1, <1>5, <1>7, <1>8, <1>9, <1>10, <1>11, MoveEnds

LEMMA MoveWithinTabKeeps ==
  ASSUME MuxInv, NEW p \in terminals, NEW q \in terminals, NEW side \in Sides,
         MoveWithinTab(p, q, side)
  PROVE  MuxInv' /\ Accounted
<1> DEFINE t == TabOf(h, p)  one == <<p>>
           layout == Beside(Remaining(t, p), q, side, one)
           new == [h EXCEPT !.layout[t] = layout]
           ev == LayoutEvent(t, layout)
<1>1. /\ Commit(new, <<ev>>) /\ Changed /\ next' = next /\ terminals' = terminals
      /\ viewers' = viewers /\ Record(LayoutChange(new, <<t>>, {})) /\ p # q /\ TabOf(h, q) = t
  BY DEF MoveWithinTab
<1>2. Whole(h, terminals)
  BY DEF MuxInv
<1>3. t \in DOMAIN h.layout /\ p \in ToSet(h.layout[t].panes) /\ q \in ToSet(h.layout[t].panes)
  BY <1>1, <1>2, Houses
<1>4. Distinct(h.layout[t].panes)
  BY <1>2, <1>3 DEF Whole, GoodLayout
<1> HIDE DEF t, ev
<1>5. GoodLayout(layout) /\ ToSet(layout.panes) = ToSet(h.layout[t].panes)
  <2> DEFINE rest == Remaining(t, p)
  <2>1. Distinct(rest.panes) /\ ToSet(rest.panes) = ToSet(h.layout[t].panes) \ {p}
    BY <1>4, RemainingIs
  <2>2. Distinct(one) /\ ToSet(one) = {p}
    BY ListSingle
  <2> HIDE DEF rest, one
  <2>3. /\ side \in {0, 1} /\ q \in ToSet(rest.panes) /\ ToSet(one) \cap ToSet(rest.panes) = {}
        /\ Distinct(rest.panes) /\ Distinct(one)
    BY <2>1, <2>2, <1>1, <1>3, MuxConstants
  <2>4. /\ GoodLayout(Beside(rest, q, side, one))
        /\ ToSet(Beside(rest, q, side, one).panes) = ToSet(rest.panes) \cup ToSet(one)
    BY <2>3, BesideIs
  <2> QED BY <2>1, <2>2, <2>4, <1>3 DEF rest
<1> HIDE DEF layout
<1>6. Fields(new) /\ new.layout = [h.layout EXCEPT ![t] = layout] /\ new.tabs = h.tabs
      /\ new.sessions = h.sessions /\ new.workspaces = h.workspaces /\ new.attachments = h.attachments
  <2>1. Fields(h) /\ new = [h EXCEPT !.layout = [h.layout EXCEPT ![t] = layout]]
    BY <1>2 DEF Whole
  <2> HIDE DEF new
  <2> QED BY <2>1 DEF Fields
<1> HIDE DEF new
<1>7. /\ Whole(new, terminals) /\ Numbered(new, terminals, next)
      /\ Watches(new, terminals, viewers) /\ DOMAIN new.layout = DOMAIN h.layout
  BY <1>3, <1>5, <1>6, Arranged
<1>8. Entries(history', next)
  BY <1>1, <1>3, <1>7, FilesOne
<1> QED BY <1>1, <1>7, <1>8, Advanced

(* A tab without one of its panes: gone with its last pane, or with the others. *)
Thinned(t, rest) == IF rest.panes = <<>> THEN WithoutTab(h, t) ELSE [h EXCEPT !.layout[t] = rest]
Others(P, p) == P \ {p}
ThinFields(k, t, rest) ==
    /\ k.workspaces = h.workspaces /\ k.attachments = h.attachments
    /\ DOMAIN k.tabs = DOMAIN h.tabs
    /\ DOMAIN k.layout = IF rest.panes = <<>> THEN DOMAIN h.layout \ {t} ELSE DOMAIN h.layout
    /\ \A u \in DOMAIN h.layout \ {t} : k.layout[u] = h.layout[u]

LEMMA PaneLeaves ==
  ASSUME NEW P, Whole(h, P), NEW p \in P, NEW t, t = TabOf(h, p), NEW rest, rest = Remaining(t, p),
         NEW k, k = Thinned(t, rest)
  PROVE  /\ Whole(k, Others(P, p)) /\ Stays(h, k, Others(P, p)) /\ ThinFields(k, t, rest)
<1>1. t \in DOMAIN h.layout /\ p \in ToSet(h.layout[t].panes) /\ ToSet(h.layout[t].panes) \subseteq P
  BY Houses
<1>2. Distinct(h.layout[t].panes)
  BY <1>1 DEF Whole, GoodLayout
<1>3. /\ ToSet(rest.panes) = ToSet(h.layout[t].panes) \ {p}
      /\ rest.panes # <<>> => GoodLayout(rest)
      /\ rest.panes = <<>> <=> ToSet(h.layout[t].panes) \subseteq {p}
  BY <1>2, RemainingIs
<1>4. CASE rest.panes = <<>>
  <2> DEFINE T == {t}  n == WithoutTabs(h, T)
  <2>1. T \subseteq DOMAIN h.layout /\ PanesIn(h, T) = {p}
    <3>1. ToSet(h.layout[t].panes) = {p}
      BY <1>1, <1>3, <1>4
    <3> QED BY <3>1, <1>1 DEF PanesIn
  <2>2. k = n
    BY <1>4 DEF WithoutTab, Thinned
  <2> HIDE DEF T
  <2>3. /\ Whole(n, P \ PanesIn(h, T)) /\ Stays(h, n, P \ PanesIn(h, T))
        /\ n.workspaces = h.workspaces /\ n.attachments = h.attachments
        /\ DOMAIN n.tabs = DOMAIN h.tabs /\ DOMAIN n.layout = DOMAIN h.layout \ T
        /\ \A w \in DOMAIN h.tabs : ToSet(n.tabs[w]) = ToSet(h.tabs[w]) \ T
        /\ \A u \in DOMAIN h.layout \ T : n.layout[u] = h.layout[u]
    BY <2>1, TabsLeave
  <2> HIDE DEF n
  <2> QED BY <2>1, <2>2, <2>3, <1>4 DEF T, Others, ThinFields
<1>5. CASE rest.panes # <<>>
  <2>1. k = [h EXCEPT !.layout = [h.layout EXCEPT ![t] = rest]] /\ Fields(h)
    BY <1>5 DEF Whole, Thinned
  <2>2. Fields(k) /\ k.layout = [h.layout EXCEPT ![t] = rest] /\ k.tabs = h.tabs
        /\ k.sessions = h.sessions /\ k.workspaces = h.workspaces /\ k.attachments = h.attachments
    BY <2>1 DEF Fields
  <2> DEFINE Q == (P \ ToSet(h.layout[t].panes)) \cup ToSet(rest.panes)
  <2>3. Whole(k, Q) /\ Stays(h, k, Q)
    <3>1. GoodLayout(rest) /\ ToSet(rest.panes) \cap P \subseteq ToSet(h.layout[t].panes)
      BY <1>3, <1>5
    <3> QED BY <3>1, <2>2, <1>1, LayoutPut
  <2>4. Q = Others(P, p)
    BY <1>1, <1>3 DEF Others
  <2> HIDE DEF Q
  <2> QED BY <2>2, <2>3, <2>4, <1>5 DEF ThinFields
<1> QED BY <1>4, <1>5

LEMMA MoveBetweenTabsKeeps ==
  ASSUME MuxInv, NEW p \in terminals, NEW q \in terminals, NEW side \in Sides,
         MoveBetweenTabs(p, q, side)
  PROVE  MuxInv' /\ Accounted
<1> DEFINE t == TabOf(h, p)  target == TabOf(h, q)  one == <<p>>
           rest == Remaining(t, p)
           layout == Beside(h.layout[target], q, side, one)
           source == IF rest.panes = <<>> THEN RemovedStep(t) ELSE LayoutStep(t, rest)
           k == IF rest.panes = <<>> THEN WithoutTab(h, t) ELSE [h EXCEPT !.layout[t] = rest]
           new == [k EXCEPT !.layout[target] = layout]
           ev == Rearrangement(<<source, LayoutStep(target, layout)>>)
           M == {p}
<1>1. /\ Commit(new, <<ev>>) /\ Changed /\ next' = next /\ terminals' = terminals
      /\ MovesTo(M, SessionOfTab(h, t), SessionOfTab(h, target))
      /\ Record(LayoutChange(new, <<t, target>>, {})) /\ t # target
  BY DEF MoveBetweenTabs
<1>2. Whole(h, terminals) /\ Numbered(h, terminals, next)
  BY DEF MuxInv
<1>3. /\ t \in DOMAIN h.layout /\ p \in ToSet(h.layout[t].panes)
      /\ target \in DOMAIN h.layout /\ q \in ToSet(h.layout[target].panes)
  BY <1>2, Houses
<1>4. /\ Whole(k, terminals \ M) /\ Stays(h, k, terminals \ M)
      /\ k.workspaces = h.workspaces /\ k.attachments = h.attachments
      /\ DOMAIN k.tabs = DOMAIN h.tabs
      /\ DOMAIN h.layout \ {t} \subseteq DOMAIN k.layout /\ DOMAIN k.layout \subseteq DOMAIN h.layout
      /\ \A u \in DOMAIN h.layout \ {t} : k.layout[u] = h.layout[u]
  <2>1. t = TabOf(h, p) /\ rest = Remaining(t, p)
        /\ k = Thinned(t, rest) /\ Whole(h, terminals) /\ p \in terminals
    BY <1>2 DEF Thinned
  <2> HIDE DEF t, rest, k, M
  <2>2. Whole(k, Others(terminals, p)) /\ Stays(h, k, Others(terminals, p)) /\ ThinFields(k, t, rest)
    BY <2>1, PaneLeaves
  <2> QED BY <2>2 DEF M, Others, ThinFields
<1> HIDE DEF ev, source, t, target, k, rest
<1>5. GoodLayout(layout) /\ ToSet(layout.panes) = ToSet(h.layout[target].panes) \cup M
  <2> DEFINE from == h.layout[target]
  <2>1. Distinct(one) /\ ToSet(one) = {p}
    BY ListSingle
  <2> HIDE DEF one
  <2>2. /\ side \in {0, 1} /\ Distinct(from.panes) /\ Distinct(one) /\ q \in ToSet(from.panes)
        /\ ToSet(one) \cap ToSet(from.panes) = {}
    <3>1. p \notin ToSet(from.panes)
      BY <1>1, <1>2, <1>3, TabSits
    <3> QED BY <3>1, <2>1, <1>2, <1>3, MuxConstants DEF Whole, GoodLayout
  <2> HIDE DEF from
  <2>3. /\ GoodLayout(Beside(from, q, side, one))
        /\ ToSet(Beside(from, q, side, one).panes) = ToSet(from.panes) \cup ToSet(one)
    BY <2>2, BesideIs
  <2> QED BY <2>1, <2>3 DEF from
<1> HIDE DEF layout
<1>6. /\ Fields(new) /\ new.layout = [k.layout EXCEPT ![target] = layout]
      /\ new.sessions = k.sessions /\ new.workspaces = k.workspaces /\ new.tabs = k.tabs
      /\ new.attachments = k.attachments
  <2>1. Fields(k)
    BY <1>4 DEF Whole
  <2> QED BY <2>1 DEF Fields
<1>7. \A u \in M : u \in terminals /\ Sits(h, u, SessionOfTab(h, t))
  BY <1>2, <1>3, TabSits
<1> HIDE DEF new, M
<1>8. /\ Whole(new, terminals) /\ Stays(h, new, terminals \ M) /\ DOMAIN new.layout = DOMAIN k.layout
      /\ \A u \in M : Sits(new, u, SessionOfTab(h, target))
  <2>1. /\ Whole(h, terminals) /\ M \subseteq terminals /\ Whole(k, terminals \ M)
        /\ Stays(h, k, terminals \ M)
        /\ target \in DOMAIN k.layout /\ target \in DOMAIN h.layout
        /\ k.layout[target] = h.layout[target]
    BY <1>1, <1>2, <1>3, <1>4, <1>7
  <2> QED BY <2>1, <1>5, <1>6, Gathered, SMTT(40)
<1>9. Numbered(new, terminals, next)
  BY <1>2, <1>4, <1>6, <1>8 DEF Numbered
<1>10. Entries(history', next)
  <2>1. next \in Nat /\ next <= next /\ t \in 1..next /\ target \in 1..next
    BY <1>2, <1>3 DEF Numbered
  <2>2. \A u \in {t, target} \ {t} : u \in DOMAIN h.layout <=> u \in DOMAIN new.layout
    BY <1>1, <1>3, <1>4, <1>8
  <2> QED BY <2>1, <2>2, <1>1, <1>8, FilesTwo
<1> QED BY <1>1, <1>4, <1>6, <1>7, <1>8, <1>9, <1>10, MoveEnds

LEMMA ExtractPaneKeeps ==
  ASSUME MuxInv, NEW p \in terminals, NEW w \in DOMAIN h.tabs, NEW before \in Anchors(h.tabs[w]),
         ExtractPane(p, w, before)
  PROVE  MuxInv' /\ Accounted
<1> DEFINE t == TabOf(h, p)  rest == Remaining(t, p)  tab == next + 1
           layout == [panes |-> <<p>>, zoomed |-> None]
           index == Place(h.tabs[w], before)
           l == InsertAt(h.tabs[w], index, tab)
           thin == [h.layout EXCEPT ![t] = rest]
           k == [h EXCEPT !.layout = thin]
           new == [h EXCEPT !.layout = With(thin, tab, layout), !.tabs = [h.tabs EXCEPT ![w] = l]]
           ev == Rearrangement(<<[kind |-> "Opened", workspace |-> w, tab |-> tab,
                                  layout |-> layout, index |-> index], LayoutStep(t, rest)>>)
           M == {p}
<1>1. /\ Commit(new, <<ev>>) /\ Changed /\ next' = tab /\ terminals' = terminals
      /\ MovesTo(M, SessionOfTab(h, t), SessionOf(h, w))
      /\ Record(LayoutChange(new, <<t, tab>>, {})) /\ rest.panes # <<>>
  BY DEF ExtractPane
<1>2. Whole(h, terminals) /\ Numbered(h, terminals, next)
  BY DEF MuxInv
<1>3. /\ t \in DOMAIN h.layout /\ p \in ToSet(h.layout[t].panes)
      /\ tab \in Nat /\ next <= tab /\ t \in 1..tab /\ tab \in 1..tab /\ t # tab
      /\ 1..next \subseteq 1..tab /\ tab \notin DOMAIN h.layout
  <2>1. t \in DOMAIN h.layout /\ p \in ToSet(h.layout[t].panes)
    BY <1>2, Houses
  <2> QED BY <2>1, <1>2 DEF Numbered
<1>4. Distinct(l) /\ ToSet(l) = ToSet(h.tabs[w]) \cup {tab}
  <2>1. Distinct(h.tabs[w]) /\ tab \notin ToSet(h.tabs[w])
    BY <1>2, <1>3, PartitionLists DEF Whole
  <2>2. index \in 1..Len(h.tabs[w])+1
    BY <2>1, PlaceIs
  <2> HIDE DEF tab, index
  <2> QED BY <2>1, <2>2, ListInsert
<1>5. GoodLayout(layout) /\ ToSet(layout.panes) = M
  BY SingleLayout
<1>6. k = Thinned(t, rest)
  BY <1>1 DEF Thinned
<1> HIDE DEF ev, l, layout, index
<1>7. /\ Fields(new) /\ Fields(k) /\ new.tabs = [k.tabs EXCEPT ![w] = l]
      /\ new.layout = With(k.layout, tab, layout) /\ k.tabs = h.tabs
      /\ k.workspaces = h.workspaces /\ k.attachments = h.attachments
      /\ new.sessions = k.sessions /\ new.workspaces = k.workspaces /\ new.attachments = k.attachments
  <2> HIDE DEF thin, tab, t, rest
  <2>1. Fields(h) /\ k = [h EXCEPT !.layout = thin]
        /\ new = [h EXCEPT !.layout = With(thin, tab, layout), !.tabs = [h.tabs EXCEPT ![w] = l]]
    BY <1>2 DEF Whole
  <2> HIDE DEF k, new
  <2>2. Fields(k) /\ k.layout = thin /\ k.tabs = h.tabs /\ k.sessions = h.sessions
        /\ k.workspaces = h.workspaces /\ k.attachments = h.attachments
    BY <2>1 DEF Fields
  <2>3. Fields(new) /\ new.layout = With(thin, tab, layout) /\ new.tabs = [h.tabs EXCEPT ![w] = l]
        /\ new.sessions = h.sessions /\ new.workspaces = h.workspaces
        /\ new.attachments = h.attachments
    BY <2>1 DEF Fields
  <2> QED BY <2>2, <2>3
<1>8. Whole(k, Others(terminals, p)) /\ Stays(h, k, Others(terminals, p)) /\ DOMAIN k.layout = DOMAIN h.layout
  <2>1. t = TabOf(h, p) /\ rest = Remaining(t, p)
        /\ k = Thinned(t, rest) /\ Whole(h, terminals) /\ p \in terminals
    BY <1>2, <1>6
  <2> HIDE DEF t, rest, k, M
  <2>2. Whole(k, Others(terminals, p)) /\ Stays(h, k, Others(terminals, p)) /\ ThinFields(k, t, rest)
    BY <2>1, PaneLeaves
  <2> QED BY <2>2, <1>1 DEF ThinFields
<1> HIDE DEF thin, k, new, t, rest, tab
<1>9. /\ Whole(new, terminals) /\ Stays(h, new, terminals \ M)
      /\ \A q \in M : Sits(new, q, SessionOf(h, w))
  <2> DEFINE P == Others(terminals, p)
  <2>1. P \cup M = terminals /\ P = terminals \ M /\ M \cap P = {}
    BY DEF Others
  <2> HIDE DEF P, M
  <2>2. Whole(k, P) /\ tab \notin DOMAIN k.layout /\ w \in DOMAIN k.tabs
        /\ ToSet(layout.panes) \cap P = {} /\ ToSet(l) = ToSet(k.tabs[w]) \cup {tab}
    BY <1>3, <1>4, <1>5, <1>7, <1>8, <2>1 DEF P
  <2>3. /\ Whole(new, P \cup ToSet(layout.panes)) /\ Stays(k, new, P)
        /\ \A q \in ToSet(layout.panes) : Sits(new, q, SessionOf(k, w))
    BY <2>2, <1>4, <1>5, <1>7, TabPut
  <2>4. SessionOf(k, w) = SessionOf(h, w)
    BY <1>7 DEF SessionOf
  <2>5. Stays(h, new, P)
    BY <2>3, <1>8 DEF Stays, P
  <2> QED BY <2>1, <2>3, <2>4, <2>5, <1>5
<1>10. \A q \in M : q \in terminals /\ Sits(h, q, SessionOfTab(h, t))
  BY <1>2, <1>3, TabSits
<1> HIDE DEF M
<1>11. Numbered(new, terminals, tab) /\ DOMAIN new.layout = DOMAIN h.layout \cup {tab}
  <2>1. DOMAIN new.layout = DOMAIN h.layout \cup {tab} /\ DOMAIN new.tabs = DOMAIN h.tabs
    BY <1>7, <1>8 DEF With
  <2> QED BY <2>1, <1>2, <1>3, <1>7 DEF Numbered
<1>12. Entries(history', tab)
  <2>1. \A u \in {t, tab} \ {tab} : u \in DOMAIN h.layout <=> u \in DOMAIN new.layout
    BY <1>3, <1>11
  <2> QED BY <2>1, <1>1, <1>3, <1>9, FilesTwo
<1> QED BY <1>1, <1>7, <1>9, <1>10, <1>11, <1>12, MoveEnds

LEMMA PlaceLonePaneKeeps ==
  ASSUME MuxInv, NEW p \in terminals, NEW w \in DOMAIN h.tabs, NEW before \in Anchors(h.tabs[w]),
         PlaceLonePane(p, w, before)
  PROVE  MuxInv' /\ Accounted
<1> DEFINE t == TabOf(h, p)
           index == Place(h.tabs[w], before)
           new == Ordered(Unordered(h, t), w, index, t)
           one == <<t>>
           ev == Rearrangement(<<[kind |-> "Placed", tab |-> t, workspace |-> w, index |-> index]>>)
           M == {p}
<1>1. /\ Commit(new, <<ev>>) /\ Changed /\ next' = next /\ terminals' = terminals
      /\ MovesTo(M, SessionOfTab(h, t), SessionOf(h, w))
      /\ Record(LayoutChange(new, one, {t})) /\ WorkspaceOf(h, t) # w
      /\ Len(h.layout[t].panes) = 1
  BY DEF PlaceLonePane
<1>2. Whole(h, terminals) /\ Numbered(h, terminals, next) /\ Entries(history, next)
  BY DEF MuxInv
<1>3. t \in DOMAIN h.layout /\ p \in ToSet(h.layout[t].panes)
  BY <1>2, Houses
<1>4. Distinct(one) /\ ToSet(one) = {t}
  BY ListSingle
<1>5. ToSet(h.layout[t].panes) = M
  <2>1. Distinct(h.layout[t].panes)
    BY <1>2, <1>3 DEF Whole, GoodLayout
  <2>2. DOMAIN h.layout[t].panes = 1..1
    BY <2>1, <1>1, ListFacts
  <2> QED BY <2>2, <1>3 DEF ToSet
<1>6. Room(Dropped(h.tabs[w], {t}), index)
  <2>1. Distinct(h.tabs[w]) /\ t \notin ToSet(h.tabs[w])
    BY <1>1, <1>2, Houses, PartitionLists DEF Whole
  <2>2. index \in 1..Len(h.tabs[w]) + 1 /\ Len(Dropped(h.tabs[w], {t})) = Len(h.tabs[w])
    BY <2>1, PlaceIs, DroppedLength
  <2> QED BY <2>2 DEF Room
<1> HIDE DEF ev, one, index
<1>7. /\ Whole(new, terminals) /\ Stays(h, new, terminals \ M)
      /\ \A q \in M : Sits(new, q, SessionOf(h, w))
      /\ MoveFields(h, new)
  <2> HIDE DEF new, t, M
  <2>1. /\ Whole(h, terminals) /\ t \in DOMAIN h.layout
        /\ new = Ordered(Unordered(h, t), w, index, t)
    BY <1>2, <1>3 DEF new
  <2>2. /\ Whole(new, terminals) /\ Stays(h, new, terminals \ ToSet(h.layout[t].panes))
        /\ \A q \in ToSet(h.layout[t].panes) : Sits(new, q, SessionOf(h, w))
        /\ MoveFields(h, new)
    BY <2>1, <1>6, TabMove
  <2> QED BY <2>2, <1>5
<1>8. \A q \in M : q \in terminals /\ Sits(h, q, SessionOfTab(h, t))
  BY <1>2, <1>3, TabSits
<1> HIDE DEF new, t, M
<1>9. Numbered(new, terminals, next) /\ new.attachments = h.attachments
  BY <1>2, <1>7 DEF Numbered, MoveFields
<1>10. Entries(history', next)
  <2> DEFINE placed == {t}
  <2>1. \A u \in ToSet(one) \ {t} :
           u \notin placed /\ (u \in DOMAIN h.layout <=> u \in DOMAIN new.layout)
    BY <1>4
  <2>2. ToSet(one) \subseteq 1..next /\ next \in Nat /\ next <= next /\ Record(LayoutChange(new, one, placed))
    BY <1>1, <1>2, <1>3, <1>4 DEF Numbered
  <2> HIDE DEF placed
  <2> QED BY <2>1, <2>2, <1>2, <1>4, <1>7, Files
<1> QED BY <1>1, <1>7, <1>8, <1>9, <1>10, MoveEnds

-----------------------------------------------------------------------------
(* Closes.                                                                 *)

LEMMA CommitsAre ==
  ASSUME Counts, NEW new, NEW events, Listed(events), Commit(new, events)
  PROVE  h' = new /\ seq' \in Nat /\ left' \in Nat /\ Feed(queue')
<1>1. h' = new /\ left' \in Nat /\ seq' \in Nat
  BY ListedIs DEF Commit, Spend, Emit, Counts
<1>2. Feed(queue')
  BY FeedEmits DEF Commit, Counts
<1> QED BY <1>1, <1>2 DEF Counts

(* The identities of a structure that shrank are among those handed out. *)
Shrinks(g, n) ==
    /\ DOMAIN n.workspaces \subseteq DOMAIN g.workspaces /\ DOMAIN n.tabs \subseteq DOMAIN g.tabs
    /\ DOMAIN n.layout \subseteq DOMAIN g.layout /\ DOMAIN n.attachments \subseteq DOMAIN g.attachments

(* Terminals that end, with their viewers. *)
LEMMA CloseEnds ==
  ASSUME MuxInv, NEW new, NEW events, Listed(events), Commit(new, events), Changed,
         NEW E, NEW Q, \A p : p \in Q <=> p \in terminals /\ p \notin E,
         Whole(new, Q), Stays(h, new, Q), Shrinks(h, new),
         \A a \in DOMAIN new.attachments : new.attachments[a] = h.attachments[a],
         terminals' = Q, viewers' \subseteq viewers,
         \A v \in viewers' : v[2] \notin E /\ v[1] \in DOMAIN new.attachments,
         UNCHANGED <<next, history>>
  PROVE  MuxInv' /\ Accounted
<1>1. /\ Whole(h, terminals) /\ Numbered(h, terminals, next) /\ Watches(h, terminals, viewers)
      /\ Entries(history, next) /\ Counts
  BY DEF MuxInv
<1>2. h' = new /\ seq' \in Nat /\ left' \in Nat /\ Feed(queue')
  BY <1>1, CommitsAre
<1>3. revision' = revision + 1 /\ revision' \in Nat
  BY <1>1 DEF Changed, Counts
<1>4. Numbered(new, Q, next)
  BY <1>1 DEF Numbered, Shrinks
<1>5. Watches(new, Q, viewers')
  <2>1. \A v \in viewers' : v[2] \in Q
    BY <1>1 DEF Watches
  <2>2. \A v \in viewers' : /\ v[2] \in Q /\ v[1] \in DOMAIN new.attachments
                            /\ new.attachments[v[1]] = h.attachments[v[1]]
    BY <2>1
  <2>3. \A v \in viewers' : \A s : Sits(h, v[2], s) => Sits(new, v[2], s)
    BY <2>1 DEF Stays
  <2>4. viewers' \in SUBSET viewers
    OBVIOUS
  <2> DEFINE U == viewers'
  <2> HIDE DEF U
  <2>5. /\ U \in SUBSET viewers
        /\ \A v \in U : /\ v[2] \in Q /\ v[1] \in DOMAIN new.attachments
                            /\ new.attachments[v[1]] = h.attachments[v[1]]
        /\ \A v \in U : \A s : Sits(h, v[2], s) => Sits(new, v[2], s)
    BY <2>2, <2>3, <2>4 DEF U
  <2>6. Watches(new, Q, U)
    BY <2>5, <1>1, WatchesKept
  <2> QED BY <2>6 DEF U
<1> QED BY <1>1, <1>2, <1>3, <1>4, <1>5 DEF MuxInv, Counts, Accounted

LEMMA CloseTabsKeeps ==
  ASSUME MuxInv, NEW tabs, Len(tabs) \in Nat, DOMAIN tabs = 1..Len(tabs),
         ToSet(tabs) \subseteq DOMAIN h.layout, CloseTabs(tabs)
  PROVE  MuxInv' /\ Accounted
<1> DEFINE T == ToSet(tabs)  new == WithoutTabs(h, T)  E == PanesIn(h, T)  Q == terminals \ E
           events == [i \in DOMAIN tabs |-> [kind |-> "TabClosed", tab |-> tabs[i]]]
<1>1. /\ Commit(new, events) /\ Changed /\ UNCHANGED <<next, history>>
      /\ terminals' = Q /\ viewers' = {v \in viewers : v[2] \notin E}
  BY DEF CloseTabs, CloseTerminals, RevokeTerminals
<1>2. Listed(events)
  <2>1. DOMAIN events = 1..Len(tabs) /\ events = [i \in 1..Len(tabs) |-> events[i]]
    OBVIOUS
  <2> HIDE DEF events
  <2> QED BY <2>1, ListedIs
<1>3. Whole(h, terminals) /\ Watches(h, terminals, viewers)
  BY DEF MuxInv
<1>4. \A p : p \in Q <=> p \in terminals /\ p \notin E
  OBVIOUS
<1>5. /\ Whole(new, Q) /\ Stays(h, new, Q)
      /\ new.workspaces = h.workspaces /\ new.attachments = h.attachments
      /\ DOMAIN new.tabs = DOMAIN h.tabs /\ DOMAIN new.layout = DOMAIN h.layout \ T
  <2> HIDE DEF T
  <2>1. /\ Whole(new, terminals \ PanesIn(h, T)) /\ Stays(h, new, terminals \ PanesIn(h, T))
        /\ new.workspaces = h.workspaces /\ new.attachments = h.attachments
        /\ DOMAIN new.tabs = DOMAIN h.tabs /\ DOMAIN new.layout = DOMAIN h.layout \ T
        /\ \A w \in DOMAIN h.tabs : ToSet(new.tabs[w]) = ToSet(h.tabs[w]) \ T
        /\ \A t \in DOMAIN h.layout \ T : new.layout[t] = h.layout[t]
    BY <1>3, TabsLeave DEF T
  <2> QED BY <2>1
<1> HIDE DEF new, events, E, Q, T
<1>6. Shrinks(h, new)
  BY <1>5 DEF Shrinks
<1>7. \A v \in viewers' : v[2] \notin E /\ v[1] \in DOMAIN new.attachments
  BY <1>1, <1>3, <1>5 DEF Watches
<1>8. viewers' \subseteq viewers /\ terminals' = Q
      /\ \A a \in DOMAIN new.attachments : new.attachments[a] = h.attachments[a]
  BY <1>1, <1>5
<1> QED BY <1>1, <1>2, <1>4, <1>5, <1>6, <1>7, <1>8, CloseEnds

LEMMA CloseTabKeeps ==
  ASSUME MuxInv, NEW t \in DOMAIN h.layout, CloseTab(t)
  PROVE  MuxInv' /\ Accounted
<1> DEFINE T == {t}  new == WithoutTabs(h, T)  E == PanesIn(h, T)  Q == terminals \ E
           e == [kind |-> "TabClosed", tab |-> t]
<1>1. E = ToSet(h.layout[t].panes)
  BY DEF PanesIn
<1>2. /\ Commit(new, <<e>>) /\ Changed /\ UNCHANGED <<next, history>>
      /\ terminals' = Q /\ viewers' = {v \in viewers : v[2] \notin E}
  BY <1>1 DEF CloseTab, WithoutTab, CloseTerminals, RevokeTerminals
<1>3. Whole(h, terminals) /\ Watches(h, terminals, viewers) /\ Listed(<<e>>)
  BY ListedSingle DEF MuxInv
<1>4. \A p : p \in Q <=> p \in terminals /\ p \notin E
  OBVIOUS
<1>5. /\ Whole(new, Q) /\ Stays(h, new, Q)
      /\ new.workspaces = h.workspaces /\ new.attachments = h.attachments
      /\ DOMAIN new.tabs = DOMAIN h.tabs /\ DOMAIN new.layout = DOMAIN h.layout \ T
  <2>0. T \subseteq DOMAIN h.layout
    OBVIOUS
  <2> HIDE DEF T
  <2>1. /\ Whole(new, terminals \ PanesIn(h, T)) /\ Stays(h, new, terminals \ PanesIn(h, T))
        /\ new.workspaces = h.workspaces /\ new.attachments = h.attachments
        /\ DOMAIN new.tabs = DOMAIN h.tabs /\ DOMAIN new.layout = DOMAIN h.layout \ T
        /\ \A w \in DOMAIN h.tabs : ToSet(new.tabs[w]) = ToSet(h.tabs[w]) \ T
        /\ \A u \in DOMAIN h.layout \ T : new.layout[u] = h.layout[u]
    BY <2>0, <1>3, TabsLeave
  <2> QED BY <2>1
<1> DEFINE events == <<e>>
<1> HIDE DEF new, events, E, Q, T
<1>6. Shrinks(h, new)
  BY <1>5 DEF Shrinks
<1>7. \A v \in viewers' : v[2] \notin E /\ v[1] \in DOMAIN new.attachments
  BY <1>2, <1>3, <1>5 DEF Watches
<1>8. /\ viewers' \subseteq viewers /\ Commit(new, events) /\ Listed(events)
      /\ \A a \in DOMAIN new.attachments : new.attachments[a] = h.attachments[a]
  BY <1>2, <1>3, <1>5 DEF events
<1> QED BY <1>2, <1>4, <1>5, <1>6, <1>7, <1>8, CloseEnds

(* A list without its last member is gone; otherwise the pane alone ends. *)
LEMMA ClosePaneKeeps ==
  ASSUME MuxInv, NEW p \in terminals, ClosePane(p)
  PROVE  MuxInv' /\ Accounted
<1> DEFINE t == TabOf(h, p)  rest == Remaining(t, p)
<1>0. Whole(h, terminals) /\ Watches(h, terminals, viewers)
  BY DEF MuxInv
<1>1. CASE rest.panes = <<>>
  <2>1. CloseTab(t)
    BY <1>1 DEF ClosePane
  <2>2. t \in DOMAIN h.layout
    BY <1>0, Houses
  <2> HIDE DEF t
  <2> QED BY <2>1, <2>2, CloseTabKeeps
<1>2. CASE rest.panes # <<>>
  <2> DEFINE k == [h EXCEPT !.layout[t] = rest]  events == <<LayoutEvent(t, rest)>>
             E == {p}  Q == Others(terminals, p)
  <2>1. /\ Commit(k, events) /\ Changed /\ UNCHANGED <<next, history>>
        /\ terminals' = terminals \ E /\ viewers' = {v \in viewers : v[2] \notin E}
    BY <1>2 DEF ClosePane, CloseTerminals, RevokeTerminals
  <2>2. Listed(events) /\ terminals' = Q /\ \A q : q \in Q <=> q \in terminals /\ q \notin E
    BY <2>1, ListedSingle DEF Others
  <2>3. k = Thinned(t, rest) /\ t = TabOf(h, p) /\ rest = Remaining(t, p)
    BY <1>2 DEF Thinned
  <2> HIDE DEF k, t, rest, events, E, Q
  <2>4. Whole(k, Others(terminals, p)) /\ Stays(h, k, Others(terminals, p)) /\ ThinFields(k, t, rest)
    BY <2>3, <1>0, PaneLeaves
  <2>5. Shrinks(h, k) /\ k.attachments = h.attachments
    BY <2>4 DEF Shrinks, ThinFields
  <2>6. /\ viewers' \subseteq viewers /\ Whole(k, Q) /\ Stays(h, k, Q)
        /\ \A v \in viewers' : v[2] \notin E /\ v[1] \in DOMAIN k.attachments
        /\ \A a \in DOMAIN k.attachments : k.attachments[a] = h.attachments[a]
    BY <2>1, <2>4, <2>5, <1>0 DEF Watches, Q
  <2> QED BY <2>1, <2>2, <2>5, <2>6, CloseEnds
<1> QED BY <1>1, <1>2

LEMMA CloseWorkspaceKeeps ==
  ASSUME MuxInv, NEW w \in DOMAIN h.tabs, CloseWorkspace(w)
  PROVE  MuxInv' /\ Accounted
<1> DEFINE W == {w}  new == WithoutWorkspaces(h, W)  E == PanesIn(h, TabsIn(h, W))  Q == terminals \ E
           events == <<[kind |-> "WorkspaceClosed", workspace |-> w]>>
<1>1. TabsIn(h, W) = ToSet(h.tabs[w])
  BY DEF TabsIn
<1>2. /\ Commit(new, events) /\ Changed /\ UNCHANGED <<next, history>>
      /\ terminals' = Q /\ viewers' = {v \in viewers : v[2] \notin E}
  BY <1>1 DEF CloseWorkspace, CloseTerminals, RevokeTerminals
<1>3. Whole(h, terminals) /\ Watches(h, terminals, viewers) /\ Listed(events)
  BY ListedSingle DEF MuxInv
<1>4. \A p : p \in Q <=> p \in terminals /\ p \notin E
  OBVIOUS
<1>5. /\ Whole(new, Q) /\ Stays(h, new, Q)
      /\ new.attachments = h.attachments /\ DOMAIN new.workspaces = DOMAIN h.workspaces
  <2>0. W \subseteq DOMAIN h.tabs
    OBVIOUS
  <2> HIDE DEF W
  <2>1. /\ Whole(new, terminals \ PanesIn(h, TabsIn(h, W)))
        /\ Stays(h, new, terminals \ PanesIn(h, TabsIn(h, W)))
        /\ new.sessions = h.sessions /\ new.attachments = h.attachments
        /\ DOMAIN new.workspaces = DOMAIN h.workspaces
        /\ \A s \in DOMAIN h.workspaces : ToSet(new.workspaces[s]) = ToSet(h.workspaces[s]) \ W
    BY <2>0, <1>3, WorkspacesLeave
  <2> QED BY <2>1
<1>6. DOMAIN new.tabs \subseteq DOMAIN h.tabs /\ DOMAIN new.layout \subseteq DOMAIN h.layout
  <2> HIDE DEF W
  <2>1. Fields(h) /\ new = [h EXCEPT !.workspaces = [s \in DOMAIN h.workspaces |-> Dropped(h.workspaces[s], W)],
                       !.tabs = Without(h.tabs, W), !.layout = Without(h.layout, TabsIn(h, W))]
    BY <1>3 DEF WithoutWorkspaces, Whole
  <2> HIDE DEF new
  <2>2. new.tabs = Without(h.tabs, W) /\ new.layout = Without(h.layout, TabsIn(h, W))
    BY <2>1 DEF Fields
  <2> QED BY <2>2 DEF Without, Restrict
<1> HIDE DEF new, events, E, Q, W
<1>7. Shrinks(h, new)
  BY <1>5, <1>6 DEF Shrinks
<1>8. /\ viewers' \subseteq viewers
      /\ \A v \in viewers' : v[2] \notin E /\ v[1] \in DOMAIN new.attachments
      /\ \A a \in DOMAIN new.attachments : new.attachments[a] = h.attachments[a]
  BY <1>2, <1>3, <1>5 DEF Watches
<1> QED BY <1>2, <1>3, <1>4, <1>5, <1>7, <1>8, CloseEnds

LEMMA CloseSessionKeeps ==
  ASSUME MuxInv, NEW s \in DOMAIN h.workspaces, CloseSession(s)
  PROVE  MuxInv' /\ Accounted
<1> DEFINE W == ToSet(h.workspaces[s])  T == TabsIn(h, W)  new == WithoutSession(h, s)
           E == PanesIn(h, T)  Q == terminals \ E
           events == <<[kind |-> "SessionClosed", session |-> s]>>
<1>1. /\ Commit(new, events) /\ Changed /\ UNCHANGED <<next, history>>
      /\ terminals' = Q
      /\ viewers' = {v \in viewers : v[2] \notin E /\ h.attachments[v[1]] # s}
  BY DEF CloseSession
<1>2. Whole(h, terminals) /\ Watches(h, terminals, viewers) /\ Listed(events)
  BY ListedSingle DEF MuxInv
<1>3. \A p : p \in Q <=> p \in terminals /\ p \notin E
  OBVIOUS
<1>4. /\ Whole(new, Q) /\ Stays(h, new, Q)
      /\ DOMAIN new.attachments = {a \in DOMAIN h.attachments : h.attachments[a] # s}
      /\ \A a \in DOMAIN new.attachments : new.attachments[a] = h.attachments[a]
  BY <1>2, SessionLeaves
<1>5. /\ DOMAIN new.workspaces \subseteq DOMAIN h.workspaces
      /\ DOMAIN new.tabs \subseteq DOMAIN h.tabs /\ DOMAIN new.layout \subseteq DOMAIN h.layout
  <2> DEFINE g == WithoutWorkspaces(h, W)
  <2> HIDE DEF W
  <2>1. Fields(h) /\ g = [h EXCEPT !.workspaces = [r \in DOMAIN h.workspaces |-> Dropped(h.workspaces[r], W)],
                       !.tabs = Without(h.tabs, W), !.layout = Without(h.layout, TabsIn(h, W))]
    BY <1>2 DEF WithoutWorkspaces, Whole
  <2> HIDE DEF g
  <2>2. Fields(g) /\ DOMAIN g.workspaces = DOMAIN h.workspaces
        /\ g.tabs = Without(h.tabs, W) /\ g.layout = Without(h.layout, TabsIn(h, W))
    BY <2>1 DEF Fields
  <2>3. new = [g EXCEPT !.sessions = Dropped(g.sessions, {s}),
                        !.workspaces = Without(g.workspaces, {s}),
                        !.attachments = Restrict(g.attachments,
                                          {a \in DOMAIN g.attachments : g.attachments[a] # s})]
    BY DEF WithoutSession, g, W
  <2> HIDE DEF new
  <2>4. new.workspaces = Without(g.workspaces, {s}) /\ new.tabs = g.tabs /\ new.layout = g.layout
    BY <2>2, <2>3 DEF Fields
  <2> QED BY <2>2, <2>4 DEF Without, Restrict
<1> HIDE DEF new, events, E, Q, T, W
<1>6. Shrinks(h, new)
  BY <1>4, <1>5 DEF Shrinks
<1>7. /\ viewers' \subseteq viewers
      /\ \A v \in viewers' : v[2] \notin E /\ v[1] \in DOMAIN new.attachments
  BY <1>1, <1>2, <1>4 DEF Watches
<1> QED BY <1>1, <1>2, <1>3, <1>4, <1>6, <1>7, CloseEnds

LEMMA ShutdownKeeps ==
  ASSUME MuxInv, Shutdown
  PROVE  MuxInv' /\ Accounted
<1> DEFINE none == {}  new == EmptyHierarchy
           events == IF h.sessions = <<>> THEN <<>> ELSE <<[kind |-> "Reset"]>>
<1>1. /\ Commit(new, events) /\ Changed /\ UNCHANGED <<next, history>>
      /\ terminals' = none /\ viewers' = {v \in viewers : v[2] \notin terminals}
  BY DEF Shutdown, CloseTerminals, RevokeTerminals
<1>2. Watches(h, terminals, viewers) /\ Listed(events)
  BY ListedNone, ListedSingle DEF MuxInv
<1>3. Whole(new, none)
  BY NothingLeft
<1>4. viewers' = none
  BY <1>1, <1>2 DEF Watches
<1>5. Stays(h, new, none)
  BY DEF Stays
<1>6. /\ DOMAIN new.workspaces = {} /\ DOMAIN new.tabs = {}
      /\ DOMAIN new.layout = {} /\ DOMAIN new.attachments = {}
  BY DEF EmptyHierarchy
<1> HIDE DEF new, events
<1>7. Shrinks(h, new)
  BY <1>6 DEF Shrinks
<1>8. /\ \A p : p \in none <=> p \in terminals /\ p \notin terminals
      /\ \A a \in DOMAIN new.attachments : new.attachments[a] = h.attachments[a]
      /\ viewers' \subseteq viewers
      /\ \A v \in viewers' : v[2] \notin terminals /\ v[1] \in DOMAIN new.attachments
  BY <1>4, <1>6
<1> HIDE DEF none
<1> QED BY <1>1, <1>2, <1>3, <1>5, <1>7, <1>8, CloseEnds

-----------------------------------------------------------------------------
(* Attachments and viewers.                                                *)

LEMMA DetachSessionKeeps ==
  ASSUME MuxInv, NEW a \in DOMAIN h.attachments, DetachSession(a)
  PROVE  MuxInv' /\ Accounted
<1> DEFINE l == Without(h.attachments, {a})  new == [h EXCEPT !.attachments = l]  none == {}
           events == <<[kind |-> "AttachmentDetached", attachment |-> a]>>
<1>1. /\ Commit(new, events) /\ Changed /\ UNCHANGED <<next, history>>
      /\ terminals' = terminals /\ viewers' = {v \in viewers : v[1] # a}
  BY DEF DetachSession, RevokeAttachment
<1>2. Whole(h, terminals) /\ Watches(h, terminals, viewers) /\ Listed(events)
  BY ListedSingle DEF MuxInv
<1>3. /\ DOMAIN l = DOMAIN h.attachments \ {a} /\ Fun(l)
      /\ \A b \in DOMAIN l : l[b] = h.attachments[b]
  BY DEF Without, Restrict, Fun
<1> HIDE DEF l
<1>4. /\ Fields(new) /\ new.attachments = l
      /\ new.sessions = h.sessions /\ new.workspaces = h.workspaces /\ new.tabs = h.tabs
      /\ new.layout = h.layout
  BY <1>2 DEF Whole, Fields
<1> HIDE DEF new, events
<1>5. Whole(new, terminals) /\ Stays(h, new, terminals)
  <2>1. /\ Whole(h, terminals) /\ Fields(new) /\ Fun(new.attachments)
        /\ \A b \in DOMAIN new.attachments : new.attachments[b] \in DOMAIN h.workspaces
    BY <1>2, <1>3, <1>4 DEF Whole
  <2> QED BY <2>1, <1>4, AttachmentsChange
<1>6. Shrinks(h, new)
  BY <1>3, <1>4 DEF Shrinks
<1>7. /\ \A p : p \in terminals <=> p \in terminals /\ p \notin none
      /\ \A b \in DOMAIN new.attachments : new.attachments[b] = h.attachments[b]
      /\ viewers' \subseteq viewers
      /\ \A v \in viewers' : v[2] \notin none /\ v[1] \in DOMAIN new.attachments
  BY <1>1, <1>2, <1>3, <1>4 DEF Watches
<1> HIDE DEF none
<1> QED BY <1>1, <1>2, <1>5, <1>6, <1>7, CloseEnds

LEMMA RetargetAttachmentKeeps ==
  ASSUME MuxInv, NEW a \in DOMAIN h.attachments, NEW s \in DOMAIN h.workspaces,
         RetargetAttachment(a, s)
  PROVE  MuxInv' /\ Accounted
<1> DEFINE l == [h.attachments EXCEPT ![a] = s]  new == [h EXCEPT !.attachments = l]
           e == [kind |-> "AttachmentRetargeted", attachment |-> a, session |-> s]
<1>1. /\ Commit(new, <<e>>) /\ Changed /\ UNCHANGED <<next, history>>
      /\ terminals' = terminals /\ viewers' = {v \in viewers : v[1] # a}
  BY DEF RetargetAttachment, RevokeAttachment
<1>2. /\ Whole(h, terminals) /\ Watches(h, terminals, viewers) /\ Numbered(h, terminals, next)
      /\ Entries(history, next)
  BY DEF MuxInv
<1>3. /\ DOMAIN l = DOMAIN h.attachments /\ Fun(l) /\ l[a] = s
      /\ \A b \in DOMAIN l \ {a} : l[b] = h.attachments[b]
  BY <1>2 DEF Whole, Fun
<1> HIDE DEF l
<1>4. /\ Fields(new) /\ new.attachments = l
      /\ new.sessions = h.sessions /\ new.workspaces = h.workspaces /\ new.tabs = h.tabs
      /\ new.layout = h.layout
  BY <1>2 DEF Whole, Fields
<1> HIDE DEF new, e
<1>5. Whole(new, terminals) /\ Stays(h, new, terminals)
  <2>1. /\ Whole(h, terminals) /\ Fields(new) /\ Fun(new.attachments)
        /\ \A b \in DOMAIN new.attachments : new.attachments[b] \in DOMAIN h.workspaces
    BY <1>2, <1>3, <1>4 DEF Whole
  <2> QED BY <2>1, <1>4, AttachmentsChange
<1>6. Numbered(new, terminals, next)
  BY <1>2, <1>3, <1>4 DEF Numbered
<1>7. Watches(new, terminals, viewers')
  <2> DEFINE U == viewers'
  <2>1. /\ U \in SUBSET viewers
        /\ \A v \in U : /\ v[2] \in terminals /\ v[1] \in DOMAIN new.attachments
                        /\ new.attachments[v[1]] = h.attachments[v[1]]
        /\ \A v \in U : \A r : Sits(h, v[2], r) => Sits(new, v[2], r)
    BY <1>1, <1>2, <1>3, <1>4, <1>5 DEF Watches, Stays
  <2> HIDE DEF U
  <2>2. Watches(new, terminals, U)
    BY <2>1, <1>2, WatchesKept
  <2> QED BY <2>2 DEF U
<1> QED BY <1>1, <1>2, <1>5, <1>6, <1>7, Advanced

LEMMA SubscribeTerminalKeeps ==
  ASSUME MuxInv, NEW a \in DOMAIN h.attachments, NEW p \in terminals, SubscribeTerminal(a, p)
  PROVE  MuxInv' /\ Accounted
<1>1. /\ Whole(h, terminals) /\ Watches(h, terminals, viewers) /\ Counts
  BY DEF MuxInv
<1>2. Sits(h, p, h.attachments[a])
  BY <1>1, SitsIs DEF SubscribeTerminal
<1>3. Watches(h, terminals, viewers \cup {<<a, p>>})
  BY <1>1, <1>2 DEF Watches
<1>4. /\ viewers' = viewers \cup {<<a, p>>} /\ left' \in Nat
      /\ UNCHANGED <<h, terminals, next, revision, seq, queue, history>>
  BY <1>1 DEF SubscribeTerminal, Spend, Counts
<1> QED BY <1>1, <1>3, <1>4 DEF MuxInv, Counts, Accounted, SameScope

-----------------------------------------------------------------------------
(* Restores.                                                               *)

LEMMA RestoredIs ==
  ASSUME NEW from, NEW now, NEW to, NEW T, Recorded(to, T), NEW t \in DOMAIN to
  PROVE  /\ GoodLayout(RestoredLayout(from, now, to, t))
         /\ RestoredLayout(from, now, to, t).panes = to[t].layout.panes
<1> DEFINE s == to[t].layout.panes
<1>1. GoodLayout(to[t].layout) /\ Distinct(s) /\ s # <<>>
  BY DEF Recorded, GoodLayout
<1>2. CASE t \in DOMAIN now
  <2> DEFINE z == IF /\ from[t].layout.zoomed # to[t].layout.zoomed
                     /\ from[t].layout.zoomed = now[t].layout.zoomed
                  THEN to[t].layout.zoomed ELSE now[t].layout.zoomed
             l == [panes |-> s, zoomed |-> KeptZoom(s, z)]
  <2>1. RestoredLayout(from, now, to, t) = l
    BY <1>2 DEF RestoredLayout, RestoredZoom
  <2> HIDE DEF z, s
  <2>2. GoodLayout(l) /\ l.panes = s
    BY <1>1, KeptZoomIs
  <2> QED BY <2>1, <2>2 DEF s
<1>3. CASE t \notin DOMAIN now
  BY <1>1, <1>3 DEF RestoredLayout, GoodLayout
<1> QED BY <1>2, <1>3

Held(side) == UNION {ToSet(side[t].layout.panes) : t \in DOMAIN side}

LEMMA HeldIs ==
  ASSUME NEW side, NEW p
  PROVE  p \in Held(side) <=> \E t \in DOMAIN side : p \in ToSet(side[t].layout.panes)
BY DEF Held

(* The panes of the tabs a restore opens again. *)
Reopened(now, to) == {p \in Held(to) : \E t \in DOMAIN to \ DOMAIN now : p \in ToSet(to[t].layout.panes)}

(* The tabs T as they stand, and a side that holds the same panes. *)
Fits(now, to, T) ==
    /\ Recorded(to, T) /\ Recorded(now, T)
    /\ DOMAIN now = T \cap DOMAIN h.layout
    /\ \A t \in DOMAIN now : /\ now[t].layout = h.layout[t]
                             /\ now[t].session = SessionOfTab(h, t)
                             /\ now[t].workspace = WorkspaceOf(h, t)
    /\ Held(now) = Held(to)

(* The panes of a tab after the clearing. *)
Cleaned(to, T, t) == IF t \in T THEN to[t].layout.panes ELSE h.layout[t].panes

(* The lists of panes of the tabs that stay hold all panes but the reopened. *)
LEMMA ClearedPanes ==
  ASSUME NEW P, Whole(h, P), NEW now, NEW to, NEW T, Fits(now, to, T),
         NEW f, DOMAIN f = DOMAIN h.layout \ TakenAway(to, now),
         \A t \in DOMAIN f : f[t] = Cleaned(to, T, t)
  PROVE  Partition(f, P \ Reopened(now, to))
<1>1. /\ \A t \in DOMAIN h.layout : Distinct(h.layout[t].panes) /\ ToSet(h.layout[t].panes) \subseteq P
      /\ \A p \in P : \E t \in DOMAIN h.layout : p \in ToSet(h.layout[t].panes)
      /\ \A t, u \in DOMAIN h.layout :
            t # u => ToSet(h.layout[t].panes) \cap ToSet(h.layout[u].panes) = {}
  <2>1. Partition(PaneLists(h.layout), P)
    BY DEF Whole
  <2> QED BY <2>1, PaneListsIs, PartitionLists
<1>2. /\ \A t \in DOMAIN f \cap T : t \in DOMAIN now /\ t \in DOMAIN to
      /\ \A t \in DOMAIN f : t \in DOMAIN h.layout
      /\ \A t \in DOMAIN now \cap DOMAIN to : t \in DOMAIN f /\ t \in T
      /\ \A t \in DOMAIN h.layout \ T : t \in DOMAIN f
  BY DEF Fits, TakenAway, Recorded
<1>3. \A p : p \in Held(now) => p \in P /\ \A t \in DOMAIN h.layout \ T : p \notin ToSet(h.layout[t].panes)
  <2>1. /\ \A t \in DOMAIN now : t \in T /\ t \in DOMAIN h.layout /\ now[t].layout = h.layout[t]
    BY DEF Fits
  <2> TAKE p
  <2> HAVE p \in Held(now)
  <2>2. PICK u \in DOMAIN now : p \in ToSet(now[u].layout.panes)
    BY HeldIs
  <2>3. u \in T /\ u \in DOMAIN h.layout /\ p \in ToSet(h.layout[u].panes)
    BY <2>1, <2>2
  <2> QED BY <2>3, <1>1
<1>4. \A p : p \in Held(now) <=> p \in Held(to)
  BY DEF Fits
<1>5. \A t \in DOMAIN f : Distinct(f[t]) /\ ToSet(f[t]) \subseteq P \ Reopened(now, to)
  <2>1. CASE TRUE
    <3> TAKE t \in DOMAIN f
    <3>1. CASE t \in T
      <4>1. f[t] = to[t].layout.panes /\ t \in DOMAIN to /\ t \in DOMAIN now
        BY <3>1, <1>2 DEF Cleaned
      <4>2. Distinct(f[t]) /\ ToSet(f[t]) \subseteq Held(to)
        BY <4>1, HeldIs DEF Fits, Recorded, GoodLayout
      <4>3. ASSUME NEW p \in ToSet(f[t]) PROVE p \notin Reopened(now, to)
        BY <4>1, <4>3 DEF Reopened, Fits, Recorded
      <4> QED BY <4>2, <4>3, <1>3, <1>4
    <3>2. CASE t \notin T
      <4>1. f[t] = h.layout[t].panes /\ t \in DOMAIN h.layout \ T
        BY <3>2, <1>2 DEF Cleaned
      <4>2. Reopened(now, to) \subseteq Held(to)
        BY DEF Reopened
      <4> QED BY <4>1, <4>2, <1>1, <1>3, <1>4
    <3> QED BY <3>1, <3>2
  <2> QED BY <2>1
<1>6. ASSUME NEW p \in P \ Reopened(now, to)
      PROVE  \E t \in DOMAIN f : p \in ToSet(f[t])
  <2>1. PICK t \in DOMAIN h.layout : p \in ToSet(h.layout[t].panes)
    BY <1>1
  <2>2. CASE t \in T
    <3>1. p \in Held(to)
      BY <2>1, <2>2, <1>4, HeldIs DEF Fits
    <3>2. PICK u \in DOMAIN to : p \in ToSet(to[u].layout.panes)
      BY <3>1, HeldIs
    <3>3. u \in DOMAIN now
      BY <3>1, <3>2, <1>6 DEF Reopened
    <3> QED BY <3>2, <3>3, <1>2 DEF Cleaned
  <2>3. CASE t \notin T
    BY <2>1, <2>3, <1>2 DEF Cleaned
  <2> QED BY <2>2, <2>3
<1>7. ASSUME NEW t \in DOMAIN f, NEW u \in DOMAIN f, t # u, NEW p \in ToSet(f[t]), p \in ToSet(f[u])
      PROVE  FALSE
  <2>1. CASE t \in T /\ u \in T
    <3>1. /\ t \in DOMAIN to /\ u \in DOMAIN to
          /\ p \in ToSet(to[t].layout.panes) /\ p \in ToSet(to[u].layout.panes)
      BY <2>1, <1>2, <1>7 DEF Cleaned
    <3>2. \A a, b \in DOMAIN to :
            a # b => ToSet(to[a].layout.panes) \cap ToSet(to[b].layout.panes) = {}
      BY DEF Fits, Recorded
    <3> QED BY <3>1, <3>2, <1>7
  <2>2. CASE t \in T /\ u \notin T
    <3>1. p \in Held(to)
      BY <2>2, <1>2, <1>7, HeldIs DEF Cleaned
    <3> QED BY <3>1, <2>2, <1>2, <1>3, <1>4, <1>7 DEF Cleaned
  <2>3. CASE t \notin T /\ u \in T
    <3>1. p \in Held(to)
      BY <2>3, <1>2, <1>7, HeldIs DEF Cleaned
    <3> QED BY <3>1, <2>3, <1>2, <1>3, <1>4, <1>7 DEF Cleaned
  <2>4. CASE t \notin T /\ u \notin T
    BY <2>4, <1>1, <1>2, <1>7 DEF Cleaned
  <2> QED BY <2>1, <2>2, <2>3, <2>4
<1>8. \A t, u \in DOMAIN f : t # u => ToSet(f[t]) \cap ToSet(f[u]) = {}
  BY <1>7
<1> DEFINE Q == P \ Reopened(now, to)
<1>9. /\ \A t \in DOMAIN f : Distinct(f[t]) /\ ToSet(f[t]) \subseteq Q
      /\ \A p \in Q : \E t \in DOMAIN f : p \in ToSet(f[t])
  BY <1>5, <1>6
<1> HIDE DEF Q
<1>10. Partition(f, Q)
  BY <1>8, <1>9, PartitionLists
<1> QED BY <1>10 DEF Q

(* The structure between the removals and the insertions of a restore. *)
ClearedFields(g, now, to, T) ==
    /\ g.workspaces = h.workspaces /\ g.attachments = h.attachments
    /\ DOMAIN g.tabs = DOMAIN h.tabs
    /\ \A w \in DOMAIN h.tabs : ToSet(g.tabs[w]) = ToSet(h.tabs[w]) \ TakenAway(to, now)
    /\ DOMAIN g.layout = DOMAIN h.layout \ TakenAway(to, now)
    /\ \A t \in DOMAIN g.layout : g.layout[t].panes = Cleaned(to, T, t)

LEMMA ClearedIs ==
  ASSUME NEW P, Whole(h, P), NEW now, NEW to, NEW T, Fits(now, to, T), NEW from,
         NEW g, g = Cleared(from, now, to)
  PROVE  Whole(g, P \ Reopened(now, to)) /\ ClearedFields(g, now, to, T)
<1> DEFINE A == TakenAway(to, now)
           R(t) == RestoredLayout(from, now, to, t)
           l == [t \in DOMAIN h.layout |-> IF t \in Relaid(from, now, to) THEN R(t) ELSE h.layout[t]]
           mid == [h EXCEPT !.layout = l]
<1>1. Fields(mid) /\ mid.layout = l /\ mid.tabs = h.tabs /\ mid.sessions = h.sessions
      /\ mid.workspaces = h.workspaces /\ mid.attachments = h.attachments
  <2>1. Fields(h)
    BY DEF Whole
  <2> HIDE DEF l
  <2> QED BY <2>1 DEF Fields
<1>2. g = WithoutTabs(mid, A)
  BY DEF Cleared
<1> HIDE DEF mid, A, R
<1>3. /\ Fields(g) /\ g.layout = Without(l, A) /\ g.tabs = Dropping(h.tabs, A)
      /\ g.sessions = h.sessions /\ g.workspaces = h.workspaces /\ g.attachments = h.attachments
  <2> HIDE DEF l
  <2>1. g = [mid EXCEPT !.tabs = Dropping(mid.tabs, A), !.layout = Without(mid.layout, A)]
    BY <1>2 DEF WithoutTabs, Dropping
  <2> QED BY <1>1, <2>1 DEF Fields
<1>4. /\ Fun(g.layout) /\ DOMAIN g.layout = DOMAIN h.layout \ A
      /\ \A t \in DOMAIN g.layout : g.layout[t] = IF t \in Relaid(from, now, to) THEN R(t) ELSE h.layout[t]
  BY <1>3 DEF Without, Restrict, Fun
<1> HIDE DEF l
<1>5. \A t \in DOMAIN g.layout : GoodLayout(g.layout[t]) /\ g.layout[t].panes = Cleaned(to, T, t)
  <2> TAKE t \in DOMAIN g.layout
  <2>1. CASE t \in T
    <3>1. t \in DOMAIN now /\ t \in DOMAIN to /\ now[t].layout = h.layout[t]
      BY <2>1, <1>4 DEF Fits, A, TakenAway
    <3>2. GoodLayout(R(t)) /\ R(t).panes = to[t].layout.panes
      BY <3>1, RestoredIs DEF Fits, R
    <3>3. g.layout[t] = R(t)
      BY <1>4, <3>1 DEF Relaid, R
    <3> QED BY <2>1, <3>2, <3>3 DEF Cleaned
  <2>2. CASE t \notin T
    <3>1. t \notin Relaid(from, now, to)
      BY <2>2 DEF Relaid, Fits
    <3> QED BY <2>2, <3>1, <1>4 DEF Cleaned, Whole
  <2> QED BY <2>1, <2>2
<1>6. Partition(PaneLists(g.layout), P \ Reopened(now, to))
  <2> DEFINE f == PaneLists(g.layout)
  <2>1. DOMAIN f = DOMAIN h.layout \ TakenAway(to, now) /\ \A t \in DOMAIN f : f[t] = Cleaned(to, T, t)
    <3> DEFINE L == g.layout
    <3> HIDE DEF L
    <3>1. DOMAIN PaneLists(L) = DOMAIN L /\ \A t \in DOMAIN L : PaneLists(L)[t] = L[t].panes
      BY PaneListsIs
    <3> QED BY <3>1, <1>4, <1>5 DEF A, L
  <2> HIDE DEF f
  <2>2. Partition(f, P \ Reopened(now, to))
    BY <2>1, ClearedPanes
  <2> QED BY <2>2 DEF f
<1>7. /\ Partition(g.tabs, DOMAIN g.layout) /\ DOMAIN g.tabs = DOMAIN h.tabs /\ Fun(g.tabs)
      /\ \A w \in DOMAIN h.tabs : ToSet(g.tabs[w]) = ToSet(h.tabs[w]) \ A
  <2>1. Partition(h.tabs, DOMAIN h.layout)
    BY DEF Whole
  <2>2. /\ Partition(Dropping(h.tabs, A), DOMAIN h.layout \ A)
        /\ DOMAIN Dropping(h.tabs, A) = DOMAIN h.tabs
        /\ \A w \in DOMAIN h.tabs : /\ Dropping(h.tabs, A)[w] = Dropped(h.tabs[w], A)
                                   /\ Distinct(Dropping(h.tabs, A)[w])
                                   /\ ToSet(Dropping(h.tabs, A)[w]) = ToSet(h.tabs[w]) \ A
    BY <2>1, PartitionDrop
  <2>3. Fun(Dropping(h.tabs, A))
    BY DEF Dropping, Fun
  <2> QED BY <1>3, <1>4, <2>2, <2>3
<1>8. Whole(g, P \ Reopened(now, to))
  BY <1>3, <1>4, <1>5, <1>6, <1>7 DEF Whole
<1> QED BY <1>3, <1>4, <1>5, <1>7, <1>8 DEF ClearedFields, A

(* The insertions of a restore, as RestoreSteps makes them. *)
Placing(f, B, start, from, now, to) ==
    f = [T \in SUBSET B |->
           IF T = {} THEN start
           ELSE LET t == Highest(to, T) IN Reinserted(f[T \ {t}], from, now, to, t)]

LEMMA PlacingOne ==
  ASSUME NEW B, NEW start, NEW from, NEW now, NEW to,
         \A t \in B : to[t].index \in Nat, \A t, u \in B : t = u
  PROVE  /\ \E f : Placing(f, B, start, from, now, to)
         /\ \A f : Placing(f, B, start, from, now, to) =>
              /\ B = {} => f[B] = start
              /\ \A t \in B : f[B] = Reinserted(start, from, now, to, t)
<1> DEFINE w == [T \in SUBSET B |-> IF T = {} THEN start
                                    ELSE Reinserted(start, from, now, to, Highest(to, T))]
<1>1. \A T \in SUBSET B : T # {} => Highest(to, T) \in B /\ T \ {Highest(to, T)} = {}
  <2> SUFFICES ASSUME NEW T \in SUBSET B, T # {}
               PROVE  Highest(to, T) \in B /\ T \ {Highest(to, T)} = {}
    OBVIOUS
  <2>1. PICK b \in T : TRUE
    OBVIOUS
  <2>2. to[b].index <= to[b].index
    OBVIOUS
  <2>3. \A u \in T : to[u].index <= to[b].index
    BY <2>2
  <2>4. Highest(to, T) \in T
    BY <2>3 DEF Highest
  <2> QED BY <2>4
<1>2. Placing(w, B, start, from, now, to)
  <2> DEFINE F(T) == IF T = {} THEN start
                     ELSE LET t == Highest(to, T) IN Reinserted(w[T \ {t}], from, now, to, t)
             G(T) == IF T = {} THEN start ELSE Reinserted(start, from, now, to, Highest(to, T))
  <2>1. ASSUME NEW T \in SUBSET B PROVE F(T) = G(T)
    <3>1. CASE T = {}
      BY <3>1
    <3>2. CASE T # {}
      <4> DEFINE t == Highest(to, T)
      <4>1. T \ {t} = {}
        BY <1>1, <3>2
      <4>2. w[T \ {t}] = start
        BY <4>1
      <4> HIDE DEF w, t
      <4>3. Reinserted(w[T \ {t}], from, now, to, t) = Reinserted(start, from, now, to, t)
        BY <4>2
      <4> QED BY <3>2, <4>3 DEF t
    <3> QED BY <3>1, <3>2
  <2>2. w = [T \in SUBSET B |-> G(T)]
    OBVIOUS
  <2> HIDE DEF F, G, w
  <2>3. w = [T \in SUBSET B |-> F(T)]
    BY <2>1, <2>2
  <2> QED BY <2>3, Zenon DEF Placing, F
<1> HIDE DEF w
<1>3. ASSUME NEW f, Placing(f, B, start, from, now, to)
      PROVE  /\ B = {} => f[B] = start
             /\ \A t \in B : f[B] = Reinserted(start, from, now, to, t)
  <2>1. \A T \in SUBSET B :
          f[T] = IF T = {} THEN start
                 ELSE LET t == Highest(to, T) IN Reinserted(f[T \ {t}], from, now, to, t)
    BY <1>3 DEF Placing
  <2>2. f[{}] = start
    BY <2>1
  <2>3. ASSUME NEW t \in B PROVE f[B] = Reinserted(start, from, now, to, t)
    <3> DEFINE b == Highest(to, B)
    <3>1. b \in B /\ B \ {b} = {} /\ B # {}
      BY <1>1, <2>3
    <3>2. f[B] = Reinserted(f[B \ {b}], from, now, to, b)
      BY <2>1, <3>1
    <3>3. b = t
      BY <3>1
    <3> HIDE DEF b
    <3> QED BY <3>1, <3>2, <3>3, <2>2
  <2> QED BY <2>2, <2>3
<1> QED BY <1>2, <1>3

LEMMA RestoreStepsIs ==
  ASSUME NEW c, NEW d,
         LET B == PutBack(c, To(c, d), Snapshot(h, ToSet(c.tabs)))
         IN (\A t \in B : To(c, d)[t].index \in Nat) /\ (\A t, u \in B : t = u)
  PROVE  LET from == From(c, d)
             to == To(c, d)
             now == Snapshot(h, ToSet(c.tabs))
             B == PutBack(c, to, now)
             start == [h |-> Cleared(from, now, to), steps |-> ClearingSteps(c.tabs, from, now, to)]
         IN /\ B = {} => RestoreSteps(c, d) = start
            /\ \A t \in B : RestoreSteps(c, d) = Reinserted(start, from, now, to, t)
<1> DEFINE from == From(c, d)
           to == To(c, d)
           now == Snapshot(h, ToSet(c.tabs))
           B == PutBack(c, to, now)
           start == [h |-> Cleared(from, now, to), steps |-> ClearingSteps(c.tabs, from, now, to)]
           placing == CHOOSE f : f = [T \in SUBSET B |->
             IF T = {} THEN start
             ELSE LET t == Highest(to, T) IN Reinserted(f[T \ {t}], from, now, to, t)]
<1>1. (\A t \in B : to[t].index \in Nat) /\ (\A t, u \in B : t = u)
  OBVIOUS
<1>2. RestoreSteps(c, d) = placing[B]
  BY Zenon DEF RestoreSteps
<1> HIDE DEF from, to, now, B, start
<1>3. placing = CHOOSE f : Placing(f, B, start, from, now, to)
  BY Zenon DEF Placing
<1> HIDE DEF placing
<1>4. Placing(placing, B, start, from, now, to)
  <2>1. \E f : Placing(f, B, start, from, now, to)
    BY <1>1, PlacingOne
  <2> QED BY <1>3, <2>1
<1>5. /\ B = {} => placing[B] = start
      /\ \A t \in B : placing[B] = Reinserted(start, from, now, to, t)
  BY <1>1, <1>4, PlacingOne
<1> QED BY <1>2, <1>5 DEF from, to, now, B, start

(* A position no further than the end of the list. *)
LEMMA ClampIs ==
  ASSUME NEW l, Distinct(l), NEW i \in Nat \ {0},
         NEW j, j = IF i > Len(l) + 1 THEN Len(l) + 1 ELSE i
  PROVE  Room(l, j)
<1>1. Len(l) \in Nat
  BY ListFacts
<1> QED BY <1>1 DEF Room

(* What the insertion of a tab leaves in place. *)
Inserts(g, n, T) ==
    /\ n.workspaces = g.workspaces /\ n.attachments = g.attachments
    /\ DOMAIN n.tabs = DOMAIN g.tabs
    /\ DOMAIN n.layout \subseteq DOMAIN g.layout \cup T

LEMMA PlacedIs ==
  ASSUME NEW P, NEW g, Whole(g, P), NEW from, NEW now, NEW to, NEW T,
         NEW t \in DOMAIN now, t \in DOMAIN g.layout, NEW w \in DOMAIN g.tabs, w = to[t].workspace,
         to[t].index \in Nat \ {0}, NEW done, done.h = g,
         NEW n, n = Reinserted(done, from, now, to, t).h
  PROVE  /\ Whole(n, P) /\ Stays(g, n, P \ ToSet(g.layout[t].panes))
         /\ \A p \in ToSet(g.layout[t].panes) : Sits(n, p, SessionOf(g, w))
         /\ Inserts(g, n, T)
<1> DEFINE i == to[t].index
           l == Dropped(g.tabs[w], {t})
           j == IF i > Len(l) + 1 THEN Len(l) + 1 ELSE i
           c == [kind |-> "Placed", tab |-> t, workspace |-> w, index |-> i]
           b == [kind |-> "Placed", tab |-> t, workspace |-> w, index |-> j]
<1>1. Insertion(from, now, to, t) = c
  BY DEF Insertion
<1>2. Unordered(g, t).tabs[w] = l
  <2>1. Unordered(g, t).tabs = Dropping(g.tabs, {t})
    BY UnorderedIs
  <2> QED BY <2>1 DEF Dropping
<1>3. Clamped(g, c) = b
  <2> HIDE DEF l, i
  <2> QED BY <1>2 DEF Clamped
<1>4. Distinct(l)
  <2>1. Distinct(g.tabs[w])
    BY PartitionLists DEF Whole
  <2> QED BY <2>1, ListDropped
<1>5. n = StepDone(g, b)
  <2> HIDE DEF b, c, i, j, l
  <2> QED BY <1>1, <1>3 DEF Reinserted
<1> HIDE DEF i, j, l, c
<1>6. n = Ordered(Unordered(g, t), w, j, t)
  BY <1>5 DEF StepDone
<1>7. Room(l, j)
  <2>1. i \in Nat \ {0} /\ j = IF i > Len(l) + 1 THEN Len(l) + 1 ELSE i
    BY DEF i, j
  <2> QED BY <2>1, <1>4, ClampIs
<1> HIDE DEF b
<1>8. /\ Whole(n, P) /\ Stays(g, n, P \ ToSet(g.layout[t].panes))
      /\ \A p \in ToSet(g.layout[t].panes) : Sits(n, p, SessionOf(g, w))
      /\ MoveFields(g, n)
  <2>1. Room(Dropped(g.tabs[w], {t}), j) /\ n = Ordered(Unordered(g, t), w, j, t)
    BY <1>6, <1>7 DEF l
  <2> QED BY <2>1, TabMove
<1> QED BY <1>8 DEF MoveFields, Inserts

(* A tab that opens at a place of a workspace. *)
Opens(g, w, j, t, layout) == [Ordered(g, w, j, t) EXCEPT !.layout = With(@, t, layout)]

LEMMA TabOpens ==
  ASSUME NEW P, NEW g, Whole(g, P), NEW t, t \notin DOMAIN g.layout, NEW w \in DOMAIN g.tabs,
         NEW j, Room(g.tabs[w], j), NEW layout, GoodLayout(layout), ToSet(layout.panes) \cap P = {},
         NEW n, n = Opens(g, w, j, t, layout), NEW T, t \in T
  PROVE  /\ Whole(n, P \cup ToSet(layout.panes)) /\ Stays(g, n, P)
         /\ \A p \in ToSet(layout.panes) : Sits(n, p, SessionOf(g, w))
         /\ Inserts(g, n, T)
<1> DEFINE l == g.tabs[w]  s == InsertAt(l, j, t)  L == With(g.layout, t, layout)
<1>1. Distinct(l) /\ t \notin ToSet(l) /\ j \in 1..Len(l) + 1
  BY PartitionLists DEF Whole, Room
<1>2. Distinct(s) /\ ToSet(s) = ToSet(l) \cup {t}
  <2> HIDE DEF l
  <2> QED BY <1>1, ListInsert
<1>3. n = [[g EXCEPT !.tabs = [g.tabs EXCEPT ![w] = s]] EXCEPT !.layout = L]
  BY DEF Opens, Ordered
<1> HIDE DEF s, L
<1>4. /\ Fields(n) /\ n.tabs = [g.tabs EXCEPT ![w] = s] /\ n.layout = L
      /\ n.sessions = g.sessions /\ n.workspaces = g.workspaces /\ n.attachments = g.attachments
  <2>1. Fields(g)
    BY DEF Whole
  <2> DEFINE m == [g EXCEPT !.tabs = [g.tabs EXCEPT ![w] = s]]
  <2>2. /\ Fields(m) /\ m.tabs = [g.tabs EXCEPT ![w] = s]
        /\ m.sessions = g.sessions /\ m.workspaces = g.workspaces /\ m.attachments = g.attachments
    BY <2>1 DEF Fields
  <2>3. n = [m EXCEPT !.layout = L]
    BY <1>3
  <2> HIDE DEF m
  <2> QED BY <2>2, <2>3 DEF Fields
<1>5. /\ Whole(n, P \cup ToSet(layout.panes)) /\ Stays(g, n, P)
      /\ \A p \in ToSet(layout.panes) : Sits(n, p, SessionOf(g, w))
  <2>1. /\ Whole(g, P) /\ Fields(n) /\ t \notin DOMAIN g.layout /\ w \in DOMAIN g.tabs
        /\ Distinct(s) /\ ToSet(s) = ToSet(g.tabs[w]) \cup {t}
        /\ GoodLayout(layout) /\ ToSet(layout.panes) \cap P = {}
        /\ n.tabs = [g.tabs EXCEPT ![w] = s] /\ n.layout = With(g.layout, t, layout)
        /\ n.sessions = g.sessions /\ n.workspaces = g.workspaces
        /\ n.attachments = g.attachments
    BY <1>2, <1>4 DEF L
  <2> HIDE DEF l
  <2> QED BY <2>1, TabPut, Z3
<1>6. DOMAIN n.layout = DOMAIN g.layout \cup {t} /\ DOMAIN n.tabs = DOMAIN g.tabs
  BY <1>4 DEF L, With
<1>7. Inserts(g, n, T)
  BY <1>4, <1>6 DEF Inserts
<1> QED BY <1>5, <1>7

Extended(g, n, P, M, s, T) ==
    Whole(n, P \cup M) /\ Stays(g, n, P) /\ (\A p \in M : Sits(n, p, s)) /\ Inserts(g, n, T)

LEMMA OpenedIs ==
  ASSUME NEW P, NEW g, Whole(g, P), NEW from, NEW now, NEW to, NEW T, Recorded(to, T),
         NEW t \in DOMAIN to, t \notin DOMAIN now, t \notin DOMAIN g.layout,
         ToSet(to[t].layout.panes) \cap P = {},
         NEW w \in DOMAIN g.tabs, w = to[t].workspace, NEW done, done.h = g,
         NEW n, n = Reinserted(done, from, now, to, t).h
  PROVE  Extended(g, n, P, ToSet(to[t].layout.panes), SessionOf(g, w), T)
<1> DEFINE i == to[t].index
           l == g.tabs[w]
           j == IF i > Len(l) + 1 THEN Len(l) + 1 ELSE i
           layout == RestoredLayout(from, now, to, t)
           c == [kind |-> "Opened", tab |-> t, workspace |-> w, index |-> i, layout |-> layout]
           b == [kind |-> "Opened", tab |-> t, workspace |-> w, index |-> j, layout |-> layout]
<1>1. Insertion(from, now, to, t) = c
  BY DEF Insertion
<1>2. GoodLayout(layout) /\ layout.panes = to[t].layout.panes /\ i \in Nat \ {0} /\ t \in T
  <2>1. GoodLayout(layout) /\ layout.panes = to[t].layout.panes
    BY RestoredIs
  <2> QED BY <2>1 DEF Recorded
<1> HIDE DEF layout
<1>3. Clamped(g, c) = b
  <2> HIDE DEF i
  <2> QED BY DEF Clamped
<1>4. n = StepDone(g, b)
  <2> HIDE DEF b, c, i, j, l
  <2> QED BY <1>1, <1>3 DEF Reinserted
<1> HIDE DEF i, j, c
<1>5. n = Opens(g, w, j, t, layout)
  BY <1>4 DEF StepDone, Opens
<1>6. Room(g.tabs[w], j)
  <2>1. i \in Nat \ {0} /\ j = IF i > Len(l) + 1 THEN Len(l) + 1 ELSE i
    BY <1>2 DEF i, j
  <2>2. Distinct(l)
    BY PartitionLists DEF Whole
  <2> HIDE DEF l
  <2>3. Room(l, j)
    BY <2>1, <2>2, ClampIs
  <2> QED BY <2>3 DEF l
<1> HIDE DEF b, l
<1>7. ToSet(layout.panes) \cap P = {}
  BY <1>2
<1>8. /\ Whole(n, P \cup ToSet(layout.panes)) /\ Stays(g, n, P)
      /\ \A p \in ToSet(layout.panes) : Sits(n, p, SessionOf(g, w))
      /\ Inserts(g, n, T)
  BY <1>2, <1>5, <1>6, <1>7, TabOpens
<1> QED BY <1>2, <1>8 DEF Extended

(* Where the panes of a restore end up, from the cleared structure g. *)
Lands(f, g, P, now, to, B) ==
    /\ \A p \in P \ Reopened(now, to) :
         (\A b \in B : p \notin ToSet(to[b].layout.panes)) => \A s : Sits(g, p, s) => Sits(f, p, s)
    /\ \A b \in B : \A p \in ToSet(to[b].layout.panes) : Sits(f, p, SessionOf(h, to[b].workspace))

LEMMA LandsIs ==
  ASSUME NEW P, Whole(h, P), NEW from, NEW now, NEW to, NEW T, Fits(now, to, T),
         NEW B, B \subseteq DOMAIN to, DOMAIN to \ DOMAIN now \subseteq B, \A t, u \in B : t = u,
         \A t \in B : HasDestination(to[t]),
         NEW done, NEW g, done.h = g, g = Cleared(from, now, to),
         NEW f, B = {} => f = g, \A t \in B : f = Reinserted(done, from, now, to, t).h
  PROVE  Whole(f, P) /\ Inserts(h, f, T) /\ Lands(f, g, P, now, to, B)
<1> DEFINE R == Reopened(now, to)  Q == P \ R
<1>1. Whole(g, Q) /\ ClearedFields(g, now, to, T)
  BY ClearedIs
<1>2. \A p \in R : p \in P /\ \E t \in DOMAIN to \ DOMAIN now : p \in ToSet(to[t].layout.panes)
  <2> SUFFICES ASSUME NEW p \in R PROVE p \in P /\ \E t \in DOMAIN to \ DOMAIN now : p \in ToSet(to[t].layout.panes)
    OBVIOUS
  <2>1. p \in Held(now) /\ \E t \in DOMAIN to \ DOMAIN now : p \in ToSet(to[t].layout.panes)
    BY DEF Reopened, Fits
  <2>2. PICK u \in DOMAIN now : p \in ToSet(now[u].layout.panes)
    BY <2>1, HeldIs
  <2>3. u \in DOMAIN h.layout /\ p \in ToSet(h.layout[u].panes)
    BY <2>2 DEF Fits
  <2>4. p \in P
    BY <2>3, Houses
  <2> QED BY <2>1, <2>4
<1>3. /\ g.workspaces = h.workspaces /\ g.attachments = h.attachments /\ DOMAIN g.tabs = DOMAIN h.tabs
      /\ DOMAIN g.layout = DOMAIN h.layout \ TakenAway(to, now)
      /\ \A t \in DOMAIN g.layout : g.layout[t].panes = Cleaned(to, T, t)
  BY <1>1 DEF ClearedFields
<1>4. CASE B = {}
  <2>1. R = {} /\ Q = P
    BY <1>2, <1>4
  <2>2. Whole(f, P) /\ f = g
    BY <2>1, <1>1, <1>4
  <2>3. Inserts(h, f, T)
    BY <2>2, <1>3 DEF Inserts
  <2>4. Lands(f, g, P, now, to, B)
    BY <2>2, <1>4 DEF Lands
  <2> QED BY <2>2, <2>3, <2>4
<1>5. ASSUME NEW t \in B PROVE Whole(f, P) /\ Inserts(h, f, T) /\ Lands(f, g, P, now, to, B)
  <2> DEFINE w == to[t].workspace  M == ToSet(to[t].layout.panes)
  <2>1. /\ w \in DOMAIN g.tabs /\ to[t].index \in Nat \ {0} /\ t \in T /\ t \in DOMAIN to
        /\ f = Reinserted(done, from, now, to, t).h /\ Recorded(to, T)
    BY <1>3 DEF HasDestination, Fits, Recorded
  <2>2. SessionOf(g, w) = SessionOf(h, w)
    BY <1>3 DEF SessionOf
  <2>3. ASSUME Whole(f, P), Stays(g, f, Q \ M), \A p \in M : Sits(f, p, SessionOf(g, w)), Inserts(g, f, T)
        PROVE  Whole(f, P) /\ Inserts(h, f, T) /\ Lands(f, g, P, now, to, B)
    <3>1. Inserts(h, f, T)
      BY <2>3, <1>3 DEF Inserts
    <3>2. \A b \in B : b = t
      OBVIOUS
    <3>3. Lands(f, g, P, now, to, B)
      BY <2>2, <2>3, <3>2 DEF Lands, Stays
    <3> QED BY <2>3, <3>1, <3>3
  <2>4. CASE t \in DOMAIN now
    <3>1. R = {} /\ Q = P
      BY <1>2, <2>4
    <3>2. t \in DOMAIN g.layout /\ g.layout[t].panes = to[t].layout.panes
      BY <1>3, <2>1, <2>4 DEF Fits, TakenAway, Cleaned
    <3> HIDE DEF w, R, Q
    <3>3. /\ Whole(g, P) /\ w \in DOMAIN g.tabs /\ w = to[t].workspace /\ t \in DOMAIN now
      BY <1>1, <2>1, <2>4, <3>1 DEF w
    <3>4. /\ Whole(f, P) /\ Stays(g, f, P \ ToSet(g.layout[t].panes))
          /\ \A p \in ToSet(g.layout[t].panes) : Sits(f, p, SessionOf(g, w))
          /\ Inserts(g, f, T)
      BY <2>1, <3>2, <3>3, PlacedIs, ZenonT(40)
    <3> QED BY <2>3, <3>1, <3>2, <3>4
  <2>5. CASE t \notin DOMAIN now
    <3>1. R = M
      <4>1. M \subseteq R
        BY <2>1, <2>5, HeldIs DEF Reopened
      <4>2. R \subseteq M
        BY <1>2
      <4> QED BY <4>1, <4>2
    <3>2. Q \cup M = P /\ M \cap Q = {} /\ Q \ M = Q
      BY <3>1, <1>2
    <3>3. t \notin DOMAIN g.layout
      BY <1>3, <2>1, <2>5 DEF Fits
    <3> HIDE DEF w, R, Q, M
    <3>4. /\ Whole(g, Q) /\ Recorded(to, T)
          /\ t \in DOMAIN to /\ t \notin DOMAIN now /\ t \notin DOMAIN g.layout
          /\ ToSet(to[t].layout.panes) \cap Q = {} /\ w \in DOMAIN g.tabs /\ w = to[t].workspace
          /\ done.h = g /\ f = Reinserted(done, from, now, to, t).h
      BY <1>1, <2>1, <2>5, <3>2, <3>3 DEF w, M, Q, R
    <3>5. Extended(g, f, Q, ToSet(to[t].layout.panes), SessionOf(g, w), T)
      BY <3>4, OpenedIs
    <3> QED BY <2>3, <3>2, <3>5 DEF M, Extended
  <2> QED BY <2>4, <2>5
<1> QED BY <1>4, <1>5

LEMMA ClearedSits ==
  ASSUME NEW P, Whole(h, P), NEW now, NEW to, NEW T, Fits(now, to, T),
         NEW g, ClearedFields(g, now, to, T), NEW u \in DOMAIN g.layout,
         NEW p \in ToSet(Cleaned(to, T, u))
  PROVE  Sits(g, p, SessionOfTab(h, u))
<1> DEFINE w == WorkspaceOf(h, u)  s == SessionOf(h, w)
<1>1. u \in DOMAIN h.layout /\ u \notin TakenAway(to, now) /\ g.layout[u].panes = Cleaned(to, T, u)
  BY DEF ClearedFields
<1>2. /\ w \in DOMAIN h.tabs /\ u \in ToSet(h.tabs[w])
      /\ s \in DOMAIN h.workspaces /\ w \in ToSet(h.workspaces[s])
  BY <1>1, Houses
<1> HIDE DEF s, w
<1>3. /\ w \in DOMAIN g.tabs /\ u \in ToSet(g.tabs[w])
      /\ s \in DOMAIN g.workspaces /\ w \in ToSet(g.workspaces[s])
  BY <1>1, <1>2 DEF ClearedFields
<1>4. Sits(g, p, s)
  BY <1>1, <1>3 DEF Sits
<1> QED BY <1>4 DEF s, w, SessionOfTab

(* Where a tab that is neither placed nor opened ends up. *)
LEMMA RemainsIs ==
  ASSUME NEW P, Whole(h, P), NEW now, NEW to, NEW T, Fits(now, to, T), NEW c,
         \A t \in Returning(c, to, now) : HasDestination(to[t]),
         NEW u \in DOMAIN to, u \notin PutBack(c, to, now)
  PROVE  /\ u \in DOMAIN now
         /\ (IF u \in Returning(c, to, now) THEN to[u].session ELSE now[u].session) = SessionOfTab(h, u)
<1>1. u \in DOMAIN now
  BY DEF PutBack, Returning
<1>2. now[u].session = SessionOfTab(h, u) /\ now[u].workspace = WorkspaceOf(h, u)
  BY <1>1 DEF Fits
<1>3. CASE u \in Returning(c, to, now)
  <2>1. to[u].workspace = now[u].workspace
    BY <1>1, <1>3 DEF PutBack
  <2>2. SessionOf(h, to[u].workspace) = to[u].session
    BY <1>3 DEF HasDestination
  <2> QED BY <1>1, <1>2, <1>3, <2>1, <2>2 DEF SessionOfTab
<1> QED BY <1>1, <1>2, <1>3

LEMMA RestoreStays ==
  ASSUME Whole(h, terminals), NEW now, NEW to, NEW T, Fits(now, to, T), NEW c,
         \A t \in Returning(c, to, now) : HasDestination(to[t]),
         NEW B, B = PutBack(c, to, now),
         NEW g, ClearedFields(g, now, to, T), NEW f, Lands(f, g, terminals, now, to, B)
  PROVE  Stays(h, f, terminals \ LeavesSession(c, now, to))
<1> DEFINE P == terminals
           Session(u) == IF u \in Returning(c, to, now) THEN to[u].session ELSE now[u].session
<1>0. SUFFICES ASSUME NEW p \in P, p \notin LeavesSession(c, now, to), NEW s, Sits(h, p, s)
               PROVE  Sits(f, p, s)
  BY DEF Stays
<1>1. PICK t \in DOMAIN h.layout : p \in ToSet(h.layout[t].panes) /\ s = SessionOfTab(h, t)
  <2>1. s = SessionOfPane(h, p)
    BY <1>0, SitsIs
  <2> QED BY <2>1, Houses DEF SessionOfPane
<1>2. B \subseteq DOMAIN to /\ B \subseteq Returning(c, to, now)
  BY DEF PutBack, Returning
<1>3. DOMAIN g.layout = DOMAIN h.layout \ TakenAway(to, now)
  BY DEF ClearedFields
<1>4. CASE t \notin T
  <2>1. p \notin Held(to)
    <3>1. \A u \in DOMAIN now : u \in DOMAIN h.layout /\ u # t /\ now[u].layout = h.layout[u]
      BY <1>4 DEF Fits
    <3>2. \A u \in DOMAIN h.layout : p \in ToSet(h.layout[u].panes) => u = t
      BY <1>1, Houses
    <3>3. p \notin Held(now)
      BY <3>1, <3>2, HeldIs
    <3> QED BY <3>3 DEF Fits
  <2>2. t \in DOMAIN g.layout /\ p \in ToSet(Cleaned(to, T, t))
    BY <1>1, <1>3, <1>4 DEF TakenAway, Fits, Cleaned
  <2>3. Sits(g, p, s)
    BY <1>1, <2>2, ClearedSits
  <2>4. p \notin Reopened(now, to) /\ \A b \in B : p \notin ToSet(to[b].layout.panes)
    BY <2>1, <1>2, HeldIs DEF Reopened
  <2> QED BY <2>3, <2>4 DEF Lands
<1>5. CASE t \in T
  <2>1. t \in DOMAIN now /\ now[t].layout = h.layout[t] /\ now[t].session = s
    BY <1>1, <1>5 DEF Fits
  <2>2. p \in Held(to)
    BY <1>1, <2>1, HeldIs DEF Fits
  <2>3. PICK u \in DOMAIN to : p \in ToSet(to[u].layout.panes)
    BY <2>2, HeldIs
  <2>4. Session(u) = s
    <3>1. Contains(now[t].layout.panes, p) /\ Contains(to[u].layout.panes, p)
      <4>1. Distinct(now[t].layout.panes) /\ Distinct(to[u].layout.panes)
        BY <2>1 DEF Fits, Recorded, GoodLayout
      <4> QED BY <4>1, <1>1, <2>1, <2>3, ListFacts
    <3>2. t \in Homes(now, p) /\ u \in Homes(to, p)
      BY <3>1, <2>1 DEF Homes
    <3>3. now[t].session = Session(u)
      BY <3>2, <1>0 DEF LeavesSession
    <3> QED BY <3>3, <2>1
  <2>5. CASE u \in B
    <3>1. u \in Returning(c, to, now) /\ HasDestination(to[u])
      BY <2>5, <1>2
    <3>2. SessionOf(h, to[u].workspace) = s
      BY <3>1, <2>4 DEF HasDestination
    <3> QED BY <3>2, <2>3, <2>5 DEF Lands
  <2>6. CASE u \notin B
    <3>1. u \in DOMAIN now /\ Session(u) = SessionOfTab(h, u)
      BY <2>6, RemainsIs
    <3>2. u \in DOMAIN g.layout /\ u \in T
      BY <1>3, <3>1 DEF Fits, TakenAway
    <3>3. p \in ToSet(Cleaned(to, T, u))
      BY <2>3, <3>2 DEF Cleaned
    <3> HIDE DEF Session
    <3>4. Sits(g, p, SessionOfTab(h, u))
      BY <3>2, <3>3, ClearedSits
    <3>5. \A x \in DOMAIN to : x # u => p \notin ToSet(to[x].layout.panes)
      BY <2>3 DEF Fits, Recorded
    <3>6. p \notin Reopened(now, to) /\ \A b \in B : p \notin ToSet(to[b].layout.panes)
      BY <3>1, <3>5, <1>2, <2>6 DEF Reopened
    <3> QED BY <2>4, <3>1, <3>4, <3>6 DEF Lands
  <2> QED BY <2>5, <2>6
<1> QED BY <1>4, <1>5

(* A tab that a restore removes has a change of its own. *)
LEMMA ClearingIs ==
  ASSUME NEW tabs, Distinct(tabs), NEW from, NEW now, NEW to, TakenAway(to, now) \subseteq ToSet(tabs),
         NEW s, s = ClearingSteps(tabs, from, now, to)
  PROVE  /\ Len(s) \in Nat /\ DOMAIN s = 1..Len(s)
         /\ TakenAway(to, now) # {} => \E i \in DOMAIN s : s[i].kind # "Layout"
<1> DEFINE A == TakenAway(to, now)
           removed == Dropped(tabs, ToSet(tabs) \ A)
           laid == Dropped(tabs, ToSet(tabs) \ Relaid(from, now, to))
           a == [i \in DOMAIN removed |-> RemovedStep(removed[i])]
           b == [i \in DOMAIN laid |-> LayoutStep(laid[i], RestoredLayout(from, now, to, laid[i]))]
           E == {a[i] : i \in DOMAIN a} \cup {b[i] : i \in DOMAIN b}
<1>1. s = a \o b
  BY DEF ClearingSteps
<1>2. Distinct(removed) /\ ToSet(removed) = A /\ Distinct(laid)
  <2>1. /\ Distinct(removed) /\ ToSet(removed) = ToSet(tabs) \ (ToSet(tabs) \ A)
        /\ Distinct(laid)
    <3> DEFINE X == ToSet(tabs) \ A  Y == ToSet(tabs) \ Relaid(from, now, to)
    <3> HIDE DEF X, Y
    <3>1. Distinct(Dropped(tabs, X)) /\ ToSet(Dropped(tabs, X)) = ToSet(tabs) \ X
      BY ListDropped
    <3>2. Distinct(Dropped(tabs, Y))
      BY ListDropped
    <3> QED BY <3>1, <3>2 DEF X, Y
  <2> HIDE DEF removed
  <2> QED BY <2>1
<1> HIDE DEF removed, laid, A
<1>3. /\ Len(removed) \in Nat /\ DOMAIN removed = 1..Len(removed)
      /\ Len(laid) \in Nat /\ DOMAIN laid = 1..Len(laid)
      /\ removed # <<>> <=> A # {}
  BY <1>2, ListFacts
<1>4. \A i \in DOMAIN removed : a[i].kind = "Removed"
  BY DEF RemovedStep
<1>5. a \in Seq(E) /\ b \in Seq(E) /\ Len(a) = Len(removed)
  <2>1. DOMAIN a = 1..Len(removed) /\ DOMAIN b = 1..Len(laid)
    BY <1>3
  <2>2. a \in [1..Len(removed) -> E] /\ b \in [1..Len(laid) -> E]
    <3>1. a = [i \in DOMAIN a |-> a[i]] /\ b = [i \in DOMAIN b |-> b[i]]
      OBVIOUS
    <3> HIDE DEF a, b
    <3> QED BY <2>1, <3>1
  <2> HIDE DEF a, b, E
  <2> QED BY <2>1, <2>2, <1>3
<1> HIDE DEF a, b, E
<1>6. s \in Seq(E) /\ Len(s) = Len(a) + Len(b) /\ \A i \in 1..Len(a) : s[i] = a[i]
  BY <1>1, <1>5
<1>7. Len(s) \in Nat /\ DOMAIN s = 1..Len(s) /\ Len(a) \in Nat /\ Len(b) \in Nat
  BY <1>5, <1>6
<1>8. ASSUME A # {} PROVE \E i \in DOMAIN s : s[i].kind # "Layout"
  <2>1. Len(removed) # 0
    <3>1. removed # <<>> /\ removed \in Seq(ToSet(removed))
      BY <1>2, <1>3, <1>8 DEF Distinct
    <3> QED BY <3>1, EmptySeq
  <2>2. 1 \in DOMAIN removed /\ 1 \in 1..Len(a) /\ 1 \in DOMAIN s
    BY <2>1, <1>3, <1>5, <1>6, <1>7
  <2>3. s[1] = a[1] /\ a[1].kind = "Removed"
    BY <2>2, <1>4, <1>6
  <2> QED BY <2>2, <2>3
<1> QED BY <1>7, <1>8 DEF A

(* A restore that opens, places or removes a tab advances the revision. *)
LEMMA StepsTell ==
  ASSUME NEW start, Len(start.steps) \in Nat, DOMAIN start.steps = 1..Len(start.steps),
         NEW from, NEW now, NEW to, NEW t,
         NEW steps, steps = Reinserted(start, from, now, to, t).steps
  PROVE  \E i \in DOMAIN steps : steps[i].kind # "Layout"
<1> DEFINE c == Insertion(from, now, to, t)  b == Clamped(start.h, c)
<1>1. c.kind \in {"Placed", "Opened"}
  BY DEF Insertion
<1>2. b.kind = c.kind
  <2> HIDE DEF c
  <2>1. "index" # "kind"
    OBVIOUS
  <2> DEFINE x == IF c.index > Len(IF c.kind = "Placed" THEN Unordered(start.h, c.tab).tabs[c.workspace]
                         ELSE start.h.tabs[c.workspace]) + 1
                  THEN Len(IF c.kind = "Placed" THEN Unordered(start.h, c.tab).tabs[c.workspace]
                         ELSE start.h.tabs[c.workspace]) + 1 ELSE c.index
  <2>2. b = [c EXCEPT !.index = x]
    BY DEF Clamped
  <2>3. "kind" \in DOMAIN c
    BY DEF c, Insertion
  <2> HIDE DEF x, b
  <2> QED BY <2>2, <2>3
<1>3. steps = Append(start.steps, b)
  BY DEF Reinserted
<1> HIDE DEF b, c
<1>4. steps[Len(start.steps) + 1] = b /\ Len(start.steps) + 1 \in DOMAIN steps
  BY <1>3
<1> QED BY <1>1, <1>2, <1>4

(* The sides of an entry, and what a restore finds of them. *)
Shows(now, T) ==
    /\ Recorded(now, T)
    /\ DOMAIN now = T \cap DOMAIN h.layout
    /\ \A t \in DOMAIN now : /\ now[t].layout = h.layout[t]
                             /\ now[t].session = SessionOfTab(h, t)
                             /\ now[t].workspace = WorkspaceOf(h, t)

LEMMA SnapshotShows ==
  ASSUME NEW P, Whole(h, P), NEW T
  PROVE  Shows(Snapshot(h, T), T)
<1>1. /\ Recorded(Snapshot(h, T), T) /\ DOMAIN Snapshot(h, T) = T \cap DOMAIN h.layout
      /\ \A t \in T \cap DOMAIN h.layout :
           /\ Snapshot(h, T)[t].session = SessionOfTab(h, t)
           /\ Snapshot(h, T)[t].workspace = WorkspaceOf(h, t)
           /\ Snapshot(h, T)[t].layout = h.layout[t]
  BY SnapshotIs
<1> QED BY <1>1 DEF Shows

LEMMA RestorableIs ==
  ASSUME MuxInv, NEW d \in {"undo", "redo"}, NEW c, c = history[d], Restorable(c, d),
         NEW from, from = From(c, d), NEW to, to = To(c, d),
         NEW T, T = ToSet(c.tabs), NEW now, now = Snapshot(h, T),
         NEW B, B = PutBack(c, to, now)
  PROVE  /\ Distinct(c.tabs) /\ T \subseteq 1..next /\ Fits(now, to, T)
         /\ \A t \in Returning(c, to, now) : HasDestination(to[t])
         /\ B \subseteq DOMAIN to /\ DOMAIN to \ DOMAIN now \subseteq B
         /\ \A t, u \in B : t = u
         /\ \A t \in B : HasDestination(to[t]) /\ to[t].index \in Nat
<1>1. Entry(c, next) /\ Whole(h, terminals)
  BY DEF MuxInv, Entries
<1>2. /\ Distinct(c.tabs) /\ T \subseteq 1..next /\ Recorded(to, T)
      /\ \A t, u \in Comes(from, to, c.placed) : t = u
  <2>1. CASE d = "undo"
    BY <2>1, <1>1 DEF Entry, From, To
  <2>2. CASE d = "redo"
    BY <2>2, <1>1 DEF Entry, From, To
  <2> QED BY <2>1, <2>2
<1>3. /\ DOMAIN from = DOMAIN now /\ Held(now) = Held(to)
      /\ \A t \in Returning(c, to, now) : HasDestination(to[t])
  BY DEF Restorable, StillMatches, Held
<1>4. Shows(now, T)
  BY <1>1, SnapshotShows
<1>5. Fits(now, to, T)
  BY <1>2, <1>3, <1>4 DEF Fits, Shows
<1>6. /\ B \subseteq DOMAIN to /\ DOMAIN to \ DOMAIN now \subseteq B
      /\ B \subseteq Returning(c, to, now)
  BY DEF PutBack, Returning
<1>7. Returning(c, to, now) = Comes(from, to, c.placed)
  BY <1>3 DEF Returning, Comes
<1>8. \A t \in B : to[t].index \in Nat
  BY <1>2, <1>6 DEF Recorded
<1> QED BY <1>2, <1>3, <1>5, <1>6, <1>7, <1>8

LEMMA RestoreTabsKeeps ==
  ASSUME MuxInv, NEW d \in {"undo", "redo"}, RestoreTabs(d)
  PROVE  MuxInv' /\ Accounted
<1> DEFINE c == history[d]  from == From(c, d)  to == To(c, d)  T == ToSet(c.tabs)
           now == Snapshot(h, T)  B == PutBack(c, to, now)
           g == Cleared(from, now, to)
           start == [h |-> g, steps |-> ClearingSteps(c.tabs, from, now, to)]
           restored == RestoreSteps(c, d)  f == restored.h  steps == restored.steps
           L == LeavesSession(c, now, to)
           events == IF steps = <<>> THEN <<>> ELSE <<Rearrangement(steps)>>
<1>1. /\ Restorable(c, d) /\ Spend /\ h' = f /\ Emit(events)
      /\ IF Advances(steps, now, to) THEN Changed ELSE UNCHANGED revision
      /\ RevokeTerminals(L) /\ next' = next /\ terminals' = terminals
      /\ history' = [history EXCEPT ![d] = NoChange, ![Opposite(d)] = c]
  BY DEF RestoreTabs
<1>2. /\ Whole(h, terminals) /\ Numbered(h, terminals, next) /\ Watches(h, terminals, viewers)
      /\ Entries(history, next) /\ Counts
  BY DEF MuxInv
<1>3. /\ Distinct(c.tabs) /\ T \subseteq 1..next /\ Fits(now, to, T)
      /\ \A t \in Returning(c, to, now) : HasDestination(to[t])
      /\ B \subseteq DOMAIN to /\ DOMAIN to \ DOMAIN now \subseteq B
      /\ \A t, u \in B : t = u
      /\ \A t \in B : HasDestination(to[t]) /\ to[t].index \in Nat
  BY <1>1, RestorableIs
<1>4. /\ B = {} => restored = start
      /\ \A t \in B : restored = Reinserted(start, from, now, to, t)
  <2>1. (\A t \in B : to[t].index \in Nat) /\ (\A t, u \in B : t = u)
    BY <1>3
  <2> QED BY <2>1, RestoreStepsIs
<1>5. start.h = g /\ start.steps = ClearingSteps(c.tabs, from, now, to) /\ g = Cleared(from, now, to)
  OBVIOUS
<1>6. B = {} => f = g
  BY <1>4, <1>5
<1>7. \A t \in B : f = Reinserted(start, from, now, to, t).h
  BY <1>4
<1> HIDE DEF start, g, restored, from, to, now, B
<1>8. Whole(g, terminals \ Reopened(now, to)) /\ ClearedFields(g, now, to, T)
  <2> HIDE DEF T
  <2> QED BY <1>2, <1>3, <1>5, ClearedIs
<1>9. Whole(f, terminals) /\ Inserts(h, f, T) /\ Lands(f, g, terminals, now, to, B)
  <2>1. \A t \in B : HasDestination(to[t])
    BY <1>3
  <2> HIDE DEF T, f
  <2> QED BY <2>1, <1>2, <1>3, <1>5, <1>6, <1>7, LandsIs
<1>10. Stays(h, f, terminals \ L)
  <2>1. B = PutBack(c, to, now)
    BY DEF B
  <2>2. Stays(h, f, terminals \ LeavesSession(c, now, to))
    <3> HIDE DEF T, f, c, L
    <3> QED BY <2>1, <1>2, <1>3, <1>8, <1>9, RestoreStays
  <2> QED BY <2>2
<1>11. Numbered(f, terminals, next)
  BY <1>2, <1>3, <1>9 DEF Numbered, Inserts
<1>12. Watches(f, terminals, viewers')
  <2> DEFINE U == viewers'
  <2>1. U = {v \in viewers : v[2] \notin L}
    BY <1>1 DEF RevokeTerminals
  <2> HIDE DEF U, f, L
  <2>2. /\ U \in SUBSET viewers
        /\ \A v \in U : /\ v[2] \in terminals /\ v[1] \in DOMAIN f.attachments
                        /\ f.attachments[v[1]] = h.attachments[v[1]]
    BY <2>1, <1>2, <1>9 DEF Watches, Inserts
  <2>3. \A v \in U : \A s : Sits(h, v[2], s) => Sits(f, v[2], s)
    BY <2>1, <2>2, <1>10 DEF Stays
  <2>4. Watches(f, terminals, U)
    BY <2>2, <2>3, <1>2, WatchesKept
  <2> QED BY <2>4 DEF U
<1>13. Entries(history', next)
  <2>1. history'.undo \in {c, NoChange} /\ history'.redo \in {c, NoChange}
        /\ history' = [undo |-> history'.undo, redo |-> history'.redo]
    BY <1>1, <1>2 DEF Opposite, Entries
  <2>2. Entry(c, next) /\ Entry(NoChange, next)
    BY <1>2, NoEntry DEF Entries
  <2> HIDE DEF c
  <2> QED BY <2>1, <2>2 DEF Entries
<1>14. seq' \in Nat /\ left' \in Nat /\ Feed(queue') /\ revision' \in Nat
  <2>1. Listed(events)
    BY ListedNone, ListedSingle
  <2> HIDE DEF events
  <2>2. Feed(queue') /\ Len(events) \in Nat
    BY <2>1, <1>1, <1>2, FeedEmits, ListedIs DEF Counts
  <2> QED BY <2>2, <1>1, <1>2 DEF Emit, Spend, Counts, Changed
<1>15. ASSUME revision' # revision + 1 PROVE revision' = revision /\ SameScope
  <2>1. revision' = revision /\ ~Advances(steps, now, to)
    BY <1>1, <1>15 DEF Changed
  <2>2. /\ \A i \in DOMAIN steps : steps[i].kind = "Layout"
        /\ Moved(now, to) = {}
    BY <2>1 DEF Advances
  <2>3. /\ Len(start.steps) \in Nat /\ DOMAIN start.steps = 1..Len(start.steps)
        /\ TakenAway(to, now) # {} => \E i \in DOMAIN start.steps : start.steps[i].kind # "Layout"
    <3> DEFINE s == start.steps
    <3>1. TakenAway(to, now) \subseteq ToSet(c.tabs) /\ s = ClearingSteps(c.tabs, from, now, to)
          /\ Distinct(c.tabs)
      BY <1>3, <1>5 DEF TakenAway, Fits
    <3> HIDE DEF s, c
    <3>2. /\ Len(s) \in Nat /\ DOMAIN s = 1..Len(s)
          /\ TakenAway(to, now) # {} => \E i \in DOMAIN s : s[i].kind # "Layout"
      BY <3>1, ClearingIs
    <3> QED BY <3>2 DEF s
  <2>4. B = {}
    <3> SUFFICES ASSUME NEW t \in B PROVE FALSE
      OBVIOUS
    <3>1. steps = Reinserted(start, from, now, to, t).steps
      BY <1>4
    <3> HIDE DEF steps
    <3> QED BY <3>1, <2>2, <2>3, StepsTell
  <2>5. TakenAway(to, now) = {} /\ f = g
    BY <2>2, <2>3, <2>4, <1>4, <1>6
  <2> HIDE DEF f, steps
  <2>6. /\ h'.workspaces = h.workspaces /\ h'.attachments = h.attachments
        /\ DOMAIN h'.tabs = DOMAIN h.tabs /\ \A w \in DOMAIN h.tabs : ToSet(h'.tabs[w]) = ToSet(h.tabs[w])
        /\ DOMAIN h'.layout = DOMAIN h.layout
        /\ \A t \in DOMAIN h.layout : h'.layout[t].panes = Cleaned(to, T, t)
    BY <2>5, <1>1, <1>8 DEF ClearedFields
  <2>7. ASSUME NEW t \in DOMAIN h.layout PROVE ToSet(h'.layout[t].panes) = ToSet(h.layout[t].panes)
    <3>1. CASE t \notin T
      BY <3>1, <2>6 DEF Cleaned
    <3>2. CASE t \in T
      <4>1. t \in DOMAIN now /\ t \in DOMAIN to /\ now[t].layout = h.layout[t]
        BY <3>2, <2>5, <1>3 DEF Fits, TakenAway
      <4>2. \A p : /\ Contains(now[t].layout.panes, p) <=> p \in ToSet(now[t].layout.panes)
                   /\ Contains(to[t].layout.panes, p) <=> p \in ToSet(to[t].layout.panes)
        <5>1. Distinct(now[t].layout.panes) /\ Distinct(to[t].layout.panes)
          BY <4>1, <1>3 DEF Fits, Recorded, GoodLayout
        <5> QED BY <5>1, ListFacts
      <4>3. ASSUME NEW p \in terminals
            PROVE  p \in ToSet(now[t].layout.panes) <=> p \in ToSet(to[t].layout.panes)
        <5>1. Homes(now, p) = Homes(to, p)
          BY <2>2 DEF Moved
        <5>2. t \in Homes(now, p) <=> Contains(now[t].layout.panes, p)
          BY <4>1 DEF Homes
        <5>3. t \in Homes(to, p) <=> Contains(to[t].layout.panes, p)
          BY <4>1 DEF Homes
        <5> QED BY <5>1, <5>2, <5>3, <4>2
      <4>4. ToSet(now[t].layout.panes) \subseteq terminals
        BY <4>1, <1>2, Houses
      <4>5. ToSet(to[t].layout.panes) \subseteq terminals
        <5>1. ToSet(to[t].layout.panes) \subseteq Held(to)
          BY <4>1, HeldIs
        <5>2. Held(now) \subseteq terminals
          <6> SUFFICES ASSUME NEW p \in Held(now) PROVE p \in terminals
            OBVIOUS
          <6>1. PICK u \in DOMAIN now : p \in ToSet(now[u].layout.panes)
            BY HeldIs
          <6>2. u \in DOMAIN h.layout /\ p \in ToSet(h.layout[u].panes)
            BY <6>1, <1>3 DEF Fits
          <6> QED BY <6>2, <1>2, Houses
        <5> QED BY <5>1, <5>2, <1>3 DEF Fits
      <4>6. h'.layout[t].panes = to[t].layout.panes /\ h.layout[t].panes = now[t].layout.panes
        BY <3>2, <4>1, <2>6 DEF Cleaned
      <4> QED BY <4>3, <4>4, <4>5, <4>6
    <3> QED BY <3>1, <3>2
  <2> QED BY <2>1, <2>6, <2>7, <1>1 DEF SameScope
<1>16. MuxInv'
  BY <1>1, <1>9, <1>11, <1>12, <1>13, <1>14 DEF MuxInv, Counts
<1> QED BY <1>15, <1>16 DEF Accounted

LEMMA RestoreRefusedKeeps ==
  ASSUME MuxInv, NEW d \in {"undo", "redo"}, RestoreRefused(d)
  PROVE  MuxInv' /\ Accounted
<1>1. /\ history' = [history EXCEPT ![d] = NoChange]
      /\ UNCHANGED <<h, terminals, viewers, next, revision, seq, queue, left>>
  BY DEF RestoreRefused
<1>2. Entries(history', next)
  <2>1. Entries(history, next) /\ Entry(NoChange, next)
    BY NoEntry DEF MuxInv
  <2> QED BY <2>1, <1>1 DEF Entries
<1> QED BY <1>1, <1>2 DEF MuxInv, Counts, Accounted, SameScope

-----------------------------------------------------------------------------
(* The structure to begin with, and through every operation.               *)

LEMMA MuxStarts ==
  ASSUME NEW n \in Nat, NEW q, Feed(q), MuxBegins(n, q)
  PROVE  MuxInv
<1>1. /\ h = Start /\ terminals = Panes(Start) /\ viewers = {} /\ next = Cardinality(Ids(Start))
      /\ revision = 0 /\ seq = 0 /\ queue = q /\ left = n
      /\ history = [undo |-> NoChange, redo |-> NoChange]
  BY DEF MuxBegins
<1>2. Whole(h, terminals)
  BY <1>1, WholeIs, MuxConstants
<1>3. Numbered(h, terminals, next)
  <2>1. next \in Nat
    BY <1>1, MuxConstants, FS_CardinalityType
  <2>2. Ids(Start) = 1..next
    BY <1>1, MuxConstants
  <2> QED BY <2>1, <2>2, <1>1 DEF Numbered, Ids
<1>4. Watches(h, terminals, viewers)
  BY <1>1 DEF Watches
<1>5. Entries(history, next)
  <2>1. history.undo = NoChange /\ history.redo = NoChange
        /\ history = [undo |-> history.undo, redo |-> history.redo]
    BY <1>1
  <2> QED BY <2>1, NoEntry DEF Entries
<1> QED BY <1>1, <1>2, <1>3, <1>4, <1>5 DEF MuxInv, Counts

LEMMA PanesAre ==
  ASSUME NEW g, NEW P, Whole(g, P)
  PROVE  Panes(g) = P
<1>1. \A p : p \in Panes(g) <=> \E t \in DOMAIN g.layout : p \in ToSet(g.layout[t].panes)
  BY PanesInIs DEF Panes
<1>2. \A p : p \in Panes(g) <=> p \in P
  BY <1>1, Houses
<1> QED BY <1>2

LEMMA MuxStep ==
  ASSUME MuxInv, MuxNext
  PROVE  MuxInv' /\ Accounted
<1>0. Panes(h) = terminals
  BY PanesAre DEF MuxInv
<1>1. CASE Creates
  BY <1>1, CreateSessionKeeps, SpawnFailsKeeps, CreateWorkspaceKeeps, AttachSessionKeeps, OpenTabKeeps,
     SplitPaneKeeps DEF Creates
<1>2. CASE Arranges
  BY <1>2, SetPaneZoomKeeps, SwapPanesKeeps, ArrangePanesKeeps DEF Arranges
<1>3. CASE Moves
  BY <1>0, <1>3, MoveTabKeeps, MoveWorkspaceKeeps, MoveTabToPaneKeeps, MoveWithinTabKeeps,
     MoveBetweenTabsKeeps, ExtractPaneKeeps, PlaceLonePaneKeeps DEF Moves
<1>4. CASE Restores
  BY <1>4, RestoreTabsKeeps, RestoreRefusedKeeps DEF Restores
<1>5. CASE Closes
  BY <1>0, <1>5, ClosePaneKeeps, CloseTabKeeps, CloseWorkspaceKeeps, CloseSessionKeeps DEF Closes
<1>6. CASE Shutdown
  BY <1>6, ShutdownKeeps
<1>7. CASE Views
  BY <1>0, <1>7, DetachSessionKeeps, RetargetAttachmentKeeps, SubscribeTerminalKeeps DEF Views
<1> QED BY <1>1, <1>2, <1>3, <1>4, <1>5, <1>6, <1>7 DEF MuxNext

-----------------------------------------------------------------------------
LEMMA MuxSame ==
  ASSUME MuxInv, UNCHANGED muxVars
  PROVE  MuxInv'
BY DEF MuxInv, muxVars, Counts, Feed

LEMMA MuxTyped ==
  ASSUME MuxInv
  PROVE  OneHome
<1>1. Whole(h, terminals)
  BY DEF MuxInv
<1>2. IsHierarchy(h) /\ Sound(h, terminals) /\ Panes(h) = terminals
  BY <1>1, WholeIs, PanesAre
<1>3. Ids(h) \cup terminals \subseteq 1..next
  BY <1>2 DEF MuxInv, Numbered, Ids
<1>4. viewers \subseteq (DOMAIN h.attachments) \X terminals
  BY DEF MuxInv, Watches
<1>5. revision \in Nat /\ seq \in Nat /\ left \in Nat
  BY DEF MuxInv, Counts
<1>6. /\ queue.open \in BOOLEAN /\ queue.lagged \in BOOLEAN /\ queue.wake \in BOOLEAN
      /\ Len(queue.events) <= Capacity
  BY DEF MuxInv, Counts, Feed
<1> QED BY <1>2, <1>3, <1>4, <1>5, <1>6 DEF OneHome, TypeOK

LEMMA MuxWatched ==
  ASSUME MuxInv
  PROVE  ViewersInSession
<1>1. Whole(h, terminals) /\ Watches(h, terminals, viewers)
  BY DEF MuxInv
<1>2. \A v \in viewers : v[2] \in terminals /\ Sits(h, v[2], h.attachments[v[1]])
  BY <1>1 DEF Watches
<1>3. \A v \in viewers : h.attachments[v[1]] = SessionOfPane(h, v[2])
  BY <1>1, <1>2, SitsIs
<1> QED BY <1>3 DEF ViewersInSession
=============================================================================
