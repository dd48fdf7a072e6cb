--------------------------- MODULE Timeline_proof ---------------------------
(***************************************************************************)
(* What the operators of Report do to sequences of spans and of entries:   *)
(* filtering, sorting, grouping and adding them up, and how the long tasks *)
(* and the self time that are computed one by one relate to the whole.     *)
(*                                                                         *)
(* All of these are folds.  Induction over a sequence is by the least      *)
(* counterexample: the natural numbers are well founded                    *)
(* (WellFoundedInduction).                                                 *)
(***************************************************************************)
EXTENDS Report, SequenceTheorems, FiniteSetTheorems, WellFoundedInduction, TLAPS

-----------------------------------------------------------------------------
(* Induction *)

(* A set of natural numbers has a least element. *)
LEMMA Least ==
    ASSUME NEW A, A \subseteq Nat, A # {}
    PROVE  \E n \in A : \A m \in A : n <= m
<1>1. PICK n \in A : \A m \in A : ~(<<m, n>> \in OpToRel(<,Nat))
  BY NatLessThanWellFounded, WFMin
<1>2. \A m \in A : ~(m < n)
  BY <1>1 DEF OpToRel
<1> QED BY <1>2

(* A bounded one has a greatest. *)
LEMMA MaxIs ==
    ASSUME NEW n \in Nat, NEW S \in SUBSET (0..n), S # {}
    PROVE  Max(S) \in S /\ \A i \in S : i <= Max(S)
<1>1. \E m \in S : \A i \in S : i <= m
  <2>1. \A i \in S : i \in Nat /\ i <= n
    OBVIOUS
  <2>2. PICK C : C = {n - i : i \in S}
    OBVIOUS
  <2>3. C \subseteq Nat /\ C # {}
    <3>1. \A i \in S : n - i \in Nat
      BY <2>1
    <3>2. PICK i \in S : TRUE
      OBVIOUS
    <3>3. n - i \in C
      BY <2>2
    <3> QED BY <2>2, <3>1, <3>3
  <2>4. PICK c \in C : \A d \in C : c <= d
    BY <2>3, Least
  <2>5. PICK m \in S : c = n - m
    BY <2>2
  <2>6. ASSUME NEW i \in S PROVE i <= m
    <3>1. n - i \in C
      BY <2>2
    <3>2. n - m <= n - i
      BY <2>4, <2>5, <3>1
    <3> QED BY <2>1, <3>2
  <2> QED BY <2>6
<1>2. \E m \in S : \A i \in S : m >= i
  BY <1>1
<1> QED BY <1>2 DEF Max

(* What holds first, and of each number after the one before, holds always: *)
(* the numbers are those it holds of.                                       *)
LEMMA Stepwise ==
    ASSUME NEW n \in Nat, NEW Holds,
           0 \in Holds, \A i \in 1..n : i - 1 \in Holds => i \in Holds
    PROVE  \A i \in 0..n : i \in Holds
<1> SUFFICES ASSUME NEW j \in 0..n, j \notin Holds PROVE FALSE
  OBVIOUS
<1> DEFINE Bad == {i \in 0..n : i \notin Holds}
<1>1. Bad \subseteq Nat /\ Bad # {}
  OBVIOUS
<1>2. PICK m \in Bad : \A i \in Bad : m <= i
  BY <1>1, Least
<1>3. m # 0 /\ m \in 1..n /\ m - 1 \in 0..n
  BY <1>2
<1>4. m - 1 \notin Bad
  BY <1>2, <1>3
<1> QED BY <1>2, <1>3, <1>4

(* A sequence of values that stays in a set *)
LEMMA ChainIn ==
    ASSUME NEW n \in Nat, NEW U, NEW c, c[0] \in U,
           \A i \in 1..n : c[i - 1] \in U => c[i] \in U
    PROVE  \A i \in 0..n : c[i] \in U
<1> DEFINE Holds == {i \in 0..n : c[i] \in U}
<1>1. 0 \in Holds /\ \A i \in 1..n : i - 1 \in Holds => i \in Holds
  OBVIOUS
<1> HIDE DEF Holds
<1>2. \A i \in 0..n : i \in Holds
  BY <1>1, Stepwise
<1> QED BY <1>2 DEF Holds

-----------------------------------------------------------------------------
(* Folds *)

(* The fold of a sequence is defined over the sets of its indices, from the *)
(* greatest index down.  There is a function with that recursion.           *)
Folds(f, n, base, step) ==
    \A S \in SUBSET (1..n) :
       f[S] = IF S = {} THEN base ELSE step[<<f[S \ {Max(S)}], Max(S)>>]

LEMMA FoldExists ==
    ASSUME NEW n \in Nat, NEW U, NEW base \in U, NEW step \in [U \X (1..n) -> U]
    PROVE  \E f \in [SUBSET (1..n) -> U] : Folds(f, n, base, step)
<1> DEFINE D == 1..n
           Small(k) == {S \in SUBSET D : Cardinality(S) <= k}
           Good(f, k) ==
              /\ f \in [Small(k) -> U]
              /\ \A S \in Small(k) : f[S] = IF S = {} THEN base
                                      ELSE step[<<f[S \ {Max(S)}], Max(S)>>]
           Holds == {k \in Nat : \E f : Good(f, k)}
<1>1. \A S \in SUBSET D : /\ IsFiniteSet(S) /\ Cardinality(S) \in Nat
                          /\ Cardinality(S) <= n /\ (Cardinality(S) = 0 <=> S = {})
  <2>1. IsFiniteSet(D) /\ Cardinality(D) = n
    BY FS_Interval
  <2>2. \A S \in SUBSET D : IsFiniteSet(S) /\ Cardinality(S) <= Cardinality(D)
    BY <2>1, FS_Subset
  <2> QED BY <2>1, <2>2, FS_CardinalityType, FS_EmptySet
<1>2. ASSUME NEW k \in Nat, NEW S \in Small(k + 1), S # {}
      PROVE  S \ {Max(S)} \in Small(k) /\ Max(S) \in D
  <2>1. S \in SUBSET (0..n) /\ Max(S) \in S
    <3>1. S \in SUBSET (0..n)
      OBVIOUS
    <3> QED BY <1>2, <3>1, MaxIs
  <2>2. Cardinality(S \ {Max(S)}) = Cardinality(S) - 1
    BY <1>1, <1>2, <2>1, FS_RemoveElement
  <2>3. S \in SUBSET D /\ Cardinality(S) <= k + 1 /\ Cardinality(S) \in Nat
    BY <1>1
  <2>4. Cardinality(S \ {Max(S)}) <= k
    BY <2>2, <2>3
  <2> QED BY <2>1, <2>3, <2>4
<1>3. 0 \in Holds
  <2>1. Small(0) = {{}}
    BY <1>1
  <2>2. PICK g : g = [S \in Small(0) |-> base]
    OBVIOUS
  <2> HIDE DEF Small
  <2>3. Good(g, 0)
    BY <2>1, <2>2
  <2> QED BY <2>3
<1>4. ASSUME NEW m \in 1..n, m - 1 \in Holds PROVE m \in Holds
  <2>1. PICK j \in Nat : m = j + 1
    OBVIOUS
  <2>2. PICK f : Good(f, j)
    <3>1. m - 1 = j
      BY <2>1
    <3> QED BY <1>4, <3>1
  <2>3. Small(j) \subseteq Small(m)
    BY <1>1, <2>1
  <2>4. PICK g : g = [S \in Small(m) |-> IF S = {} THEN base
                          ELSE step[<<f[S \ {Max(S)}], Max(S)>>]]
    OBVIOUS
  <2>5. ASSUME NEW S \in Small(m), S # {}
        PROVE  S \ {Max(S)} \in Small(j) /\ Max(S) \in D
    BY <1>2, <2>1, <2>5
  <2> HIDE DEF Small
  <2>6. g \in [Small(m) -> U]
    BY <2>2, <2>4, <2>5
  <2>7. \A S \in Small(j) : g[S] = f[S]
    BY <2>2, <2>3, <2>4
  <2>8. Good(g, m)
    BY <2>4, <2>5, <2>6, <2>7
  <2> QED BY <2>8
<1>5. n \in Holds
  <2> HIDE DEF Holds
  <2>1. n \in 0..n
    OBVIOUS
  <2> QED BY <1>3, <1>4, <2>1, Stepwise
<1>6. PICK f : Good(f, n)
  BY <1>5
<1>7. Small(n) = SUBSET D
  BY <1>1
<1> HIDE DEF Small
<1> QED BY <1>6, <1>7 DEF Folds

(* The first i indices without their greatest *)
LEMMA FirstIndices ==
    ASSUME NEW n \in Nat
    PROVE  /\ 1..0 = {}
           /\ \A i \in 1..n : /\ Max(1..i) = i /\ (1..i) \ {i} = 1..(i - 1)
                              /\ 1..i \in SUBSET (1..n) /\ 1..i # {}
<1>1. ASSUME NEW i \in 1..n PROVE Max(1..i) = i
  <2>1. 1..i \in SUBSET (0..n) /\ i \in 1..i
    OBVIOUS
  <2>2. Max(1..i) \in 1..i /\ i <= Max(1..i)
    BY <2>1, MaxIs
  <2> QED BY <2>2
<1>2. ASSUME NEW i \in 1..n
      PROVE  (1..i) \ {i} = 1..(i - 1) /\ 1..i \in SUBSET (1..n) /\ 1..i # {}
  <2>1. i \in Nat /\ i <= n /\ 1 <= i
    OBVIOUS
  <2>2. i \in 1..i
    BY <2>1
  <2> QED BY <2>1, <2>2
<1>3. 1..0 = {}
  OBVIOUS
<1> QED BY <1>1, <1>2, <1>3

LEMMA GreatestIndex ==
    ASSUME NEW n \in Nat, NEW S \in SUBSET (1..n), S # {}
    PROVE  Max(S) \in 1..n /\ S \ {Max(S)} \in SUBSET (1..n)
<1>1. S \in SUBSET (0..n)
  OBVIOUS
<1> QED BY <1>1, MaxIs

(* The values of a fold, from the first one to the last *)
Chain(c, s, first, last, next) ==
    /\ c[0] = first /\ c[Len(s)] = last
    /\ \A i \in 1..Len(s) : c[i] = next[i]

(* The elements that are kept are kept one by one. *)
LEMMA OnlySteps ==
    ASSUME NEW T, NEW E, NEW s \in Seq(E), NEW U, <<>> \in U,
           \A u, x : u \in U /\ x \in E => KeepIf(T, u, x) \in U
    PROVE  \E c \in [0..Len(s) -> U] :
              Chain(c, s, <<>>, Only(s, T),
                    [i \in 1..Len(s) |-> KeepIf(T, c[i - 1], s[i])])
<1> DEFINE F == CHOOSE f : f = [S \in SUBSET DOMAIN s |-> IF S = {} THEN <<>>
                               ELSE KeepIf(T, f[S \ {Max(S)}], s[Max(S)])]
<1>1. Only(s, T) = F[DOMAIN s]
  BY Zenon DEF FoldLeft, MapThenFoldSet, Only
<1> HIDE DEF F
<1>2. PICK n \in Nat : n = Len(s) /\ DOMAIN s = 1..n /\ \A i \in 1..n : s[i] \in E
  BY LenProperties, ElementOfSeq
<1>3. PICK step : step = [p \in U \X (1..n) |-> KeepIf(T, p[1], s[p[2]])]
  OBVIOUS
<1>4. /\ step \in [U \X (1..n) -> U]
      /\ \A u \in U, i \in 1..n : step[<<u, i>>] = KeepIf(T, u, s[i])
  BY <1>2, <1>3
<1>5. PICK h \in [SUBSET (1..n) -> U] : Folds(h, n, <<>>, step)
  BY <1>4, FoldExists
<1>6. \A S \in SUBSET (1..n) : S # {} =>
        Max(S) \in 1..n /\ S \ {Max(S)} \in SUBSET (1..n)
  BY <1>2, GreatestIndex
<1>7. h = [S \in SUBSET DOMAIN s |-> IF S = {} THEN <<>>
                                    ELSE KeepIf(T, h[S \ {Max(S)}], s[Max(S)])]
  BY <1>2, <1>4, <1>5, <1>6 DEF Folds
<1>8. F = [S \in SUBSET DOMAIN s |-> IF S = {} THEN <<>>
                                    ELSE KeepIf(T, F[S \ {Max(S)}], s[Max(S)])]
  BY <1>7 DEF F
<1>9. PICK G : G = F
  OBVIOUS
<1>10. /\ G[{}] = <<>>
       /\ \A S \in SUBSET (1..n) : S # {} =>
             G[S] = KeepIf(T, G[S \ {Max(S)}], s[Max(S)])
  BY <1>2, <1>8, <1>9
<1>11. PICK c : c = [i \in 0..n |-> G[1..i]]
  OBVIOUS
<1>12. c[0] = <<>> /\ c[n] = Only(s, T)
  <2>1. 1..0 = {} /\ 0 \in 0..n /\ n \in 0..n
    OBVIOUS
  <2> QED BY <1>1, <1>2, <1>9, <1>10, <1>11, <2>1
<1>13. ASSUME NEW i \in 1..n PROVE c[i] = KeepIf(T, c[i - 1], s[i])
  <2>1. c[i] = G[1..i] /\ c[i - 1] = G[1..(i - 1)]
    BY <1>11
  <2>2. /\ Max(1..i) = i /\ (1..i) \ {i} = 1..(i - 1)
        /\ 1..i \in SUBSET (1..n) /\ 1..i # {}
    BY FirstIndices
  <2> QED BY <1>10, <2>1, <2>2
<1>14. \A i \in 0..n : c[i] \in U
  <2>1. \A i \in 1..n : c[i - 1] \in U => c[i] \in U
    BY <1>2, <1>13
  <2> QED BY <1>12, <2>1, ChainIn
<1>15. /\ c \in [0..Len(s) -> U] /\ c[0] = <<>> /\ c[Len(s)] = Only(s, T)
       /\ \A i \in 1..Len(s) : c[i] = KeepIf(T, c[i - 1], s[i])
  BY <1>2, <1>11, <1>12, <1>13, <1>14
<1> QED BY <1>15 DEF Chain

(* The spans are sorted one by one. *)
LEMMA InsertSteps ==
    ASSUME NEW E, NEW s \in Seq(E), NEW U, <<>> \in U,
           \A u, x : u \in U /\ x \in E => Insert(u, x) \in U
    PROVE  \E c \in [0..Len(s) -> U] :
              Chain(c, s, <<>>, SortByStart(s),
                    [i \in 1..Len(s) |-> Insert(c[i - 1], s[i])])
<1> DEFINE F == CHOOSE f : f = [S \in SUBSET DOMAIN s |-> IF S = {} THEN <<>>
                               ELSE Insert(f[S \ {Max(S)}], s[Max(S)])]
<1>1. SortByStart(s) = F[DOMAIN s]
  BY Zenon DEF FoldLeft, MapThenFoldSet, SortByStart
<1> HIDE DEF F
<1>2. PICK n \in Nat : n = Len(s) /\ DOMAIN s = 1..n /\ \A i \in 1..n : s[i] \in E
  BY LenProperties, ElementOfSeq
<1>3. PICK step : step = [p \in U \X (1..n) |-> Insert(p[1], s[p[2]])]
  OBVIOUS
<1>4. /\ step \in [U \X (1..n) -> U]
      /\ \A u \in U, i \in 1..n : step[<<u, i>>] = Insert(u, s[i])
  BY <1>2, <1>3
<1>5. PICK h \in [SUBSET (1..n) -> U] : Folds(h, n, <<>>, step)
  BY <1>4, FoldExists
<1>6. \A S \in SUBSET (1..n) : S # {} =>
        Max(S) \in 1..n /\ S \ {Max(S)} \in SUBSET (1..n)
  BY <1>2, GreatestIndex
<1>7. h = [S \in SUBSET DOMAIN s |-> IF S = {} THEN <<>>
                                    ELSE Insert(h[S \ {Max(S)}], s[Max(S)])]
  BY <1>2, <1>4, <1>5, <1>6 DEF Folds
<1>8. F = [S \in SUBSET DOMAIN s |-> IF S = {} THEN <<>>
                                    ELSE Insert(F[S \ {Max(S)}], s[Max(S)])]
  BY <1>7 DEF F
<1>9. PICK G : G = F
  OBVIOUS
<1>10. /\ G[{}] = <<>>
       /\ \A S \in SUBSET (1..n) : S # {} =>
             G[S] = Insert(G[S \ {Max(S)}], s[Max(S)])
  BY <1>2, <1>8, <1>9
<1>11. PICK c : c = [i \in 0..n |-> G[1..i]]
  OBVIOUS
<1>12. c[0] = <<>> /\ c[n] = SortByStart(s)
  <2>1. 1..0 = {} /\ 0 \in 0..n /\ n \in 0..n
    OBVIOUS
  <2> QED BY <1>1, <1>2, <1>9, <1>10, <1>11, <2>1
<1>13. ASSUME NEW i \in 1..n PROVE c[i] = Insert(c[i - 1], s[i])
  <2>1. c[i] = G[1..i] /\ c[i - 1] = G[1..(i - 1)]
    BY <1>11
  <2>2. /\ Max(1..i) = i /\ (1..i) \ {i} = 1..(i - 1)
        /\ 1..i \in SUBSET (1..n) /\ 1..i # {}
    BY FirstIndices
  <2> QED BY <1>10, <2>1, <2>2
<1>14. \A i \in 0..n : c[i] \in U
  <2>1. \A i \in 1..n : c[i - 1] \in U => c[i] \in U
    BY <1>2, <1>13
  <2> QED BY <1>12, <2>1, ChainIn
<1>15. /\ c \in [0..Len(s) -> U] /\ c[0] = <<>> /\ c[Len(s)] = SortByStart(s)
       /\ \A i \in 1..Len(s) : c[i] = Insert(c[i - 1], s[i])
  BY <1>2, <1>11, <1>12, <1>13, <1>14
<1> QED BY <1>15 DEF Chain

(* The long tasks are counted one by one. *)
LEMMA LongTaskSteps ==
    ASSUME NEW base, NEW E, NEW s \in Seq(E), NEW U, base \in U,
           \A u, x : u \in U /\ x \in E => AddLongTask(u, x) \in U
    PROVE  \E c \in [0..Len(s) -> U] :
              Chain(c, s, base, AggregateLongTasks(base, s),
                    [i \in 1..Len(s) |-> AddLongTask(c[i - 1], s[i])])
<1> DEFINE F == CHOOSE f : f = [S \in SUBSET DOMAIN s |-> IF S = {} THEN base
                               ELSE AddLongTask(f[S \ {Max(S)}], s[Max(S)])]
<1>1. AggregateLongTasks(base, s) = F[DOMAIN s]
  BY Zenon DEF FoldLeft, MapThenFoldSet, AggregateLongTasks
<1> HIDE DEF F
<1>2. PICK n \in Nat : n = Len(s) /\ DOMAIN s = 1..n /\ \A i \in 1..n : s[i] \in E
  BY LenProperties, ElementOfSeq
<1>3. PICK step : step = [p \in U \X (1..n) |-> AddLongTask(p[1], s[p[2]])]
  OBVIOUS
<1>4. /\ step \in [U \X (1..n) -> U]
      /\ \A u \in U, i \in 1..n : step[<<u, i>>] = AddLongTask(u, s[i])
  BY <1>2, <1>3
<1>5. PICK h \in [SUBSET (1..n) -> U] : Folds(h, n, base, step)
  BY <1>4, FoldExists
<1>6. \A S \in SUBSET (1..n) : S # {} =>
        Max(S) \in 1..n /\ S \ {Max(S)} \in SUBSET (1..n)
  BY <1>2, GreatestIndex
<1>7. h = [S \in SUBSET DOMAIN s |-> IF S = {} THEN base
                                    ELSE AddLongTask(h[S \ {Max(S)}], s[Max(S)])]
  BY <1>2, <1>4, <1>5, <1>6 DEF Folds
<1>8. F = [S \in SUBSET DOMAIN s |-> IF S = {} THEN base
                                    ELSE AddLongTask(F[S \ {Max(S)}], s[Max(S)])]
  BY <1>7 DEF F
<1>9. PICK G : G = F
  OBVIOUS
<1>10. /\ G[{}] = base
       /\ \A S \in SUBSET (1..n) : S # {} =>
             G[S] = AddLongTask(G[S \ {Max(S)}], s[Max(S)])
  BY <1>2, <1>8, <1>9
<1>11. PICK c : c = [i \in 0..n |-> G[1..i]]
  OBVIOUS
<1>12. c[0] = base /\ c[n] = AggregateLongTasks(base, s)
  <2>1. 1..0 = {} /\ 0 \in 0..n /\ n \in 0..n
    OBVIOUS
  <2> QED BY <1>1, <1>2, <1>9, <1>10, <1>11, <2>1
<1>13. ASSUME NEW i \in 1..n PROVE c[i] = AddLongTask(c[i - 1], s[i])
  <2>1. c[i] = G[1..i] /\ c[i - 1] = G[1..(i - 1)]
    BY <1>11
  <2>2. /\ Max(1..i) = i /\ (1..i) \ {i} = 1..(i - 1)
        /\ 1..i \in SUBSET (1..n) /\ 1..i # {}
    BY FirstIndices
  <2> QED BY <1>10, <2>1, <2>2
<1>14. \A i \in 0..n : c[i] \in U
  <2>1. \A i \in 1..n : c[i - 1] \in U => c[i] \in U
    BY <1>2, <1>13
  <2> QED BY <1>12, <2>1, ChainIn
<1>15. /\ c \in [0..Len(s) -> U] /\ c[0] = base /\ c[Len(s)] = AggregateLongTasks(base, s)
       /\ \A i \in 1..Len(s) : c[i] = AddLongTask(c[i - 1], s[i])
  BY <1>2, <1>11, <1>12, <1>13, <1>14
<1> QED BY <1>15 DEF Chain

(* What long tasks add to the blocking time, and spans to what is covered   *)
Blocking(base, s) == FoldLeft(AddBlocking, base, s)
Cover(base, s) == FoldLeft(Continue, base, s)

(* Their blocking times are added one by one. *)
LEMMA BlockingSteps ==
    ASSUME NEW base, NEW E, NEW s \in Seq(E), NEW U, base \in U,
           \A u, x : u \in U /\ x \in E => AddBlocking(u, x) \in U
    PROVE  \E c \in [0..Len(s) -> U] :
              Chain(c, s, base, Blocking(base, s),
                    [i \in 1..Len(s) |-> AddBlocking(c[i - 1], s[i])])
<1> DEFINE F == CHOOSE f : f = [S \in SUBSET DOMAIN s |-> IF S = {} THEN base
                               ELSE AddBlocking(f[S \ {Max(S)}], s[Max(S)])]
<1>1. Blocking(base, s) = F[DOMAIN s]
  BY Zenon DEF FoldLeft, MapThenFoldSet, Blocking
<1> HIDE DEF F
<1>2. PICK n \in Nat : n = Len(s) /\ DOMAIN s = 1..n /\ \A i \in 1..n : s[i] \in E
  BY LenProperties, ElementOfSeq
<1>3. PICK step : step = [p \in U \X (1..n) |-> AddBlocking(p[1], s[p[2]])]
  OBVIOUS
<1>4. /\ step \in [U \X (1..n) -> U]
      /\ \A u \in U, i \in 1..n : step[<<u, i>>] = AddBlocking(u, s[i])
  BY <1>2, <1>3
<1>5. PICK h \in [SUBSET (1..n) -> U] : Folds(h, n, base, step)
  BY <1>4, FoldExists
<1>6. \A S \in SUBSET (1..n) : S # {} =>
        Max(S) \in 1..n /\ S \ {Max(S)} \in SUBSET (1..n)
  BY <1>2, GreatestIndex
<1>7. h = [S \in SUBSET DOMAIN s |-> IF S = {} THEN base
                                    ELSE AddBlocking(h[S \ {Max(S)}], s[Max(S)])]
  BY <1>2, <1>4, <1>5, <1>6 DEF Folds
<1>8. F = [S \in SUBSET DOMAIN s |-> IF S = {} THEN base
                                    ELSE AddBlocking(F[S \ {Max(S)}], s[Max(S)])]
  BY <1>7 DEF F
<1>9. PICK G : G = F
  OBVIOUS
<1>10. /\ G[{}] = base
       /\ \A S \in SUBSET (1..n) : S # {} =>
             G[S] = AddBlocking(G[S \ {Max(S)}], s[Max(S)])
  BY <1>2, <1>8, <1>9
<1>11. PICK c : c = [i \in 0..n |-> G[1..i]]
  OBVIOUS
<1>12. c[0] = base /\ c[n] = Blocking(base, s)
  <2>1. 1..0 = {} /\ 0 \in 0..n /\ n \in 0..n
    OBVIOUS
  <2> QED BY <1>1, <1>2, <1>9, <1>10, <1>11, <2>1
<1>13. ASSUME NEW i \in 1..n PROVE c[i] = AddBlocking(c[i - 1], s[i])
  <2>1. c[i] = G[1..i] /\ c[i - 1] = G[1..(i - 1)]
    BY <1>11
  <2>2. /\ Max(1..i) = i /\ (1..i) \ {i} = 1..(i - 1)
        /\ 1..i \in SUBSET (1..n) /\ 1..i # {}
    BY FirstIndices
  <2> QED BY <1>10, <2>1, <2>2
<1>14. \A i \in 0..n : c[i] \in U
  <2>1. \A i \in 1..n : c[i - 1] \in U => c[i] \in U
    BY <1>2, <1>13
  <2> QED BY <1>12, <2>1, ChainIn
<1>15. /\ c \in [0..Len(s) -> U] /\ c[0] = base /\ c[Len(s)] = Blocking(base, s)
       /\ \A i \in 1..Len(s) : c[i] = AddBlocking(c[i - 1], s[i])
  BY <1>2, <1>11, <1>12, <1>13, <1>14
<1> QED BY <1>15 DEF Chain

(* Numbers are added one by one. *)
LEMMA SumSteps ==
    ASSUME NEW E, NEW s \in Seq(E), NEW U, 0 \in U,
           \A u, x : u \in U /\ x \in E => u + x \in U
    PROVE  \E c \in [0..Len(s) -> U] :
              Chain(c, s, 0, Sum(s),
                    [i \in 1..Len(s) |-> c[i - 1] + s[i]])
<1> DEFINE F == CHOOSE f : f = [S \in SUBSET DOMAIN s |-> IF S = {} THEN 0
                               ELSE f[S \ {Max(S)}] + s[Max(S)]]
<1>1. Sum(s) = F[DOMAIN s]
  BY Zenon DEF FoldLeft, MapThenFoldSet, Sum
<1> HIDE DEF F
<1>2. PICK n \in Nat : n = Len(s) /\ DOMAIN s = 1..n /\ \A i \in 1..n : s[i] \in E
  BY LenProperties, ElementOfSeq
<1>3. PICK step : step = [p \in U \X (1..n) |-> p[1] + s[p[2]]]
  OBVIOUS
<1>4. /\ step \in [U \X (1..n) -> U]
      /\ \A u \in U, i \in 1..n : step[<<u, i>>] = u + s[i]
  BY <1>2, <1>3
<1>5. PICK h \in [SUBSET (1..n) -> U] : Folds(h, n, 0, step)
  BY <1>4, FoldExists
<1>6. \A S \in SUBSET (1..n) : S # {} =>
        Max(S) \in 1..n /\ S \ {Max(S)} \in SUBSET (1..n)
  BY <1>2, GreatestIndex
<1>7. h = [S \in SUBSET DOMAIN s |-> IF S = {} THEN 0
                                    ELSE h[S \ {Max(S)}] + s[Max(S)]]
  BY <1>2, <1>4, <1>5, <1>6 DEF Folds
<1>8. F = [S \in SUBSET DOMAIN s |-> IF S = {} THEN 0
                                    ELSE F[S \ {Max(S)}] + s[Max(S)]]
  BY <1>7 DEF F
<1>9. PICK G : G = F
  OBVIOUS
<1>10. /\ G[{}] = 0
       /\ \A S \in SUBSET (1..n) : S # {} =>
             G[S] = G[S \ {Max(S)}] + s[Max(S)]
  BY <1>2, <1>8, <1>9
<1>11. PICK c : c = [i \in 0..n |-> G[1..i]]
  OBVIOUS
<1>12. c[0] = 0 /\ c[n] = Sum(s)
  <2>1. 1..0 = {} /\ 0 \in 0..n /\ n \in 0..n
    OBVIOUS
  <2> QED BY <1>1, <1>2, <1>9, <1>10, <1>11, <2>1
<1>13. ASSUME NEW i \in 1..n PROVE c[i] = c[i - 1] + s[i]
  <2>1. c[i] = G[1..i] /\ c[i - 1] = G[1..(i - 1)]
    BY <1>11
  <2>2. /\ Max(1..i) = i /\ (1..i) \ {i} = 1..(i - 1)
        /\ 1..i \in SUBSET (1..n) /\ 1..i # {}
    BY FirstIndices
  <2> QED BY <1>10, <2>1, <2>2
<1>14. \A i \in 0..n : c[i] \in U
  <2>1. \A i \in 1..n : c[i - 1] \in U => c[i] \in U
    BY <1>2, <1>13
  <2> QED BY <1>12, <2>1, ChainIn
<1>15. /\ c \in [0..Len(s) -> U] /\ c[0] = 0 /\ c[Len(s)] = Sum(s)
       /\ \A i \in 1..Len(s) : c[i] = c[i - 1] + s[i]
  BY <1>2, <1>11, <1>12, <1>13, <1>14
<1> QED BY <1>15 DEF Chain

(* The time that spans cover is measured span by span. *)
LEMMA ContinueSteps ==
    ASSUME NEW base, NEW E, NEW s \in Seq(E), NEW U, base \in U,
           \A u, x : u \in U /\ x \in E => Continue(u, x) \in U
    PROVE  \E c \in [0..Len(s) -> U] :
              Chain(c, s, base, Cover(base, s),
                    [i \in 1..Len(s) |-> Continue(c[i - 1], s[i])])
<1> DEFINE F == CHOOSE f : f = [S \in SUBSET DOMAIN s |-> IF S = {} THEN base
                               ELSE Continue(f[S \ {Max(S)}], s[Max(S)])]
<1>1. Cover(base, s) = F[DOMAIN s]
  BY Zenon DEF FoldLeft, MapThenFoldSet, Cover
<1> HIDE DEF F
<1>2. PICK n \in Nat : n = Len(s) /\ DOMAIN s = 1..n /\ \A i \in 1..n : s[i] \in E
  BY LenProperties, ElementOfSeq
<1>3. PICK step : step = [p \in U \X (1..n) |-> Continue(p[1], s[p[2]])]
  OBVIOUS
<1>4. /\ step \in [U \X (1..n) -> U]
      /\ \A u \in U, i \in 1..n : step[<<u, i>>] = Continue(u, s[i])
  BY <1>2, <1>3
<1>5. PICK h \in [SUBSET (1..n) -> U] : Folds(h, n, base, step)
  BY <1>4, FoldExists
<1>6. \A S \in SUBSET (1..n) : S # {} =>
        Max(S) \in 1..n /\ S \ {Max(S)} \in SUBSET (1..n)
  BY <1>2, GreatestIndex
<1>7. h = [S \in SUBSET DOMAIN s |-> IF S = {} THEN base
                                    ELSE Continue(h[S \ {Max(S)}], s[Max(S)])]
  BY <1>2, <1>4, <1>5, <1>6 DEF Folds
<1>8. F = [S \in SUBSET DOMAIN s |-> IF S = {} THEN base
                                    ELSE Continue(F[S \ {Max(S)}], s[Max(S)])]
  BY <1>7 DEF F
<1>9. PICK G : G = F
  OBVIOUS
<1>10. /\ G[{}] = base
       /\ \A S \in SUBSET (1..n) : S # {} =>
             G[S] = Continue(G[S \ {Max(S)}], s[Max(S)])
  BY <1>2, <1>8, <1>9
<1>11. PICK c : c = [i \in 0..n |-> G[1..i]]
  OBVIOUS
<1>12. c[0] = base /\ c[n] = Cover(base, s)
  <2>1. 1..0 = {} /\ 0 \in 0..n /\ n \in 0..n
    OBVIOUS
  <2> QED BY <1>1, <1>2, <1>9, <1>10, <1>11, <2>1
<1>13. ASSUME NEW i \in 1..n PROVE c[i] = Continue(c[i - 1], s[i])
  <2>1. c[i] = G[1..i] /\ c[i - 1] = G[1..(i - 1)]
    BY <1>11
  <2>2. /\ Max(1..i) = i /\ (1..i) \ {i} = 1..(i - 1)
        /\ 1..i \in SUBSET (1..n) /\ 1..i # {}
    BY FirstIndices
  <2> QED BY <1>10, <2>1, <2>2
<1>14. \A i \in 0..n : c[i] \in U
  <2>1. \A i \in 1..n : c[i - 1] \in U => c[i] \in U
    BY <1>2, <1>13
  <2> QED BY <1>12, <2>1, ChainIn
<1>15. /\ c \in [0..Len(s) -> U] /\ c[0] = base /\ c[Len(s)] = Cover(base, s)
       /\ \A i \in 1..Len(s) : c[i] = Continue(c[i - 1], s[i])
  BY <1>2, <1>11, <1>12, <1>13, <1>14
<1> QED BY <1>15 DEF Chain

(* Spans are grouped one by one. *)
LEMMA GroupSteps ==
    ASSUME NEW d, NEW E, NEW s \in Seq(E), NEW U, <<>> \in U,
           \A u, x : u \in U /\ x \in E => Group(d, u, x) \in U
    PROVE  \E c \in [0..Len(s) -> U] :
              Chain(c, s, <<>>, GroupSorted(s, d),
                    [i \in 1..Len(s) |-> Group(d, c[i - 1], s[i])])
<1> DEFINE F == CHOOSE f : f = [S \in SUBSET DOMAIN s |-> IF S = {} THEN <<>>
                               ELSE Group(d, f[S \ {Max(S)}], s[Max(S)])]
<1>1. GroupSorted(s, d) = F[DOMAIN s]
  BY Zenon DEF FoldLeft, MapThenFoldSet, GroupSorted
<1> HIDE DEF F
<1>2. PICK n \in Nat : n = Len(s) /\ DOMAIN s = 1..n /\ \A i \in 1..n : s[i] \in E
  BY LenProperties, ElementOfSeq
<1>3. PICK step : step = [p \in U \X (1..n) |-> Group(d, p[1], s[p[2]])]
  OBVIOUS
<1>4. /\ step \in [U \X (1..n) -> U]
      /\ \A u \in U, i \in 1..n : step[<<u, i>>] = Group(d, u, s[i])
  BY <1>2, <1>3
<1>5. PICK h \in [SUBSET (1..n) -> U] : Folds(h, n, <<>>, step)
  BY <1>4, FoldExists
<1>6. \A S \in SUBSET (1..n) : S # {} =>
        Max(S) \in 1..n /\ S \ {Max(S)} \in SUBSET (1..n)
  BY <1>2, GreatestIndex
<1>7. h = [S \in SUBSET DOMAIN s |-> IF S = {} THEN <<>>
                                    ELSE Group(d, h[S \ {Max(S)}], s[Max(S)])]
  BY <1>2, <1>4, <1>5, <1>6 DEF Folds
<1>8. F = [S \in SUBSET DOMAIN s |-> IF S = {} THEN <<>>
                                    ELSE Group(d, F[S \ {Max(S)}], s[Max(S)])]
  BY <1>7 DEF F
<1>9. PICK G : G = F
  OBVIOUS
<1>10. /\ G[{}] = <<>>
       /\ \A S \in SUBSET (1..n) : S # {} =>
             G[S] = Group(d, G[S \ {Max(S)}], s[Max(S)])
  BY <1>2, <1>8, <1>9
<1>11. PICK c : c = [i \in 0..n |-> G[1..i]]
  OBVIOUS
<1>12. c[0] = <<>> /\ c[n] = GroupSorted(s, d)
  <2>1. 1..0 = {} /\ 0 \in 0..n /\ n \in 0..n
    OBVIOUS
  <2> QED BY <1>1, <1>2, <1>9, <1>10, <1>11, <2>1
<1>13. ASSUME NEW i \in 1..n PROVE c[i] = Group(d, c[i - 1], s[i])
  <2>1. c[i] = G[1..i] /\ c[i - 1] = G[1..(i - 1)]
    BY <1>11
  <2>2. /\ Max(1..i) = i /\ (1..i) \ {i} = 1..(i - 1)
        /\ 1..i \in SUBSET (1..n) /\ 1..i # {}
    BY FirstIndices
  <2> QED BY <1>10, <2>1, <2>2
<1>14. \A i \in 0..n : c[i] \in U
  <2>1. \A i \in 1..n : c[i - 1] \in U => c[i] \in U
    BY <1>2, <1>13
  <2> QED BY <1>12, <2>1, ChainIn
<1>15. /\ c \in [0..Len(s) -> U] /\ c[0] = <<>> /\ c[Len(s)] = GroupSorted(s, d)
       /\ \A i \in 1..Len(s) : c[i] = Group(d, c[i - 1], s[i])
  BY <1>2, <1>11, <1>12, <1>13, <1>14
<1> QED BY <1>15 DEF Chain

-----------------------------------------------------------------------------
(* What the operators of the timeline return *)

(* What is kept is of the sequence and of the set, *)
LEMMA OnlyChain ==
    ASSUME NEW E, NEW s \in Seq(E), NEW T
    PROVE  \E c \in [0..Len(s) -> Seq(E \cap T)] :
              Chain(c, s, <<>>, Only(s, T),
                    [i \in 1..Len(s) |-> KeepIf(T, c[i - 1], s[i])])
<1>1. PICK U : U = Seq(E \cap T)
  OBVIOUS
<1>2. <<>> \in U
  BY <1>1
<1>3. \A u, x : u \in U /\ x \in E => KeepIf(T, u, x) \in U
  BY <1>1 DEF KeepIf
<1>4. \E c \in [0..Len(s) -> U] :
         Chain(c, s, <<>>, Only(s, T),
               [i \in 1..Len(s) |-> KeepIf(T, c[i - 1], s[i])])
  BY <1>2, <1>3, OnlySteps
<1> QED BY <1>1, <1>4

LEMMA OnlyType ==
    ASSUME NEW E, NEW s \in Seq(E), NEW T
    PROVE  Only(s, T) \in Seq(E \cap T)
<1>1. PICK c \in [0..Len(s) -> Seq(E \cap T)] :
        Chain(c, s, <<>>, Only(s, T),
              [i \in 1..Len(s) |-> KeepIf(T, c[i - 1], s[i])])
  BY OnlyChain
<1>2. Len(s) \in 0..Len(s)
  BY LenProperties
<1> QED BY <1>1, <1>2 DEF Chain

(* in its order,                                                            *)
Increasing(f, n) == \A j, k \in 1..n : j < k => f[j] < f[k]

LEMMA OnlyIndices ==
    ASSUME NEW E, NEW s \in Seq(E), NEW T
    PROVE  \E f \in [1..Len(Only(s, T)) -> 1..Len(s)] :
              /\ \A j \in 1..Len(Only(s, T)) : Only(s, T)[j] = s[f[j]]
              /\ Increasing(f, Len(Only(s, T)))
<1> DEFINE Good(t, i) == \E f \in [1..Len(t) -> 1..i] :
                            /\ \A j \in 1..Len(t) : t[j] = s[f[j]]
                            /\ Increasing(f, Len(t))
<1>1. PICK c \in [0..Len(s) -> Seq(E \cap T)] :
        Chain(c, s, <<>>, Only(s, T),
              [i \in 1..Len(s) |-> KeepIf(T, c[i - 1], s[i])])
  BY OnlyChain
<1>2. /\ c[0] = <<>> /\ c[Len(s)] = Only(s, T)
      /\ \A i \in 1..Len(s) : c[i] = KeepIf(T, c[i - 1], s[i])
  BY <1>1 DEF Chain
<1>3. PICK n \in Nat : n = Len(s) /\ \A i \in 1..n : s[i] \in E
  BY LenProperties, ElementOfSeq
<1> DEFINE Holds == {i \in 0..n : Good(c[i], i)}
<1>4. Good(c[0], 0)
  <2>1. \A j \in 1..0 : FALSE
    OBVIOUS
  <2>2. PICK f : f = [j \in 1..0 |-> j]
    OBVIOUS
  <2>3. f \in [1..0 -> 1..0] /\ Len(<<>>) = 0
    BY <2>1, <2>2
  <2> QED BY <1>2, <2>1, <2>3 DEF Increasing
<1>5. ASSUME NEW i \in 1..n, Good(c[i - 1], i - 1) PROVE Good(c[i], i)
  <2>1. PICK u \in Seq(E) : u = c[i - 1]
    <3>1. i - 1 \in 0..n
      OBVIOUS
    <3>2. c[i - 1] \in Seq(E \cap T)
      BY <1>1, <1>3, <3>1
    <3> QED BY <3>2, SeqMonotonic
  <2>2. PICK m \in Nat : m = Len(u)
    OBVIOUS
  <2>3. PICK f \in [1..m -> 1..(i - 1)] :
          (\A j \in 1..m : u[j] = s[f[j]]) /\ Increasing(f, m)
    BY <1>5, <2>1, <2>2
  <2>4. CASE c[i] = u
    <3>1. f \in [1..m -> 1..i]
      <4>1. \A j \in 1..m : f[j] \in 1..i
        BY <2>3
      <4> QED BY <4>1
    <3> QED BY <2>2, <2>3, <2>4, <3>1
  <2>5. CASE c[i] = Append(u, s[i])
    <3>1. PICK v : v = Append(u, s[i])
      OBVIOUS
    <3>2. /\ Len(v) = m + 1 /\ v[m + 1] = s[i]
          /\ \A j \in 1..m : v[j] = u[j]
      BY <1>3, <2>2, <3>1
    <3>3. PICK g : g = [j \in 1..(m + 1) |-> IF j = m + 1 THEN i ELSE f[j]]
      OBVIOUS
    <3>4. \A j \in 1..(m + 1) : j = m + 1 \/ (j \in 1..m /\ j # m + 1)
      OBVIOUS
    <3>5. /\ \A j \in 1..m : g[j] = f[j] /\ f[j] \in 1..(i - 1)
          /\ g[m + 1] = i /\ m + 1 \in 1..(m + 1)
      BY <2>3, <3>3
    <3>6. \A j \in 1..(m + 1) : g[j] \in 1..i /\ v[j] = s[g[j]]
      <4>1. ASSUME NEW j \in 1..m PROVE g[j] \in 1..i /\ v[j] = s[g[j]]
        BY <2>3, <3>2, <3>5
      <4>2. g[m + 1] \in 1..i /\ v[m + 1] = s[g[m + 1]]
        BY <1>3, <3>2, <3>5
      <4> QED BY <3>4, <4>1, <4>2
    <3>7. Increasing(g, m + 1)
      <4>1. SUFFICES ASSUME NEW j \in 1..(m + 1), NEW k \in 1..(m + 1), j < k
                     PROVE  g[j] < g[k]
        BY DEF Increasing
      <4>2. j \in 1..m
        BY <4>1
      <4>3. CASE k = m + 1
        BY <3>5, <4>2, <4>3
      <4>4. CASE k \in 1..m
        BY <2>3, <3>5, <4>1, <4>2, <4>4 DEF Increasing
      <4> QED BY <3>4, <4>3, <4>4
    <3>8. g \in [1..(m + 1) -> 1..i]
      BY <3>3, <3>6
    <3> QED BY <2>5, <3>1, <3>2, <3>6, <3>7, <3>8
  <2> QED BY <1>2, <1>3, <2>1, <2>4, <2>5 DEF KeepIf
<1>6. \A i \in 0..n : i \in Holds
  <2> HIDE DEF Good
  <2>1. 0 \in Holds /\ \A i \in 1..n : i - 1 \in Holds => i \in Holds
    BY <1>4, <1>5
  <2> HIDE DEF Holds
  <2> QED BY <2>1, Stepwise
<1>7. Good(Only(s, T), n)
  <2> HIDE DEF Good
  <2>1. n \in 0..n
    OBVIOUS
  <2> QED BY <1>2, <1>3, <1>6, <2>1
<1> QED BY <1>3, <1>7

(* each element once, if each was there once.                               *)
LEMMA OnlyDistinct ==
    ASSUME NEW E, NEW s \in Seq(E), NEW T, IsInjective(s)
    PROVE  IsInjective(Only(s, T))
<1>1. PICK t \in Seq(E) : t = Only(s, T)
  <2>1. Only(s, T) \in Seq(E \cap T)
    BY OnlyType
  <2> QED BY <2>1, SeqMonotonic
<1>2. PICK m \in Nat : m = Len(t) /\ DOMAIN t = 1..m
  BY LenProperties
<1>3. PICK n \in Nat : n = Len(s) /\ DOMAIN s = 1..n
  BY LenProperties
<1>4. PICK f \in [1..m -> 1..n] : (\A j \in 1..m : t[j] = s[f[j]]) /\ Increasing(f, m)
  BY <1>1, <1>2, <1>3, OnlyIndices
<1>5. ASSUME NEW j \in 1..m, NEW k \in 1..m, t[j] = t[k] PROVE j = k
  <2>1. f[j] = f[k] /\ f[j] \in 1..n
    BY <1>3, <1>4, <1>5 DEF IsInjective
  <2>2. ~(f[j] < f[k]) /\ ~(f[k] < f[j])
    BY <2>1
  <2>3. ~(j < k) /\ ~(k < j)
    BY <1>4, <2>2 DEF Increasing
  <2> QED BY <2>3
<1> QED BY <1>1, <1>2, <1>5 DEF IsInjective

(* A function on 1..n is a sequence of n elements, *)
LEMMA FunctionIsSeq ==
    ASSUME NEW n \in Nat, NEW S, NEW f \in [1..n -> S]
    PROVE  f \in Seq(S) /\ Len(f) = n /\ DOMAIN f = 1..n
OBVIOUS

(* and its values are bounded, if they are numbers.                         *)
LEMMA Bounded ==
    ASSUME NEW n \in Nat, NEW f \in [1..n -> Nat]
    PROVE  \E m \in Nat : \A i \in 1..n : f[i] <= m
<1> DEFINE Holds == {k \in 0..n : \E m \in Nat : \A i \in 1..k : f[i] <= m}
<1>1. 0 \in Holds
  <2>1. \A i \in 1..0 : f[i] <= 0
    OBVIOUS
  <2> QED BY <2>1
<1>2. ASSUME NEW k \in 1..n, k - 1 \in Holds PROVE k \in Holds
  <2>1. PICK m \in Nat : \A i \in 1..(k - 1) : f[i] <= m
    BY <1>2
  <2>2. PICK x \in Nat : x = MaxOf(m, f[k])
    BY DEF MaxOf
  <2>3. m <= x /\ f[k] <= x
    BY <2>2 DEF MaxOf
  <2>4. \A i \in 1..k : f[i] <= x
    BY <2>1, <2>3
  <2> QED BY <2>4
<1>3. \A k \in 0..n : k \in Holds
  <2> HIDE DEF Holds
  <2> QED BY <1>1, <1>2, Stepwise
<1>4. n \in 0..n
  OBVIOUS
<1> QED BY <1>3, <1>4

(* The least of some numbers *)
LEMMA MinIs ==
    ASSUME NEW S, S \subseteq Nat, S # {}
    PROVE  Min(S) \in S /\ \A i \in S : Min(S) <= i
<1>1. \E m \in S : \A i \in S : m <= i
  BY Least
<1> QED BY <1>1 DEF Min

-----------------------------------------------------------------------------
(* The data *)

Observed == {"longtask", "paint", "largest-contentful-paint", "first-input",
             "layout-shift", "self", "cross-origin"}
Names == {"GET", "app", "external", "fid", "measure", "tbt"} \cup Observed
           \cup {p[1] : p \in Range(eventPairs)} \cup Initiators
AnySpan == [kind : Kinds, name : Names, start : Nat, end : Nat, call : Nat,
            count : Nat, truncated : BOOLEAN]
Spans == {s \in AnySpan : s.start <= s.end}

(* A span is inserted after those that start before it or with it.          *)
Sorted(t) == \A i, j \in 1..Len(t) : i <= j => t[i].start <= t[j].start

LEMMA InsertIs ==
    ASSUME NEW E, E \subseteq Spans, NEW t \in Seq(E), Sorted(t), NEW x \in E
    PROVE  /\ Insert(t, x) \in Seq(E) /\ Sorted(Insert(t, x))
           /\ Len(Insert(t, x)) = Len(t) + 1
<1>1. PICK n \in Nat : n = Len(t) /\ DOMAIN t = 1..n /\ \A i \in 1..n : t[i] \in E
  BY LenProperties, ElementOfSeq
<1>2. PICK S : S = {0} \cup {i \in DOMAIN t : t[i].start <= x.start}
  OBVIOUS
<1>3. S \in SUBSET (0..n) /\ S # {}
  BY <1>1, <1>2
<1>4. PICK p \in 0..n : p = Max(S)
  BY <1>3, MaxIs
<1>5. p \in S /\ \A i \in S : i <= p
  BY <1>3, <1>4, MaxIs
<1>6. x.start \in Nat /\ \A i \in 1..n : t[i].start \in Nat
  BY <1>1 DEF Spans, AnySpan
<1>7. /\ \A i \in 1..p : t[i].start <= x.start
      /\ \A i \in (p + 1)..n : x.start <= t[i].start
  <2>1. ASSUME NEW i \in 1..p PROVE t[i].start <= x.start
    <3>1. p \in 1..n /\ t[p].start <= x.start
      BY <1>1, <1>2, <1>5
    <3>2. i \in 1..n /\ i <= p
      OBVIOUS
    <3>3. t[i].start <= t[p].start
      BY <1>1, <3>1, <3>2 DEF Sorted
    <3> QED BY <1>6, <3>1, <3>2, <3>3
  <2>2. ASSUME NEW i \in (p + 1)..n PROVE x.start <= t[i].start
    <3>1. i \in 1..n /\ ~(i <= p)
      OBVIOUS
    <3>2. i \notin S
      BY <1>5, <3>1
    <3> QED BY <1>1, <1>2, <1>6, <3>1, <3>2
  <2> QED BY <2>1, <2>2
<1>8. PICK a : a = SubSeq(t, 1, p)
  OBVIOUS
<1>9. PICK b : b = SubSeq(t, p + 1, n)
  OBVIOUS
<1>10. /\ a \in Seq(E) /\ Len(a) = p /\ \A i \in 1..p : a[i] = t[i]
       /\ b \in Seq(E) /\ Len(b) = n - p /\ \A i \in 1..(n - p) : b[i] = t[p + i]
  BY <1>1, <1>8, <1>9
<1>11. PICK v : v = a \o <<x>> \o b
  OBVIOUS
<1>12. v = Insert(t, x)
  <2>1. 1 + p = p + 1 /\ (p + 1) - 1 = p
    OBVIOUS
  <2> QED BY <1>1, <1>2, <1>4, <1>8, <1>9, <1>11, <2>1 DEF Insert, InsertAt
<1>13. /\ v \in Seq(E) /\ Len(v) = n + 1
       /\ \A i \in 1..(n + 1) : v[i] = IF i <= p THEN t[i]
                                       ELSE IF i = p + 1 THEN x ELSE t[i - 1]
  <2>1. PICK u : u = a \o <<x>>
    OBVIOUS
  <2>2. /\ u \in Seq(E) /\ Len(u) = p + 1
        /\ \A i \in 1..(p + 1) : u[i] = IF i <= p THEN t[i] ELSE x
    BY <1>10, <2>1
  <2>3. v = u \o b
    BY <1>11, <2>1
  <2>4. /\ v \in Seq(E) /\ Len(v) = (p + 1) + (n - p)
        /\ \A i \in 1..((p + 1) + (n - p)) :
              v[i] = IF i <= p + 1 THEN u[i] ELSE b[i - (p + 1)]
    <3>1. /\ u \o b \in Seq(E) /\ Len(u \o b) = Len(u) + Len(b)
          /\ \A i \in 1..Len(u) + Len(b) :
                (u \o b)[i] = IF i <= Len(u) THEN u[i] ELSE b[i - Len(u)]
      BY <1>10, <2>2, ConcatProperties
    <3> QED BY <1>10, <2>2, <2>3, <3>1
  <2>5. (p + 1) + (n - p) = n + 1
    OBVIOUS
  <2>6. ASSUME NEW i \in 1..(n + 1), ~(i <= p + 1) PROVE v[i] = t[i - 1]
    <3>1. i - (p + 1) \in 1..(n - p) /\ p + (i - (p + 1)) = i - 1
      BY <2>6
    <3> QED BY <1>10, <2>4, <2>5, <2>6, <3>1
  <2>7. ASSUME NEW i \in 1..(n + 1), i <= p + 1
        PROVE  v[i] = IF i <= p THEN t[i] ELSE x
    BY <2>2, <2>4, <2>5, <2>7
  <2> QED BY <2>4, <2>5, <2>6, <2>7
<1>14. Sorted(v)
  <2>1. ASSUME NEW i \in 1..(n + 1), NEW j \in 1..(n + 1), i <= j
        PROVE  v[i].start <= v[j].start
    <3>1. \A k \in 1..n, l \in 1..n : k <= l => t[k].start <= t[l].start
      BY <1>1 DEF Sorted
    <3>2. CASE j <= p
      <4>1. v[i] = t[i] /\ v[j] = t[j] /\ i \in 1..n /\ j \in 1..n
        BY <1>13, <2>1, <3>2
      <4> QED BY <2>1, <3>1, <4>1
    <3>3. CASE j = p + 1
      <4>1. v[j] = x /\ (v[i] = x \/ (i \in 1..p /\ v[i] = t[i]))
        BY <1>13, <2>1, <3>3
      <4> QED BY <1>6, <1>7, <4>1
    <3>4. CASE j > p + 1
      <4>1. v[j] = t[j - 1] /\ j - 1 \in (p + 1)..n /\ j - 1 \in 1..n
        BY <1>13, <3>4
      <4>2. CASE i <= p
        <5>1. v[i] = t[i] /\ i \in 1..n /\ i <= j - 1
          BY <1>13, <3>4, <4>2
        <5> QED BY <3>1, <4>1, <5>1
      <4>3. CASE i = p + 1
        <5>1. v[i] = x
          BY <1>13, <4>3
        <5> QED BY <1>7, <4>1, <5>1
      <4>4. CASE i > p + 1
        <5>1. v[i] = t[i - 1] /\ i - 1 \in 1..n /\ i - 1 <= j - 1
          BY <1>13, <2>1, <4>4
        <5> QED BY <3>1, <4>1, <5>1
      <4> QED BY <4>2, <4>3, <4>4
    <3> QED BY <3>2, <3>3, <3>4
  <2> QED BY <1>13, <2>1 DEF Sorted
<1> QED BY <1>1, <1>12, <1>13, <1>14

(* The sorted spans are as many, and in the order of their starts.          *)
LEMMA SortIs ==
    ASSUME NEW E, E \subseteq Spans, NEW s \in Seq(E)
    PROVE  /\ SortByStart(s) \in Seq(E) /\ Sorted(SortByStart(s))
           /\ Len(SortByStart(s)) = Len(s)
<1>1. PICK U : U = {t \in Seq(E) : Sorted(t)}
  OBVIOUS
<1>2. <<>> \in U
  BY <1>1 DEF Sorted
<1>3. \A u, x : u \in U /\ x \in E => Insert(u, x) \in U
  BY <1>1, InsertIs
<1>4. \E c \in [0..Len(s) -> U] :
         Chain(c, s, <<>>, SortByStart(s), [i \in 1..Len(s) |-> Insert(c[i - 1], s[i])])
  BY <1>2, <1>3, InsertSteps
<1>5. PICK c \in [0..Len(s) -> U] :
         Chain(c, s, <<>>, SortByStart(s), [i \in 1..Len(s) |-> Insert(c[i - 1], s[i])])
  BY <1>4
<1>6. /\ c[0] = <<>> /\ c[Len(s)] = SortByStart(s)
      /\ \A i \in 1..Len(s) : c[i] = Insert(c[i - 1], s[i])
  BY <1>5 DEF Chain
<1>7. PICK n \in Nat : n = Len(s) /\ \A i \in 1..n : s[i] \in E
  BY LenProperties, ElementOfSeq
<1> DEFINE Holds == {i \in 0..n : Len(c[i]) = i}
<1>8. 0 \in Holds
  BY <1>6
<1>9. ASSUME NEW i \in 1..n, i - 1 \in Holds PROVE i \in Holds
  <2>1. c[i - 1] \in Seq(E) /\ Sorted(c[i - 1]) /\ Len(c[i - 1]) = i - 1
    BY <1>1, <1>7, <1>9
  <2>2. Len(Insert(c[i - 1], s[i])) = (i - 1) + 1
    BY <1>7, <2>1, InsertIs
  <2> QED BY <1>6, <1>7, <2>2
<1>10. \A i \in 0..n : i \in Holds
  <2> HIDE DEF Holds
  <2> QED BY <1>8, <1>9, Stepwise
<1>11. n \in 0..n
  OBVIOUS
<1> QED BY <1>1, <1>6, <1>7, <1>10, <1>11

-----------------------------------------------------------------------------
(* Groups *)

(* The groups so far, of spans that start no later than at m *)
GroupsBy(g, m) ==
    /\ g \in Seq(Spans)
    /\ g # <<>> => Last(g).start <= m

LEMMA JoinIs ==
    ASSUME NEW l \in AnySpan, NEW x \in AnySpan
    PROVE  Join(l, x) \in AnySpan /\ Join(l, x).start = l.start /\ Join(l, x).end = x.end
<1>1. PICK e \in Nat : e = x.end
  BY DEF AnySpan
<1>2. PICK n \in Nat : n = l.count + 1
  BY DEF AnySpan
<1>3. PICK j : j = [l EXCEPT !.end = e, !.count = n]
  OBVIOUS
<1>4. j \in AnySpan /\ j.start = l.start /\ j.end = e
  BY <1>3 DEF AnySpan
<1>5. j = Join(l, x)
  BY <1>1, <1>2, <1>3 DEF Join
<1> QED BY <1>1, <1>4, <1>5

(* A span that starts later joins the last group or is one of its own.      *)
LEMMA GroupIs ==
    ASSUME NEW d, NEW g, NEW m \in Nat, NEW s \in Spans, GroupsBy(g, m), m <= s.start
    PROVE  GroupsBy(Group(d, g, s), s.start)
<1>1. g \in Seq(Spans) /\ s.start \in Nat /\ s.end \in Nat /\ s.start <= s.end
  BY DEF GroupsBy, Spans, AnySpan
<1>2. CASE Group(d, g, s) = Append(g, s)
  <2>1. PICK v : v = Append(g, s)
    OBVIOUS
  <2>2. v \in Seq(Spans) /\ v[Len(v)] = s
    BY <1>1, <2>1
  <2> QED BY <1>1, <1>2, <2>1, <2>2 DEF GroupsBy, Last
<1>3. CASE g # <<>> /\ Group(d, g, s) = Append(Front(g), Join(Last(g), s))
  <2>1. PICK n \in Nat : n + 1 = Len(g)
    BY <1>1, <1>3, EmptySeq
  <2>2. PICK l \in Spans : l = Last(g)
    BY <1>1, <2>1, ElementOfSeq DEF Last
  <2>3. l.start <= m /\ l \in AnySpan /\ s \in AnySpan
    BY <1>3, <2>2 DEF GroupsBy, Spans
  <2>4. PICK j : j = Join(l, s)
    OBVIOUS
  <2>5. j \in AnySpan /\ j.start = l.start /\ j.end = s.end
    BY <2>3, <2>4, JoinIs
  <2>6. l.start \in Nat
    BY <2>3 DEF AnySpan
  <2>7. j \in Spans /\ j.start <= s.start
    BY <1>1, <2>3, <2>5, <2>6 DEF Spans
  <2>8. PICK f : f = Front(g)
    OBVIOUS
  <2>9. f \in Seq(Spans)
    BY <1>1, <2>1, <2>8 DEF Front
  <2>10. PICK v : v = Append(f, j)
    OBVIOUS
  <2>11. v \in Seq(Spans) /\ v[Len(v)] = j
    BY <2>7, <2>9, <2>10
  <2> QED BY <1>3, <2>2, <2>4, <2>7, <2>8, <2>10, <2>11 DEF GroupsBy, Last
<1> QED BY <1>2, <1>3 DEF Group

(* Grouping one more makes spans of spans.                                  *)
LEMMA GroupAny ==
    ASSUME NEW d, NEW u \in Seq(AnySpan), NEW x \in Spans
    PROVE  Group(d, u, x) \in Seq(AnySpan)
<1>1. x \in AnySpan /\ x.end \in Nat
  BY DEF Spans, AnySpan
<1>2. CASE Group(d, u, x) = Append(u, x)
  BY <1>1, <1>2
<1>3. CASE u # <<>> /\ Group(d, u, x) = Append(Front(u), Join(Last(u), x))
  <2>1. Len(u) \in Nat \ {0}
    BY <1>1, <1>3, EmptySeq
  <2>2. PICK l \in AnySpan : l = Last(u)
    BY <1>1, <2>1, ElementOfSeq DEF Last
  <2>3. PICK j \in AnySpan : j = Join(l, x)
    BY <1>1, JoinIs
  <2>4. PICK f : f = SubSeq(u, 1, Len(u) - 1)
    OBVIOUS
  <2>5. f \in Seq(AnySpan) /\ f = Front(u)
    BY <1>1, <2>1, <2>4 DEF Front
  <2>6. Append(f, j) \in Seq(AnySpan)
    BY <2>5
  <2> QED BY <1>3, <2>2, <2>3, <2>5, <2>6
<1> QED BY <1>2, <1>3 DEF Group

(* The groups are spans.                                                    *)
LEMMA GroupsAre ==
    ASSUME NEW spans \in Seq(Spans), NEW d
    PROVE  groupSmallContinuouslySimilarSpans(spans, d) \in Seq(Spans)
<1>1. PICK s : s = SortByStart(spans)
  OBVIOUS
<1>2. s \in Seq(Spans) /\ Sorted(s)
  BY <1>1, SortIs
<1>3. PICK U : U = Seq(AnySpan)
  OBVIOUS
<1>4. <<>> \in U
  BY <1>3
<1>6. \A u, x : u \in U /\ x \in Spans => Group(d, u, x) \in U
  BY <1>3, GroupAny
<1>7. \E c \in [0..Len(s) -> U] :
         Chain(c, s, <<>>, GroupSorted(s, d),
               [i \in 1..Len(s) |-> Group(d, c[i - 1], s[i])])
  BY <1>2, <1>4, <1>6, GroupSteps
<1>8. PICK c \in [0..Len(s) -> U] :
         Chain(c, s, <<>>, GroupSorted(s, d),
               [i \in 1..Len(s) |-> Group(d, c[i - 1], s[i])])
  BY <1>7
<1>9. /\ c[0] = <<>> /\ c[Len(s)] = GroupSorted(s, d)
      /\ \A i \in 1..Len(s) : c[i] = Group(d, c[i - 1], s[i])
  BY <1>8 DEF Chain
<1>10. PICK n \in Nat : n = Len(s) /\ \A i \in 1..n : s[i] \in Spans
  BY <1>2, LenProperties, ElementOfSeq
<1> DEFINE start(i) == IF i = 0 THEN 0 ELSE s[i].start
           Holds == {i \in 0..n : GroupsBy(c[i], start(i))}
<1>11. 0 \in Holds
  <2>1. GroupsBy(<<>>, 0)
    BY DEF GroupsBy
  <2>2. start(0) = 0 /\ 0 \in 0..n
    OBVIOUS
  <2> QED BY <1>9, <2>1, <2>2
<1>12. ASSUME NEW i \in 1..n, i - 1 \in Holds PROVE i \in Holds
  <2>1. \A k \in 1..n : s[k].start \in Nat
    BY <1>10 DEF Spans, AnySpan
  <2>2. start(i - 1) \in Nat /\ start(i - 1) <= s[i].start
    <3>1. CASE i = 1
      BY <2>1, <3>1
    <3>2. CASE i # 1
      <4>1. i - 1 \in 1..n /\ i - 1 <= i /\ i - 1 # 0
        BY <3>2
      <4>2. s[i - 1].start <= s[i].start
        BY <1>2, <1>10, <4>1 DEF Sorted
      <4> QED BY <2>1, <4>1, <4>2
    <3> QED BY <3>1, <3>2
  <2>3. GroupsBy(c[i - 1], start(i - 1))
    BY <1>12
  <2> HIDE DEF start
  <2>4. GroupsBy(Group(d, c[i - 1], s[i]), s[i].start)
    BY <1>10, <2>2, <2>3, GroupIs
  <2>5. c[i] = Group(d, c[i - 1], s[i]) /\ i # 0
    BY <1>9, <1>10
  <2> QED BY <2>4, <2>5 DEF start
<1>13. \A i \in 0..n : i \in Holds
  <2> HIDE DEF Holds
  <2> QED BY <1>11, <1>12, Stepwise
<1>14. n \in 0..n
  OBVIOUS
<1> QED BY <1>1, <1>9, <1>10, <1>13, <1>14 DEF GroupsBy, groupSmallContinuouslySimilarSpans

-----------------------------------------------------------------------------
(* Numbers *)

Metrics == [fcp : Nat, fid : Nat, cls : Nat, tbtStart : Nat, tbt : Nat,
            count : Nat, sum : Nat, max : Nat]
Observations == [type : Observed, name : Observed, start : Nat, duration : Nat]
Covers == [self : Nat, end : Nat]

LEMMA SumIs ==
    ASSUME NEW s \in Seq(Nat)
    PROVE  Sum(s) \in Nat
<1>1. \A u, x : u \in Nat /\ x \in Nat => u + x \in Nat
  OBVIOUS
<1>2. PICK c \in [0..Len(s) -> Nat] :
        Chain(c, s, 0, Sum(s), [i \in 1..Len(s) |-> c[i - 1] + s[i]])
  BY <1>1, SumSteps
<1>3. Len(s) \in 0..Len(s)
  BY LenProperties
<1> QED BY <1>2, <1>3 DEF Chain

LEMMA ContinueIn ==
    ASSUME NEW r \in Covers, NEW x \in Spans
    PROVE  Continue(r, x) \in Covers
<1>1. x.start \in Nat /\ x.end \in Nat /\ r.self \in Nat /\ r.end \in Nat
  BY DEF Spans, AnySpan, Covers
<1>2. CASE x.start > r.end
  <2>1. r.self + x.start - r.end \in Nat
    BY <1>1, <1>2
  <2> QED BY <1>1, <1>2, <2>1 DEF Continue, Covers
<1>3. CASE ~(x.start > r.end)
  <2>1. PICK b \in Nat : b = MaxOf(r.end, x.end)
    BY <1>1 DEF MaxOf
  <2>2. Continue(r, x) = [r EXCEPT !.end = b]
    BY <1>3, <2>1 DEF Continue, Covers
  <2> QED BY <1>1, <2>2 DEF Covers
<1> QED BY <1>2, <1>3

LEMMA CoverIs ==
    ASSUME NEW first \in Covers, NEW s \in Seq(Spans)
    PROVE  Cover(first, s) \in Covers
<1>1. \A a, x : a \in Covers /\ x \in Spans => Continue(a, x) \in Covers
  BY ContinueIn
<1>2. PICK c \in [0..Len(s) -> Covers] :
        Chain(c, s, first, Cover(first, s),
              [i \in 1..Len(s) |-> Continue(c[i - 1], s[i])])
  BY <1>1, ContinueSteps
<1>3. Len(s) \in 0..Len(s)
  BY LenProperties
<1> QED BY <1>2, <1>3 DEF Chain

LEMMA OnlyIn ==
    ASSUME NEW E, NEW s \in Seq(E), NEW T
    PROVE  Only(s, T) \in Seq(E)
<1>1. Only(s, T) \in Seq(E \cap T)
  BY OnlyType
<1> QED BY <1>1, SeqMonotonic

-----------------------------------------------------------------------------
(* Sequences, element by element *)

LEMMA PrefixesAre ==
    ASSUME NEW E, NEW s \in Seq(E)
    PROVE  /\ SubSeq(s, 1, 0) = <<>> /\ SubSeq(s, 1, Len(s)) = s
           /\ \A i \in 0..Len(s) : SubSeq(s, 1, i) \in Seq(E)
           /\ \A i \in 1..Len(s) : SubSeq(s, 1, i) = Append(SubSeq(s, 1, i - 1), s[i])
<1>1. PICK n \in Nat : n = Len(s) /\ \A i \in 1..n : s[i] \in E
  BY LenProperties, ElementOfSeq
<1>2. SubSeq(s, 1, 0) = <<>> /\ SubSeq(s, 1, n) = s
  BY <1>1
<1>3. ASSUME NEW i \in 0..n PROVE SubSeq(s, 1, i) \in Seq(E)
  BY <1>1
<1>4. ASSUME NEW i \in 1..n PROVE SubSeq(s, 1, i) = Append(SubSeq(s, 1, i - 1), s[i])
  <2>1. PICK p : p = SubSeq(s, 1, i - 1)
    OBVIOUS
  <2>2. p \in Seq(E) /\ Len(p) = i - 1 /\ \A j \in 1..(i - 1) : p[j] = s[j]
    BY <1>1, <2>1
  <2>3. PICK q : q = Append(p, s[i])
    OBVIOUS
  <2>4. /\ q \in Seq(E) /\ Len(q) = i /\ q[i] = s[i]
        /\ \A j \in 1..(i - 1) : q[j] = s[j]
    BY <1>1, <2>2, <2>3
  <2>5. PICK r : r = SubSeq(s, 1, i)
    OBVIOUS
  <2>6. r \in Seq(E) /\ Len(r) = i /\ \A j \in 1..i : r[j] = s[j]
    BY <1>1, <2>5
  <2>7. \A j \in 1..i : r[j] = q[j]
    BY <2>4, <2>6
  <2> QED BY <2>1, <2>3, <2>4, <2>5, <2>6, <2>7, SeqEqual
<1> QED BY <1>1, <1>2, <1>3, <1>4

LEMMA OnlyAppend ==
    ASSUME NEW E, NEW s \in Seq(E), NEW x \in E, NEW T
    PROVE  Only(Append(s, x), T) = KeepIf(T, Only(s, T), x)
<1>1. PICK n \in Nat : n = Len(s) /\ \A i \in 1..n : s[i] \in E
  BY LenProperties, ElementOfSeq
<1>2. PICK r : r = Append(s, x)
  OBVIOUS
<1>3. /\ r \in Seq(E) /\ Len(r) = n + 1 /\ r[n + 1] = x
      /\ \A i \in 1..n : r[i] = s[i]
  BY <1>1, <1>2
<1>4. PICK c \in [0..Len(s) -> Seq(E \cap T)] :
        Chain(c, s, <<>>, Only(s, T), [i \in 1..Len(s) |-> KeepIf(T, c[i - 1], s[i])])
  BY OnlyChain
<1>5. PICK d \in [0..Len(r) -> Seq(E \cap T)] :
        Chain(d, r, <<>>, Only(r, T), [i \in 1..Len(r) |-> KeepIf(T, d[i - 1], r[i])])
  BY <1>3, OnlyChain
<1>6. c[0] = <<>> /\ c[n] = Only(s, T) /\ \A i \in 1..n : c[i] = KeepIf(T, c[i - 1], s[i])
  BY <1>1, <1>4 DEF Chain
<1>7. /\ d[0] = <<>> /\ d[n + 1] = Only(r, T)
      /\ \A i \in 1..(n + 1) : d[i] = KeepIf(T, d[i - 1], r[i])
  BY <1>3, <1>5 DEF Chain
<1> DEFINE Holds == {i \in 0..n : c[i] = d[i]}
<1>8. 0 \in Holds
  BY <1>6, <1>7
<1>9. ASSUME NEW i \in 1..n, i - 1 \in Holds PROVE i \in Holds
  <2>1. i \in 1..(n + 1) /\ i \in 0..n
    OBVIOUS
  <2>2. c[i - 1] = d[i - 1]
    BY <1>9
  <2>3. c[i] = KeepIf(T, c[i - 1], s[i])
    BY <1>6
  <2>4. d[i] = KeepIf(T, d[i - 1], s[i])
    BY <1>3, <1>7, <2>1
  <2> QED BY <2>1, <2>2, <2>3, <2>4
<1>10. \A i \in 0..n : i \in Holds
  <2> HIDE DEF Holds
  <2> QED BY <1>8, <1>9, Stepwise
<1>11. n \in 0..n /\ n + 1 \in 1..(n + 1) /\ (n + 1) - 1 = n
  OBVIOUS
<1>12. d[n + 1] = KeepIf(T, d[n], r[n + 1])
  BY <1>7, <1>11
<1> QED BY <1>2, <1>3, <1>6, <1>7, <1>10, <1>11, <1>12

LEMMA SumAppend ==
    ASSUME NEW s \in Seq(Nat), NEW x \in Nat
    PROVE  Sum(Append(s, x)) = Sum(s) + x
<1>0. \A u, y : u \in Nat /\ y \in Nat => u + y \in Nat
  OBVIOUS
<1>1. PICK n \in Nat : n = Len(s) /\ \A i \in 1..n : s[i] \in Nat
  BY LenProperties, ElementOfSeq
<1>2. PICK r : r = Append(s, x)
  OBVIOUS
<1>3. /\ r \in Seq(Nat) /\ Len(r) = n + 1 /\ r[n + 1] = x
      /\ \A i \in 1..n : r[i] = s[i]
  BY <1>1, <1>2
<1>4. PICK c \in [0..Len(s) -> Nat] :
        Chain(c, s, 0, Sum(s), [i \in 1..Len(s) |-> c[i - 1] + s[i]])
  BY <1>0, SumSteps
<1>5. PICK d \in [0..Len(r) -> Nat] :
        Chain(d, r, 0, Sum(r), [i \in 1..Len(r) |-> d[i - 1] + r[i]])
  BY <1>0, <1>3, SumSteps
<1>6. c[0] = 0 /\ c[n] = Sum(s) /\ \A i \in 1..n : c[i] = c[i - 1] + s[i]
  BY <1>1, <1>4 DEF Chain
<1>7. d[0] = 0 /\ d[n + 1] = Sum(r) /\ \A i \in 1..(n + 1) : d[i] = d[i - 1] + r[i]
  BY <1>3, <1>5 DEF Chain
<1> DEFINE Holds == {i \in 0..n : c[i] = d[i]}
<1>8. 0 \in Holds
  BY <1>6, <1>7
<1>9. ASSUME NEW i \in 1..n, i - 1 \in Holds PROVE i \in Holds
  <2>1. i \in 1..(n + 1) /\ i \in 0..n
    OBVIOUS
  <2>2. c[i - 1] = d[i - 1]
    BY <1>9
  <2>3. c[i] = c[i - 1] + s[i]
    BY <1>6
  <2>4. d[i] = d[i - 1] + s[i]
    BY <1>3, <1>7, <2>1
  <2> QED BY <2>1, <2>2, <2>3, <2>4
<1>10. \A i \in 0..n : i \in Holds
  <2> HIDE DEF Holds
  <2> QED BY <1>8, <1>9, Stepwise
<1>11. n \in 0..n /\ n + 1 \in 1..(n + 1) /\ (n + 1) - 1 = n
  OBVIOUS
<1>12. d[n + 1] = d[n] + r[n + 1]
  BY <1>7, <1>11
<1> QED BY <1>2, <1>3, <1>6, <1>7, <1>10, <1>11, <1>12

(* What the elements of s take in all, and how many spans they stand for    *)
Took(s) == Sum(Map(Duration, s))
Stand(s) == Sum(Map(LAMBDA x : x.count, s))

LEMMA EmptyIs ==
    /\ \A T : Only(<<>>, T) = <<>>
    /\ Sum(<<>>) = 0 /\ Took(<<>>) = 0 /\ Stand(<<>>) = 0
<1>1. ASSUME NEW T PROVE Only(<<>>, T) = <<>>
  <2>1. <<>> \in Seq({}) /\ {} \cap T = {}
    OBVIOUS
  <2>2. Only(<<>>, T) \in Seq({})
    BY <2>1, OnlyType
  <2> QED BY <2>2
<1>2. Sum(<<>>) = 0
  <2>1. \A u, y : u \in Nat /\ y \in Nat => u + y \in Nat
    OBVIOUS
  <2>2. <<>> \in Seq(Nat) /\ Len(<<>>) = 0
    OBVIOUS
  <2>3. PICK s \in Seq(Nat) : s = <<>>
    BY <2>2
  <2>4. PICK c \in [0..Len(s) -> Nat] :
          Chain(c, s, 0, Sum(s), [i \in 1..Len(s) |-> c[i - 1] + s[i]])
    BY <2>1, SumSteps
  <2> QED BY <2>2, <2>3, <2>4 DEF Chain
<1>3. Map(Duration, <<>>) = <<>> /\ Map(LAMBDA x : x.count, <<>>) = <<>>
  BY DEF Map
<1> QED BY <1>1, <1>2, <1>3 DEF Took, Stand

LEMMA DurationIs ==
    ASSUME NEW x \in Spans
    PROVE  Duration(x) \in Nat /\ x.count \in Nat
BY DEF Duration, Spans, AnySpan

LEMMA MapAppend ==
    ASSUME NEW s \in Seq(Spans), NEW x \in Spans
    PROVE  /\ Map(Duration, s) \in Seq(Nat)
           /\ Map(Duration, Append(s, x)) = Append(Map(Duration, s), Duration(x))
           /\ Map(LAMBDA y : y.count, s) \in Seq(Nat)
           /\ Map(LAMBDA y : y.count, Append(s, x)) =
                Append(Map(LAMBDA y : y.count, s), x.count)
<1>1. PICK n \in Nat : n = Len(s) /\ DOMAIN s = 1..n /\ \A i \in 1..n : s[i] \in Spans
  BY LenProperties, ElementOfSeq
<1>2. PICK r : r = Append(s, x)
  OBVIOUS
<1>3. /\ r \in Seq(Spans) /\ Len(r) = n + 1 /\ DOMAIN r = 1..(n + 1) /\ r[n + 1] = x
      /\ \A i \in 1..n : r[i] = s[i]
  BY <1>1, <1>2
<1>4. \A i \in 1..(n + 1) : i = n + 1 \/ (i \in 1..n /\ i # n + 1)
  OBVIOUS
<1>5. ASSUME NEW f, f \in [1..n -> Nat], NEW g, g \in [1..(n + 1) -> Nat],
             \A i \in 1..n : g[i] = f[i]
      PROVE  f \in Seq(Nat) /\ g = Append(f, g[n + 1])
  <2>1. f \in Seq(Nat) /\ Len(f) = n /\ g \in Seq(Nat) /\ Len(g) = n + 1
    BY <1>5, FunctionIsSeq
  <2>2. PICK y \in Nat : y = g[n + 1]
    BY <1>5
  <2>3. PICK h : h = Append(f, y)
    OBVIOUS
  <2>4. /\ h \in Seq(Nat) /\ Len(h) = n + 1 /\ h[n + 1] = y
        /\ \A i \in 1..n : h[i] = f[i]
    BY <2>1, <2>3
  <2>5. \A i \in 1..(n + 1) : h[i] = g[i]
    BY <1>4, <1>5, <2>2, <2>4
  <2> QED BY <2>1, <2>2, <2>3, <2>4, <2>5, SeqEqual
<1>6. PICK f : f = [i \in 1..n |-> Duration(s[i])]
  OBVIOUS
<1>7. PICK g : g = [i \in 1..(n + 1) |-> Duration(r[i])]
  OBVIOUS
<1>8. f \in Seq(Nat) /\ g = Append(f, Duration(x))
  <2>1. \A i \in 1..n : Duration(s[i]) \in Nat
    BY <1>1, DurationIs
  <2>2. \A i \in 1..(n + 1) : Duration(r[i]) \in Nat
    BY <1>3, <1>4, <2>1, DurationIs
  <2>3. f \in [1..n -> Nat] /\ g \in [1..(n + 1) -> Nat]
    BY <1>6, <1>7, <2>1, <2>2
  <2>4. /\ \A i \in 1..n : g[i] = f[i]
        /\ g[n + 1] = Duration(x)
    BY <1>3, <1>4, <1>6, <1>7
  <2> QED BY <1>5, <2>3, <2>4
<1>9. PICK p : p = [i \in 1..n |-> s[i].count]
  OBVIOUS
<1>10. PICK q : q = [i \in 1..(n + 1) |-> r[i].count]
  OBVIOUS
<1>11. p \in Seq(Nat) /\ q = Append(p, x.count)
  <2>1. \A i \in 1..n : s[i].count \in Nat
    BY <1>1, DurationIs
  <2>2. \A i \in 1..(n + 1) : r[i].count \in Nat
    BY <1>3, <1>4, <2>1, DurationIs
  <2>3. p \in [1..n -> Nat] /\ q \in [1..(n + 1) -> Nat]
    BY <1>9, <1>10, <2>1, <2>2
  <2>4. /\ \A i \in 1..n : q[i] = p[i]
        /\ q[n + 1] = x.count
    BY <1>3, <1>4, <1>9, <1>10
  <2> QED BY <1>5, <2>3, <2>4
<1>12. Map(Duration, s) = f /\ Map(Duration, r) = g
  BY <1>1, <1>3, <1>6, <1>7 DEF Map
<1>13. Map(LAMBDA y : y.count, s) = p /\ Map(LAMBDA y : y.count, r) = q
  BY <1>1, <1>3, <1>9, <1>10 DEF Map
<1> QED BY <1>2, <1>8, <1>11, <1>12, <1>13

(* One more takes as much more.                                             *)
LEMMA TookAppend ==
    ASSUME NEW s \in Seq(Spans), NEW x \in Spans
    PROVE  /\ Took(Append(s, x)) = Took(s) + Duration(x) /\ Took(s) \in Nat
           /\ Stand(Append(s, x)) = Stand(s) + x.count /\ Stand(s) \in Nat
<1>1. PICK d \in Seq(Nat) : /\ d = Map(Duration, s)
                            /\ Map(Duration, Append(s, x)) = Append(d, Duration(x))
  BY MapAppend
<1>2. PICK c \in Seq(Nat) : /\ c = Map(LAMBDA y : y.count, s)
                            /\ Map(LAMBDA y : y.count, Append(s, x)) = Append(c, x.count)
  BY MapAppend
<1>3. Sum(Append(d, Duration(x))) = Sum(d) + Duration(x) /\ Sum(d) \in Nat
  BY DurationIs, SumAppend, SumIs
<1>4. Sum(Append(c, x.count)) = Sum(c) + x.count /\ Sum(c) \in Nat
  BY DurationIs, SumAppend, SumIs
<1> QED BY <1>1, <1>2, <1>3, <1>4 DEF Took, Stand

-----------------------------------------------------------------------------
(* The spans that the agent makes *)

(* Those that are of no request; each stands for itself *)
UncalledSpans == {s \in Spans : s.call = 0 /\ s.count = 1}

(* The spans of long tasks; that of the total blocking time is none         *)
TaskSpans == {x \in Spans : x.kind = "longtask" /\ x.name # "tbt"}

(* What the timeline and the vitals add *)
TimelineSpans == {s \in UncalledSpans : s \notin TaskSpans}

LEMMA SpanIs ==
    ASSUME NEW kind \in Kinds, NEW name \in Names, NEW a \in Nat, NEW b \in Nat,
           a <= b, NEW c \in Nat
    PROVE  LET s == Span(kind, name, a, b, c)
           IN  /\ s \in Spans /\ s.call = c /\ s.count = 1
               /\ s.kind = kind /\ s.name = name /\ s.start = a /\ s.end = b
               /\ c = 0 => s \in UncalledSpans
               /\ c = 0 /\ (kind # "longtask" \/ name = "tbt") => s \in TimelineSpans
<1>1. PICK s : s = Span(kind, name, a, b, c)
  OBVIOUS
<1>2. /\ s \in AnySpan /\ s.kind = kind /\ s.name = name /\ s.start = a /\ s.end = b
      /\ s.call = c /\ s.count = 1
  BY <1>1 DEF Span, AnySpan
<1>3. s \in Spans
  BY <1>2 DEF Spans
<1> QED BY <1>1, <1>2, <1>3 DEF UncalledSpans, TimelineSpans, TaskSpans

-----------------------------------------------------------------------------
(* Induction over a sequence *)

LEMMA OneByOne ==
    ASSUME NEW E, NEW G, <<>> \in G,
           \A s, x : s \in Seq(E) /\ s \in G /\ x \in E => Append(s, x) \in G
    PROVE  \A s \in Seq(E) : s \in G
<1> SUFFICES ASSUME NEW s \in Seq(E) PROVE s \in G
  OBVIOUS
<1>1. PICK n \in Nat : n = Len(s) /\ \A i \in 1..n : s[i] \in E
  BY LenProperties, ElementOfSeq
<1>2. PICK p : p = [i \in 0..n |-> SubSeq(s, 1, i)]
  OBVIOUS
<1>3. /\ p[0] = <<>> /\ p[n] = s /\ \A i \in 0..n : p[i] \in Seq(E)
      /\ \A i \in 1..n : p[i] = Append(p[i - 1], s[i])
  <2>1. \A i \in 1..n : i - 1 \in 0..n /\ i \in 0..n
    OBVIOUS
  <2>2. 0 \in 0..n /\ n \in 0..n
    OBVIOUS
  <2> QED BY <1>1, <1>2, <2>1, <2>2, PrefixesAre
<1> DEFINE Holds == {i \in 0..n : p[i] \in G}
<1>4. 0 \in Holds
  BY <1>3
<1>5. ASSUME NEW i \in 1..n, i - 1 \in Holds PROVE i \in Holds
  <2>1. i - 1 \in 0..n /\ i \in 0..n
    OBVIOUS
  <2>2. p[i - 1] \in Seq(E) /\ p[i - 1] \in G /\ s[i] \in E
    BY <1>1, <1>3, <1>5, <2>1
  <2>3. Append(p[i - 1], s[i]) \in G
    BY <2>2
  <2> QED BY <1>3, <2>1, <2>3
<1>6. \A i \in 0..n : i \in Holds
  <2> HIDE DEF Holds
  <2> QED BY <1>4, <1>5, Stepwise
<1>7. n \in 0..n
  OBVIOUS
<1> QED BY <1>3, <1>6, <1>7

(* From base to last, g takes each step. *)
Runs(c, s, base, last, g) ==
    /\ c[0] = base /\ c[Len(s)] = last
    /\ \A i \in 1..Len(s) : c[i] = g[<<c[i - 1], s[i]>>]

(* Two chains by the same steps agree as long as their sequences do.        *)
LEMMA RunsAgree ==
    ASSUME NEW E, NEW s \in Seq(E), NEW x \in E, NEW c, NEW d, NEW g, NEW base,
           NEW u, NEW v, Runs(c, s, base, u, g), Runs(d, Append(s, x), base, v, g)
    PROVE  v = g[<<u, x>>]
<1>0. PICK r : r = Append(s, x)
  OBVIOUS
<1>1. PICK n \in Nat : n = Len(s)
  BY LenProperties
<1>2. /\ r \in Seq(E) /\ Len(r) = n + 1 /\ r[n + 1] = x
      /\ \A i \in 1..n : r[i] = s[i]
  BY <1>0, <1>1
<1>3. c[0] = base /\ c[n] = u /\ \A i \in 1..n : c[i] = g[<<c[i - 1], s[i]>>]
  BY <1>1 DEF Runs
<1>4. d[0] = base /\ d[n + 1] = v /\ \A i \in 1..(n + 1) : d[i] = g[<<d[i - 1], r[i]>>]
  BY <1>0, <1>2 DEF Runs
<1> DEFINE Holds == {i \in 0..n : c[i] = d[i]}
<1>5. 0 \in Holds
  BY <1>3, <1>4
<1>6. ASSUME NEW i \in 1..n, i - 1 \in Holds PROVE i \in Holds
  <2>1. i \in 1..(n + 1) /\ i \in 0..n
    OBVIOUS
  <2> QED BY <1>2, <1>3, <1>4, <1>6, <2>1
<1>7. \A i \in 0..n : i \in Holds
  <2> HIDE DEF Holds
  <2> QED BY <1>5, <1>6, Stepwise
<1>8. n \in 0..n /\ n + 1 \in 1..(n + 1) /\ (n + 1) - 1 = n
  OBVIOUS
<1> QED BY <1>1, <1>2, <1>3, <1>4, <1>7, <1>8

(* What the folds do with one more element *)
LEMMA InsertAppend ==
    ASSUME NEW E, NEW s \in Seq(E), NEW x \in E, NEW U, <<>> \in U,
           \A u, y : u \in U /\ y \in E => Insert(u, y) \in U
    PROVE  /\ SortByStart(Append(s, x)) = Insert(SortByStart(s), x)
           /\ SortByStart(s) \in U
           /\ s = <<>> => SortByStart(s) = <<>>
<1>1. PICK n \in Nat : n = Len(s) /\ \A i \in 1..n : s[i] \in E
  BY LenProperties, ElementOfSeq
<1>2. PICK r : r = Append(s, x)
  OBVIOUS
<1>3. r \in Seq(E) /\ Len(r) = n + 1 /\ \A i \in 1..(n + 1) : r[i] \in E
  BY <1>1, <1>2
<1>4. PICK c \in [0..Len(s) -> U] :
        Chain(c, s, <<>>, SortByStart(s), [i \in 1..Len(s) |-> Insert(c[i - 1], s[i])])
  BY InsertSteps
<1>5. PICK d \in [0..Len(r) -> U] :
        Chain(d, r, <<>>, SortByStart(r), [i \in 1..Len(r) |-> Insert(d[i - 1], r[i])])
  BY <1>3, InsertSteps
<1>6. PICK u : u = SortByStart(s)
  OBVIOUS
<1>7. PICK v : v = SortByStart(r)
  OBVIOUS
<1>8. PICK g : g = [p \in U \X E |-> Insert(p[1], p[2])]
  OBVIOUS
<1>9. \A w \in U, y \in E : g[<<w, y>>] = Insert(w, y)
  BY <1>8
<1>10. Runs(c, s, <<>>, u, g)
  <2>1. \A i \in 1..n : c[i - 1] \in U /\ s[i] \in E
    BY <1>1, <1>4
  <2>2. /\ c[0] = <<>> /\ c[n] = u
        /\ \A i \in 1..n : c[i] = Insert(c[i - 1], s[i])
    BY <1>1, <1>4, <1>6 DEF Chain
  <2> QED BY <1>1, <1>9, <2>1, <2>2 DEF Runs
<1>11. Runs(d, r, <<>>, v, g)
  <2>1. \A i \in 1..(n + 1) : d[i - 1] \in U /\ r[i] \in E
    BY <1>3, <1>5
  <2>2. /\ d[0] = <<>> /\ d[n + 1] = v
        /\ \A i \in 1..(n + 1) : d[i] = Insert(d[i - 1], r[i])
    BY <1>3, <1>5, <1>7 DEF Chain
  <2> QED BY <1>3, <1>9, <2>1, <2>2 DEF Runs
<1>12. Runs(d, Append(s, x), <<>>, v, g)
  BY <1>2, <1>11
<1>13. v = g[<<u, x>>]
  BY <1>10, <1>12, RunsAgree
<1>14. u \in U /\ (s = <<>> => u = <<>>)
  <2>1. n \in 0..n /\ (s = <<>> => n = 0)
    BY <1>1
  <2> QED BY <1>1, <1>4, <1>6, <2>1 DEF Chain
<1> QED BY <1>2, <1>6, <1>7, <1>9, <1>13, <1>14

LEMMA LongTaskAppend ==
    ASSUME NEW base, NEW E, NEW s \in Seq(E), NEW x \in E, NEW U, base \in U,
           \A u, y : u \in U /\ y \in E => AddLongTask(u, y) \in U
    PROVE  /\ AggregateLongTasks(base, Append(s, x)) = AddLongTask(AggregateLongTasks(base, s), x)
           /\ AggregateLongTasks(base, s) \in U
           /\ s = <<>> => AggregateLongTasks(base, s) = base
<1>1. PICK n \in Nat : n = Len(s) /\ \A i \in 1..n : s[i] \in E
  BY LenProperties, ElementOfSeq
<1>2. PICK r : r = Append(s, x)
  OBVIOUS
<1>3. r \in Seq(E) /\ Len(r) = n + 1 /\ \A i \in 1..(n + 1) : r[i] \in E
  BY <1>1, <1>2
<1>4. PICK c \in [0..Len(s) -> U] :
        Chain(c, s, base, AggregateLongTasks(base, s), [i \in 1..Len(s) |-> AddLongTask(c[i - 1], s[i])])
  BY LongTaskSteps
<1>5. PICK d \in [0..Len(r) -> U] :
        Chain(d, r, base, AggregateLongTasks(base, r), [i \in 1..Len(r) |-> AddLongTask(d[i - 1], r[i])])
  BY <1>3, LongTaskSteps
<1>6. PICK u : u = AggregateLongTasks(base, s)
  OBVIOUS
<1>7. PICK v : v = AggregateLongTasks(base, r)
  OBVIOUS
<1>8. PICK g : g = [p \in U \X E |-> AddLongTask(p[1], p[2])]
  OBVIOUS
<1>9. \A w \in U, y \in E : g[<<w, y>>] = AddLongTask(w, y)
  BY <1>8
<1>10. Runs(c, s, base, u, g)
  <2>1. \A i \in 1..n : c[i - 1] \in U /\ s[i] \in E
    BY <1>1, <1>4
  <2>2. /\ c[0] = base /\ c[n] = u
        /\ \A i \in 1..n : c[i] = AddLongTask(c[i - 1], s[i])
    BY <1>1, <1>4, <1>6 DEF Chain
  <2> QED BY <1>1, <1>9, <2>1, <2>2 DEF Runs
<1>11. Runs(d, r, base, v, g)
  <2>1. \A i \in 1..(n + 1) : d[i - 1] \in U /\ r[i] \in E
    BY <1>3, <1>5
  <2>2. /\ d[0] = base /\ d[n + 1] = v
        /\ \A i \in 1..(n + 1) : d[i] = AddLongTask(d[i - 1], r[i])
    BY <1>3, <1>5, <1>7 DEF Chain
  <2> QED BY <1>3, <1>9, <2>1, <2>2 DEF Runs
<1>12. Runs(d, Append(s, x), base, v, g)
  BY <1>2, <1>11
<1>13. v = g[<<u, x>>]
  BY <1>10, <1>12, RunsAgree
<1>14. u \in U /\ (s = <<>> => u = base)
  <2>1. n \in 0..n /\ (s = <<>> => n = 0)
    BY <1>1
  <2> QED BY <1>1, <1>4, <1>6, <2>1 DEF Chain
<1> QED BY <1>2, <1>6, <1>7, <1>9, <1>13, <1>14

LEMMA BlockingAppend ==
    ASSUME NEW base, NEW E, NEW s \in Seq(E), NEW x \in E, NEW U, base \in U,
           \A u, y : u \in U /\ y \in E => AddBlocking(u, y) \in U
    PROVE  /\ Blocking(base, Append(s, x)) = AddBlocking(Blocking(base, s), x)
           /\ Blocking(base, s) \in U
           /\ s = <<>> => Blocking(base, s) = base
<1>1. PICK n \in Nat : n = Len(s) /\ \A i \in 1..n : s[i] \in E
  BY LenProperties, ElementOfSeq
<1>2. PICK r : r = Append(s, x)
  OBVIOUS
<1>3. r \in Seq(E) /\ Len(r) = n + 1 /\ \A i \in 1..(n + 1) : r[i] \in E
  BY <1>1, <1>2
<1>4. PICK c \in [0..Len(s) -> U] :
        Chain(c, s, base, Blocking(base, s), [i \in 1..Len(s) |-> AddBlocking(c[i - 1], s[i])])
  BY BlockingSteps
<1>5. PICK d \in [0..Len(r) -> U] :
        Chain(d, r, base, Blocking(base, r), [i \in 1..Len(r) |-> AddBlocking(d[i - 1], r[i])])
  BY <1>3, BlockingSteps
<1>6. PICK u : u = Blocking(base, s)
  OBVIOUS
<1>7. PICK v : v = Blocking(base, r)
  OBVIOUS
<1>8. PICK g : g = [p \in U \X E |-> AddBlocking(p[1], p[2])]
  OBVIOUS
<1>9. \A w \in U, y \in E : g[<<w, y>>] = AddBlocking(w, y)
  BY <1>8
<1>10. Runs(c, s, base, u, g)
  <2>1. \A i \in 1..n : c[i - 1] \in U /\ s[i] \in E
    BY <1>1, <1>4
  <2>2. /\ c[0] = base /\ c[n] = u
        /\ \A i \in 1..n : c[i] = AddBlocking(c[i - 1], s[i])
    BY <1>1, <1>4, <1>6 DEF Chain
  <2> QED BY <1>1, <1>9, <2>1, <2>2 DEF Runs
<1>11. Runs(d, r, base, v, g)
  <2>1. \A i \in 1..(n + 1) : d[i - 1] \in U /\ r[i] \in E
    BY <1>3, <1>5
  <2>2. /\ d[0] = base /\ d[n + 1] = v
        /\ \A i \in 1..(n + 1) : d[i] = AddBlocking(d[i - 1], r[i])
    BY <1>3, <1>5, <1>7 DEF Chain
  <2> QED BY <1>3, <1>9, <2>1, <2>2 DEF Runs
<1>12. Runs(d, Append(s, x), base, v, g)
  BY <1>2, <1>11
<1>13. v = g[<<u, x>>]
  BY <1>10, <1>12, RunsAgree
<1>14. u \in U /\ (s = <<>> => u = base)
  <2>1. n \in 0..n /\ (s = <<>> => n = 0)
    BY <1>1
  <2> QED BY <1>1, <1>4, <1>6, <2>1 DEF Chain
<1> QED BY <1>2, <1>6, <1>7, <1>9, <1>13, <1>14

LEMMA ContinueAppend ==
    ASSUME NEW base, NEW E, NEW s \in Seq(E), NEW x \in E, NEW U, base \in U,
           \A u, y : u \in U /\ y \in E => Continue(u, y) \in U
    PROVE  /\ Cover(base, Append(s, x)) = Continue(Cover(base, s), x)
           /\ Cover(base, s) \in U
           /\ s = <<>> => Cover(base, s) = base
<1>1. PICK n \in Nat : n = Len(s) /\ \A i \in 1..n : s[i] \in E
  BY LenProperties, ElementOfSeq
<1>2. PICK r : r = Append(s, x)
  OBVIOUS
<1>3. r \in Seq(E) /\ Len(r) = n + 1 /\ \A i \in 1..(n + 1) : r[i] \in E
  BY <1>1, <1>2
<1>4. PICK c \in [0..Len(s) -> U] :
        Chain(c, s, base, Cover(base, s), [i \in 1..Len(s) |-> Continue(c[i - 1], s[i])])
  BY ContinueSteps
<1>5. PICK d \in [0..Len(r) -> U] :
        Chain(d, r, base, Cover(base, r), [i \in 1..Len(r) |-> Continue(d[i - 1], r[i])])
  BY <1>3, ContinueSteps
<1>6. PICK u : u = Cover(base, s)
  OBVIOUS
<1>7. PICK v : v = Cover(base, r)
  OBVIOUS
<1>8. PICK g : g = [p \in U \X E |-> Continue(p[1], p[2])]
  OBVIOUS
<1>9. \A w \in U, y \in E : g[<<w, y>>] = Continue(w, y)
  BY <1>8
<1>10. Runs(c, s, base, u, g)
  <2>1. \A i \in 1..n : c[i - 1] \in U /\ s[i] \in E
    BY <1>1, <1>4
  <2>2. /\ c[0] = base /\ c[n] = u
        /\ \A i \in 1..n : c[i] = Continue(c[i - 1], s[i])
    BY <1>1, <1>4, <1>6 DEF Chain
  <2> QED BY <1>1, <1>9, <2>1, <2>2 DEF Runs
<1>11. Runs(d, r, base, v, g)
  <2>1. \A i \in 1..(n + 1) : d[i - 1] \in U /\ r[i] \in E
    BY <1>3, <1>5
  <2>2. /\ d[0] = base /\ d[n + 1] = v
        /\ \A i \in 1..(n + 1) : d[i] = Continue(d[i - 1], r[i])
    BY <1>3, <1>5, <1>7 DEF Chain
  <2> QED BY <1>3, <1>9, <2>1, <2>2 DEF Runs
<1>12. Runs(d, Append(s, x), base, v, g)
  BY <1>2, <1>11
<1>13. v = g[<<u, x>>]
  BY <1>10, <1>12, RunsAgree
<1>14. u \in U /\ (s = <<>> => u = base)
  <2>1. n \in 0..n /\ (s = <<>> => n = 0)
    BY <1>1
  <2> QED BY <1>1, <1>4, <1>6, <2>1 DEF Chain
<1> QED BY <1>2, <1>6, <1>7, <1>9, <1>13, <1>14

LEMMA GroupAppend ==
    ASSUME NEW m, NEW E, NEW s \in Seq(E), NEW x \in E, NEW U, <<>> \in U,
           \A u, y : u \in U /\ y \in E => Group(m, u, y) \in U
    PROVE  /\ GroupSorted(Append(s, x), m) = Group(m, GroupSorted(s, m), x)
           /\ GroupSorted(s, m) \in U
           /\ s = <<>> => GroupSorted(s, m) = <<>>
<1>1. PICK n \in Nat : n = Len(s) /\ \A i \in 1..n : s[i] \in E
  BY LenProperties, ElementOfSeq
<1>2. PICK r : r = Append(s, x)
  OBVIOUS
<1>3. r \in Seq(E) /\ Len(r) = n + 1 /\ \A i \in 1..(n + 1) : r[i] \in E
  BY <1>1, <1>2
<1>4. PICK c \in [0..Len(s) -> U] :
        Chain(c, s, <<>>, GroupSorted(s, m), [i \in 1..Len(s) |-> Group(m, c[i - 1], s[i])])
  BY GroupSteps
<1>5. PICK d \in [0..Len(r) -> U] :
        Chain(d, r, <<>>, GroupSorted(r, m), [i \in 1..Len(r) |-> Group(m, d[i - 1], r[i])])
  BY <1>3, GroupSteps
<1>6. PICK u : u = GroupSorted(s, m)
  OBVIOUS
<1>7. PICK v : v = GroupSorted(r, m)
  OBVIOUS
<1>8. PICK g : g = [p \in U \X E |-> Group(m, p[1], p[2])]
  OBVIOUS
<1>9. \A w \in U, y \in E : g[<<w, y>>] = Group(m, w, y)
  BY <1>8
<1>10. Runs(c, s, <<>>, u, g)
  <2>1. \A i \in 1..n : c[i - 1] \in U /\ s[i] \in E
    BY <1>1, <1>4
  <2>2. /\ c[0] = <<>> /\ c[n] = u
        /\ \A i \in 1..n : c[i] = Group(m, c[i - 1], s[i])
    BY <1>1, <1>4, <1>6 DEF Chain
  <2> QED BY <1>1, <1>9, <2>1, <2>2 DEF Runs
<1>11. Runs(d, r, <<>>, v, g)
  <2>1. \A i \in 1..(n + 1) : d[i - 1] \in U /\ r[i] \in E
    BY <1>3, <1>5
  <2>2. /\ d[0] = <<>> /\ d[n + 1] = v
        /\ \A i \in 1..(n + 1) : d[i] = Group(m, d[i - 1], r[i])
    BY <1>3, <1>5, <1>7 DEF Chain
  <2> QED BY <1>3, <1>9, <2>1, <2>2 DEF Runs
<1>12. Runs(d, Append(s, x), <<>>, v, g)
  BY <1>2, <1>11
<1>13. v = g[<<u, x>>]
  BY <1>10, <1>12, RunsAgree
<1>14. u \in U /\ (s = <<>> => u = <<>>)
  <2>1. n \in 0..n /\ (s = <<>> => n = 0)
    BY <1>1
  <2> QED BY <1>1, <1>4, <1>6, <2>1 DEF Chain
<1> QED BY <1>2, <1>6, <1>7, <1>9, <1>13, <1>14

LEMMA TookIs ==
    ASSUME NEW s \in Seq(Spans)
    PROVE  Took(s) \in Nat /\ Stand(s) \in Nat
<1>1. "app" \in Kinds /\ "app" \in Names /\ 0 \in Nat
  BY DEF Kinds, Names
<1>2. Span("app", "app", 0, 0, 0) \in Spans
  BY <1>1, SpanIs
<1> QED BY <1>2, TookAppend

LEMMA ConcatAppend ==
    ASSUME NEW E, NEW a \in Seq(E), NEW b \in Seq(E), NEW x \in E
    PROVE  a \o Append(b, x) = Append(a \o b, x) /\ a \o b \in Seq(E)
<1>1. PICK u : u = <<x>>
  OBVIOUS
<1>2. u \in Seq(E)
  BY <1>1
<1>3. PICK v : v = a \o b
  OBVIOUS
<1>4. v \in Seq(E)
  BY <1>3, ConcatProperties
<1>5. Append(b, x) = b \o u /\ Append(v, x) = v \o u
  BY <1>1, <1>4
<1>6. v \o u = a \o (b \o u)
  BY <1>2, <1>3, ConcatAssociative
<1> QED BY <1>3, <1>4, <1>5, <1>6

LEMMA OnlyConcat ==
    ASSUME NEW E, NEW a \in Seq(E), NEW b \in Seq(E), NEW T
    PROVE  Only(a \o b, T) = Only(a, T) \o Only(b, T)
<1>1. PICK o \in Seq(E) : o = Only(a, T)
  BY OnlyIn
<1>2. PICK G : G = {t \in Seq(E) : Only(a \o t, T) = o \o Only(t, T)}
  OBVIOUS
<1>3. <<>> \in G
  <2>1. a \o <<>> = a /\ o \o <<>> = o
    OBVIOUS
  <2>2. PICK e : e = <<>>
    OBVIOUS
  <2>3. e \in Seq(E) /\ a \o e = a /\ o \o e = o /\ Only(e, T) = e
    BY <2>1, <2>2, EmptyIs
  <2>4. e \in G
    BY <1>1, <1>2, <2>3
  <2> QED BY <2>2, <2>4
<1>4. ASSUME NEW s \in Seq(E), s \in G, NEW x \in E PROVE Append(s, x) \in G
  <2>1. PICK r \in Seq(E) : r = a \o s
    BY ConcatAppend
  <2>2. PICK v \in Seq(E) : v = Only(s, T)
    BY OnlyIn
  <2>3. Only(r, T) = o \o v
    BY <1>2, <1>4, <2>1, <2>2
  <2>4. a \o Append(s, x) = Append(r, x)
    BY <2>1, ConcatAppend
  <2>5. Only(Append(r, x), T) = KeepIf(T, o \o v, x)
    BY <2>3, OnlyAppend
  <2>6. Only(Append(s, x), T) = KeepIf(T, v, x)
    BY <2>2, OnlyAppend
  <2>7. KeepIf(T, o \o v, x) = o \o KeepIf(T, v, x)
    <3>1. CASE x \in T
      <4>1. o \o Append(v, x) = Append(o \o v, x)
        BY ConcatAppend
      <4> QED BY <3>1, <4>1 DEF KeepIf
    <3>2. CASE x \notin T
      BY <3>2 DEF KeepIf
    <3> QED BY <3>1, <3>2
  <2>8. Append(s, x) \in Seq(E)
    OBVIOUS
  <2> QED BY <1>2, <2>4, <2>5, <2>6, <2>7, <2>8
<1>5. \A s \in Seq(E) : s \in G
  BY <1>3, <1>4, OneByOne
<1> QED BY <1>1, <1>2, <1>5

LEMMA TookConcat ==
    ASSUME NEW a \in Seq(Spans), NEW b \in Seq(Spans)
    PROVE  Took(a \o b) = Took(a) + Took(b) /\ Stand(a \o b) = Stand(a) + Stand(b)
<1>1. PICK m \in Nat : m = Took(a)
  BY TookIs
<1>2. PICK k \in Nat : k = Stand(a)
  BY TookIs
<1>3. PICK G : G = {t \in Seq(Spans) : /\ Took(a \o t) = m + Took(t)
                                       /\ Stand(a \o t) = k + Stand(t)}
  OBVIOUS
<1>4. <<>> \in G
  <2>1. a \o <<>> = a
    OBVIOUS
  <2>2. PICK e : e = <<>>
    OBVIOUS
  <2>3. e \in Seq(Spans) /\ a \o e = a /\ Took(e) = 0 /\ Stand(e) = 0
    BY <2>1, <2>2, EmptyIs
  <2>4. m = m + 0 /\ k = k + 0
    OBVIOUS
  <2>5. Took(a \o e) = m + Took(e) /\ Stand(a \o e) = k + Stand(e)
    BY <1>1, <1>2, <2>3, <2>4
  <2>6. e \in G
    BY <1>3, <2>3, <2>5
  <2> QED BY <2>2, <2>6
<1>5. ASSUME NEW s \in Seq(Spans), s \in G, NEW y \in Spans PROVE Append(s, y) \in G
  <2>1. a \o Append(s, y) = Append(a \o s, y) /\ a \o s \in Seq(Spans)
    BY ConcatAppend
  <2>2. PICK r \in Seq(Spans) : r = a \o s
    BY <2>1
  <2>3. Took(Append(r, y)) = Took(r) + Duration(y) /\ Stand(Append(r, y)) = Stand(r) + y.count
    BY TookAppend
  <2>4. /\ Took(Append(s, y)) = Took(s) + Duration(y) /\ Took(s) \in Nat
        /\ Stand(Append(s, y)) = Stand(s) + y.count /\ Stand(s) \in Nat
    BY TookAppend
  <2>5. Took(r) = m + Took(s) /\ Stand(r) = k + Stand(s)
    BY <1>3, <1>5, <2>2
  <2>6. Duration(y) \in Nat /\ y.count \in Nat
    BY DurationIs
  <2>7. /\ Took(Append(r, y)) = m + Took(Append(s, y))
        /\ Stand(Append(r, y)) = k + Stand(Append(s, y))
    BY <2>3, <2>4, <2>5, <2>6
  <2>8. Append(s, y) \in Seq(Spans)
    OBVIOUS
  <2> QED BY <1>3, <2>1, <2>2, <2>7, <2>8
<1>6. \A s \in Seq(Spans) : s \in G
  BY <1>4, <1>5, OneByOne
<1> QED BY <1>1, <1>2, <1>3, <1>6

(* What is kept depends on the elements only.                               *)
LEMMA OnlySame ==
    ASSUME NEW E, NEW s \in Seq(E), NEW S, NEW T, \A x \in E : x \in S <=> x \in T
    PROVE  Only(s, S) = Only(s, T)
<1>1. PICK G : G = {t \in Seq(E) : Only(t, S) = Only(t, T)}
  OBVIOUS
<1>2. <<>> \in G
  BY <1>1, EmptyIs
<1>3. ASSUME NEW t \in Seq(E), t \in G, NEW x \in E PROVE Append(t, x) \in G
  <2>1. Only(Append(t, x), S) = KeepIf(S, Only(t, S), x)
    BY OnlyAppend
  <2>2. Only(Append(t, x), T) = KeepIf(T, Only(t, T), x)
    BY OnlyAppend
  <2>3. Only(t, S) = Only(t, T) /\ (x \in S <=> x \in T)
    BY <1>1, <1>3
  <2>4. Append(t, x) \in Seq(E)
    OBVIOUS
  <2> QED BY <1>1, <2>1, <2>2, <2>3, <2>4 DEF KeepIf
<1>4. \A t \in Seq(E) : t \in G
  BY <1>2, <1>3, OneByOne
<1> QED BY <1>1, <1>4

LEMMA OnlyAll ==
    ASSUME NEW E, NEW s \in Seq(E), NEW T
    PROVE  /\ E \subseteq T => Only(s, T) = s
           /\ E \cap T = {} => Only(s, T) = <<>>
<1>1. ASSUME E \cap T = {} PROVE Only(s, T) = <<>>
  <2>1. Only(s, T) \in Seq({})
    BY <1>1, OnlyType
  <2> QED BY <2>1
<1>2. ASSUME E \subseteq T PROVE Only(s, T) = s
  <2>1. PICK G : G = {t \in Seq(E) : Only(t, T) = t}
    OBVIOUS
  <2>2. <<>> \in G
    BY <2>1, EmptyIs
  <2>3. ASSUME NEW t \in Seq(E), t \in G, NEW x \in E PROVE Append(t, x) \in G
    <3>1. Only(Append(t, x), T) = KeepIf(T, Only(t, T), x)
      BY OnlyAppend
    <3>2. Only(t, T) = t /\ x \in T
      BY <1>2, <2>1, <2>3
    <3>3. Append(t, x) \in Seq(E)
      OBVIOUS
    <3> QED BY <2>1, <3>1, <3>2, <3>3 DEF KeepIf
  <2>4. \A t \in Seq(E) : t \in G
    BY <2>2, <2>3, OneByOne
  <2> QED BY <2>1, <2>4
<1> QED BY <1>1, <1>2

-----------------------------------------------------------------------------
(* Long tasks *)

(* What long tasks take in all *)
Spent(tasks) == Took(createLongTaskSpans(tasks))

LEMMA TasksAppend ==
    ASSUME NEW s \in Seq(Observations), NEW e \in Observations
    PROVE  /\ createLongTaskSpans(s) \in Seq(TaskSpans)
           /\ Len(createLongTaskSpans(s)) = Len(s)
           /\ Spent(s) \in Nat /\ Spent(Append(s, e)) = Spent(s) + e.duration
<1> DEFINE Of(o) == Span("longtask", o.name, o.start, o.start + o.duration, 0)
<1>1. PICK n \in Nat : n = Len(s) /\ DOMAIN s = 1..n /\ \A i \in 1..n : s[i] \in Observations
  BY LenProperties, ElementOfSeq
<1>2. PICK r : r = Append(s, e)
  OBVIOUS
<1>3. /\ r \in Seq(Observations) /\ Len(r) = n + 1 /\ r[n + 1] = e
      /\ \A i \in 1..n : r[i] = s[i]
  BY <1>1, <1>2
<1>4. DOMAIN r = 1..(n + 1) /\ \A i \in 1..(n + 1) : i = n + 1 \/ (i \in 1..n /\ i # n + 1)
  BY <1>3, LenProperties
<1>5. ASSUME NEW o \in Observations
      PROVE  Of(o) \in TaskSpans /\ Duration(Of(o)) = o.duration
  <2>1. /\ o.name \in Names /\ o.start \in Nat /\ o.duration \in Nat
        /\ o.start + o.duration \in Nat /\ o.start <= o.start + o.duration
    BY DEF Observations, Names, Observed
  <2>2. o.name # "tbt"
    BY DEF Observations, Observed
  <2>3. "longtask" \in Kinds /\ 0 \in Nat
    BY DEF Kinds
  <2>4. Of(o) \in Spans
    BY <2>1, <2>3, SpanIs
  <2>5. /\ Of(o).kind = "longtask" /\ Of(o).name = o.name
        /\ Of(o).start = o.start /\ Of(o).end = o.start + o.duration
    BY DEF Span
  <2>6. (o.start + o.duration) - o.start = o.duration
    BY <2>1
  <2> QED BY <2>2, <2>4, <2>5, <2>6 DEF TaskSpans, Duration
<1>6. createLongTaskSpans(s) = [i \in 1..n |-> Of(s[i])]
  BY <1>1 DEF createLongTaskSpans, Map
<1>7. createLongTaskSpans(r) = [i \in 1..(n + 1) |-> Of(r[i])]
  BY <1>4 DEF createLongTaskSpans, Map
<1>8. PICK a : a = [i \in 1..n |-> Of(s[i])]
  OBVIOUS
<1>9. PICK b : b = [i \in 1..(n + 1) |-> Of(r[i])]
  OBVIOUS
<1>10. PICK x \in TaskSpans : x = Of(e) /\ Duration(x) = e.duration
  BY <1>5
<1>11. a \in Seq(TaskSpans) /\ Len(a) = n /\ \A i \in 1..n : a[i] = Of(s[i])
  <2>1. \A i \in 1..n : Of(s[i]) \in TaskSpans
    BY <1>1, <1>5
  <2> HIDE DEF Of
  <2> QED BY <1>8, <2>1, FunctionIsSeq
<1>12. b \in Seq(TaskSpans) /\ Len(b) = n + 1 /\ \A i \in 1..(n + 1) : b[i] = Of(r[i])
  <2>1. \A i \in 1..(n + 1) : Of(r[i]) \in TaskSpans
    BY <1>1, <1>3, <1>4, <1>5
  <2>2. n + 1 \in Nat
    OBVIOUS
  <2> HIDE DEF Of
  <2> QED BY <1>9, <2>1, <2>2, FunctionIsSeq
<1> HIDE DEF Of
<1>13. b = Append(a, x)
  <2>1. PICK c : c = Append(a, x)
    OBVIOUS
  <2>2. /\ c \in Seq(TaskSpans) /\ Len(c) = n + 1 /\ c[n + 1] = x
        /\ \A i \in 1..n : c[i] = a[i]
    BY <1>11, <2>1
  <2>3. \A i \in 1..(n + 1) : c[i] = b[i]
    BY <1>3, <1>4, <1>10, <1>11, <1>12, <2>2
  <2> QED BY <1>12, <2>1, <2>2, <2>3, SeqEqual
<1>14. a \in Seq(Spans) /\ x \in Spans
  BY <1>11, SeqMonotonic DEF TaskSpans
<1>15. Took(Append(a, x)) = Took(a) + Duration(x) /\ Took(a) \in Nat
  BY <1>14, TookAppend
<1> QED BY <1>1, <1>2, <1>6, <1>7, <1>8, <1>9, <1>10, <1>11, <1>13, <1>15 DEF Spent

LEMMA SpentIs ==
    ASSUME NEW s \in Seq(Observations)
    PROVE  /\ createLongTaskSpans(s) \in Seq(TaskSpans)
           /\ Len(createLongTaskSpans(s)) = Len(s)
           /\ Spent(s) \in Nat /\ (s = <<>> => Spent(s) = 0)
<1>1. PICK o : o = [type |-> "longtask", name |-> "self", start |-> 0, duration |-> 0]
  OBVIOUS
<1>2. o \in Observations
  BY <1>1 DEF Observations, Observed
<1>3. ASSUME s = <<>> PROVE Spent(s) = 0
  <2>1. createLongTaskSpans(s) = <<>>
    BY <1>3 DEF createLongTaskSpans, Map
  <2> QED BY <2>1, EmptyIs DEF Spent
<1> QED BY <1>2, <1>3, TasksAppend

(* A part of the tasks takes no longer than all of them.                    *)
LEMMA SpentOnly ==
    ASSUME NEW s \in Seq(Observations), NEW T
    PROVE  Spent(Only(s, T)) <= Spent(s)
<1>1. PICK G : G = {t \in Seq(Observations) : Spent(Only(t, T)) <= Spent(t)}
  OBVIOUS
<1>2. <<>> \in G
  <2>1. PICK e : e = <<>>
    OBVIOUS
  <2>2. e \in Seq(Observations) /\ Only(e, T) = e
    BY <2>1, EmptyIs
  <2>3. Spent(e) \in Nat
    BY <2>2, SpentIs
  <2> QED BY <1>1, <2>1, <2>2, <2>3
<1>3. ASSUME NEW t \in Seq(Observations), t \in G, NEW e \in Observations
      PROVE  Append(t, e) \in G
  <2>1. PICK o \in Seq(Observations) : o = Only(t, T)
    BY OnlyIn
  <2>2. Only(Append(t, e), T) = KeepIf(T, o, e)
    BY <2>1, OnlyAppend
  <2>3. Spent(Append(t, e)) = Spent(t) + e.duration /\ Spent(t) \in Nat
    BY TasksAppend
  <2>4. Spent(Append(o, e)) = Spent(o) + e.duration /\ Spent(o) \in Nat
    BY TasksAppend
  <2>5. e.duration \in Nat
    BY DEF Observations
  <2>6. Spent(o) <= Spent(t)
    BY <1>1, <1>3, <2>1
  <2>7. Spent(KeepIf(T, o, e)) <= Spent(Append(t, e))
    BY <2>3, <2>4, <2>5, <2>6 DEF KeepIf
  <2>8. Append(t, e) \in Seq(Observations)
    OBVIOUS
  <2> QED BY <1>1, <2>2, <2>7, <2>8
<1>4. \A t \in Seq(Observations) : t \in G
  BY <1>2, <1>3, OneByOne
<1> QED BY <1>1, <1>4

LEMMA AddLongTaskIs ==
    ASSUME NEW a \in Metrics, NEW e \in Observations
    PROVE  /\ AddLongTask(a, e) \in Metrics
           /\ AddLongTask(a, e).count = a.count + 1
           /\ AddLongTask(a, e).sum = a.sum + e.duration
           /\ AddLongTask(a, e).tbt = a.tbt /\ AddLongTask(a, e).tbtStart = a.tbtStart
<1>1. PICK d \in Nat : d = e.duration
  BY DEF Observations
<1>2. PICK x \in Nat : x = MaxOf(d, a.max)
  BY <1>1 DEF Metrics, MaxOf
<1>3. AddLongTask(a, e) = [a EXCEPT !.count = a.count + 1, !.sum = a.sum + d, !.max = x]
  BY <1>1, <1>2 DEF AddLongTask, Metrics
<1>4. a.count + 1 \in Nat /\ a.sum + d \in Nat
  <2>1. a.count \in Nat /\ a.sum \in Nat
    BY DEF Metrics
  <2> QED BY <2>1
<1> QED BY <1>1, <1>3, <1>4 DEF Metrics

(* Each task is counted, with the time it took.                             *)
LEMMA LongTasksCounted ==
    ASSUME NEW m \in Metrics, NEW s \in Seq(Observations)
    PROVE  \E r \in Metrics :
              /\ r = AggregateLongTasks(m, s)
              /\ r.count = m.count + Len(s) /\ r.sum = m.sum + Spent(s)
              /\ r.tbt = m.tbt /\ r.tbtStart = m.tbtStart
<1> DEFINE Counted(r, t) == /\ r \in Metrics
                            /\ r.count = m.count + Len(t) /\ r.sum = m.sum + Spent(t)
                            /\ r.tbt = m.tbt /\ r.tbtStart = m.tbtStart
<1>1. \A a, e : a \in Metrics /\ e \in Observations => AddLongTask(a, e) \in Metrics
  BY AddLongTaskIs
<1>2. PICK G : G = {t \in Seq(Observations) : Counted(AggregateLongTasks(m, t), t)}
  OBVIOUS
<1>3. m.count \in Nat /\ m.sum \in Nat
  BY DEF Metrics
<1>4. <<>> \in G
  <2>1. PICK e : e = <<>>
    OBVIOUS
  <2>2. e \in Seq(Observations) /\ Len(e) = 0
    BY <2>1
  <2>3. Spent(e) = 0
    BY <2>1, <2>2, SpentIs
  <2>4. AggregateLongTasks(m, e) = m
    <3>1. PICK o : o = [type |-> "longtask", name |-> "self", start |-> 0, duration |-> 0]
      OBVIOUS
    <3>2. o \in Observations
      BY <3>1 DEF Observations, Observed
    <3> QED BY <1>1, <2>1, <2>2, <3>2, LongTaskAppend
  <2> QED BY <1>2, <1>3, <2>1, <2>2, <2>3, <2>4
<1>5. ASSUME NEW t \in Seq(Observations), t \in G, NEW e \in Observations
      PROVE  Append(t, e) \in G
  <2>1. PICK r : r = AggregateLongTasks(m, t)
    OBVIOUS
  <2>2. Counted(r, t)
    BY <1>2, <1>5, <2>1
  <2>3. AggregateLongTasks(m, Append(t, e)) = AddLongTask(r, e)
    BY <1>1, <2>1, LongTaskAppend
  <2>4. /\ AddLongTask(r, e) \in Metrics
        /\ AddLongTask(r, e).count = r.count + 1
        /\ AddLongTask(r, e).sum = r.sum + e.duration
        /\ AddLongTask(r, e).tbt = r.tbt /\ AddLongTask(r, e).tbtStart = r.tbtStart
    BY <2>2, AddLongTaskIs
  <2>5. Spent(Append(t, e)) = Spent(t) + e.duration /\ Spent(t) \in Nat
    BY TasksAppend
  <2>6. Len(Append(t, e)) = Len(t) + 1 /\ Len(t) \in Nat /\ Append(t, e) \in Seq(Observations)
    BY LenProperties
  <2>7. e.duration \in Nat
    BY DEF Observations
  <2>8. Counted(AddLongTask(r, e), Append(t, e))
    BY <1>3, <2>2, <2>4, <2>5, <2>6, <2>7
  <2> QED BY <1>2, <2>3, <2>6, <2>8
<1>6. \A t \in Seq(Observations) : t \in G
  <2> HIDE DEF Counted
  <2> QED BY <1>4, <1>5, OneByOne
<1> QED BY <1>2, <1>6

(* Tasks one after the other, between two instants                          *)
Sequential(list, lo, hi) ==
    /\ lo \in Nat /\ hi \in Nat /\ lo <= hi
    /\ \A i \in 1..Len(list) : lo <= list[i].start /\ list[i].start + list[i].duration <= hi
    /\ \A i, j \in 1..Len(list) : i < j => list[i].start + list[i].duration <= list[j].start

(* The total blocking time fits between the first blocking task and t       *)
BlockedBefore(m, t) == m.tbt = 0 \/ m.tbtStart + m.tbt <= t

LEMMA AddBlockingIs ==
    ASSUME NEW a \in Metrics, NEW e \in Observations
    PROVE  \E r \in Metrics :
              /\ r = AddBlocking(a, e)
              /\ r.count = a.count /\ r.sum = a.sum
              /\ a.tbt <= r.tbt /\ r.tbt <= a.tbt + e.duration
              /\ BlockedBefore(a, e.start) => BlockedBefore(r, e.start + e.duration)
<1>1. PICK b \in Nat : b = BlockedFrom(a.tbtStart, e) /\ b <= a.tbtStart /\ b <= e.start
  BY DEF Observations, Metrics, BlockedFrom, MinOf
<1>2. PICK x \in Nat : x = MaxOf(0, e.duration - LongTaskThreshold) /\ x <= e.duration
  BY ReportAssumption DEF Observations, MaxOf
<1>3. AddBlocking(a, e) = [a EXCEPT !.tbtStart = b, !.tbt = a.tbt + x]
  BY <1>1, <1>2 DEF AddBlocking, Metrics
<1>4. PICK r : r = [a EXCEPT !.tbtStart = b, !.tbt = a.tbt + x]
  OBVIOUS
<1>5. /\ a.tbt \in Nat /\ a.tbtStart \in Nat /\ e.start \in Nat /\ e.duration \in Nat
      /\ a.tbt + x \in Nat
  <2>1. a.tbt \in Nat /\ a.tbtStart \in Nat /\ e.start \in Nat /\ e.duration \in Nat
    BY DEF Metrics, Observations
  <2> QED BY <2>1
<1>6. /\ r \in Metrics /\ r.tbtStart = b /\ r.tbt = a.tbt + x
      /\ r.count = a.count /\ r.sum = a.sum
  BY <1>4, <1>5 DEF Metrics
<1>7. BlockedBefore(a, e.start) => BlockedBefore(r, e.start + e.duration)
  BY <1>1, <1>2, <1>5, <1>6 DEF BlockedBefore
<1>8. r = AddBlocking(a, e) /\ a.tbt <= r.tbt /\ r.tbt <= a.tbt + e.duration
  BY <1>2, <1>3, <1>4, <1>5, <1>6
<1> QED BY <1>6, <1>7, <1>8

LEMMA SequentialAppend ==
    ASSUME NEW s \in Seq(Observations), NEW e \in Observations, NEW lo, NEW hi,
           Sequential(Append(s, e), lo, hi)
    PROVE  Sequential(s, lo, e.start) /\ e.start + e.duration <= hi
<1>1. PICK n \in Nat : n = Len(s) /\ \A i \in 1..n : s[i] \in Observations
  BY LenProperties, ElementOfSeq
<1>2. PICK r : r = Append(s, e)
  OBVIOUS
<1>3. /\ Len(r) = n + 1 /\ r[n + 1] = e
      /\ \A i \in 1..n : r[i] = s[i]
  BY <1>1, <1>2
<1>4. n + 1 \in 1..(n + 1) /\ \A i \in 1..n : i \in 1..(n + 1) /\ i < n + 1
  OBVIOUS
<1>5. lo \in Nat /\ hi \in Nat /\ lo <= e.start /\ e.start + e.duration <= hi
  BY <1>2, <1>3, <1>4 DEF Sequential
<1>6. \A i \in 1..n : lo <= s[i].start /\ s[i].start + s[i].duration <= e.start
  BY <1>2, <1>3, <1>4 DEF Sequential
<1>7. \A i, j \in 1..n : i < j => s[i].start + s[i].duration <= s[j].start
  BY <1>2, <1>3, <1>4 DEF Sequential
<1>8. e.start \in Nat
  BY DEF Observations
<1> QED BY <1>1, <1>5, <1>6, <1>7, <1>8 DEF Sequential

(* The blocking time is part of the time of the tasks.                      *)
LEMMA BlockingTakes ==
    ASSUME NEW m \in Metrics, NEW s \in Seq(Observations)
    PROVE  \E r \in Metrics :
              /\ r = Blocking(m, s)
              /\ r.count = m.count /\ r.sum = m.sum
              /\ r.tbt <= m.tbt + Spent(s)
              /\ \A lo, hi : Sequential(s, lo, hi) /\ BlockedBefore(m, lo)
                                => BlockedBefore(r, hi)
<1> DEFINE F(t) == Blocking(m, t)
           Fits(r, t) == \A lo, hi : Sequential(t, lo, hi) /\ BlockedBefore(m, lo)
                                        => BlockedBefore(r, hi)
           Takes(r, t) == /\ r \in Metrics /\ r.count = m.count /\ r.sum = m.sum
                          /\ r.tbt <= m.tbt + Spent(t)
<1>1. \A a, e : a \in Metrics /\ e \in Observations => AddBlocking(a, e) \in Metrics
  BY AddBlockingIs
<1>2. PICK G : G = {t \in Seq(Observations) : Takes(F(t), t) /\ Fits(F(t), t)}
  OBVIOUS
<1>3. m.tbt \in Nat /\ m.tbtStart \in Nat
  BY DEF Metrics
<1>4. <<>> \in G
  <2>1. PICK e : e = <<>>
    OBVIOUS
  <2>2. e \in Seq(Observations)
    BY <2>1
  <2>3. Spent(e) = 0
    BY <2>1, <2>2, SpentIs
  <2>4. F(e) = m
    <3>1. PICK o : o = [type |-> "longtask", name |-> "self", start |-> 0, duration |-> 0]
      OBVIOUS
    <3>2. o \in Observations
      BY <3>1 DEF Observations, Observed
    <3> QED BY <1>1, <2>1, <2>2, <3>2, BlockingAppend
  <2>5. Takes(m, e)
    BY <1>3, <2>3
  <2>6. Fits(m, e)
    BY <1>3 DEF Sequential, BlockedBefore
  <2> QED BY <1>2, <2>1, <2>2, <2>4, <2>5, <2>6
<1>5. ASSUME NEW t \in Seq(Observations), t \in G, NEW e \in Observations
      PROVE  Append(t, e) \in G
  <2>1. PICK r : r = F(t)
    OBVIOUS
  <2>2. Takes(r, t) /\ Fits(r, t)
    BY <1>2, <1>5, <2>1
  <2>3. F(Append(t, e)) = AddBlocking(r, e)
    <3>1. Blocking(m, Append(t, e)) = AddBlocking(Blocking(m, t), e)
      BY <1>1, BlockingAppend
    <3> QED BY <2>1, <3>1
  <2>4. r \in Metrics
    BY <2>2
  <2>5. PICK q \in Metrics :
          /\ q = AddBlocking(r, e)
          /\ q.count = r.count /\ q.sum = r.sum
          /\ r.tbt <= q.tbt /\ q.tbt <= r.tbt + e.duration
          /\ BlockedBefore(r, e.start) => BlockedBefore(q, e.start + e.duration)
    BY <2>4, AddBlockingIs
  <2>6. Spent(Append(t, e)) = Spent(t) + e.duration /\ Spent(t) \in Nat
    BY TasksAppend
  <2>7. e.duration \in Nat /\ e.start \in Nat
    BY DEF Observations
  <2>8. q.tbt \in Nat /\ r.tbt \in Nat /\ q.tbtStart \in Nat
    BY <2>4, <2>5 DEF Metrics
  <2>9. Takes(q, Append(t, e))
    BY <1>3, <2>2, <2>5, <2>6, <2>7, <2>8
  <2>10. ASSUME NEW lo, NEW hi, Sequential(Append(t, e), lo, hi), BlockedBefore(m, lo)
         PROVE  BlockedBefore(q, hi)
    <3>1. Sequential(t, lo, e.start) /\ e.start + e.duration <= hi
      BY <2>10, SequentialAppend
    <3>2. BlockedBefore(r, e.start)
      BY <2>2, <2>10, <3>1
    <3>3. hi \in Nat
      BY <2>10 DEF Sequential
    <3> QED BY <2>5, <2>7, <2>8, <3>1, <3>2, <3>3 DEF BlockedBefore
  <2>11. Fits(q, Append(t, e))
    BY <2>10
  <2>12. Append(t, e) \in Seq(Observations)
    OBVIOUS
  <2> QED BY <1>2, <2>3, <2>5, <2>9, <2>11, <2>12
<1>6. \A t \in Seq(Observations) : t \in G
  <2> HIDE DEF F, Fits, Takes
  <2> QED BY <1>4, <1>5, OneByOne
<1> QED BY <1>2, <1>6

(* What is kept of tasks one after the other is one after the other.        *)
LEMMA SequentialOnly ==
    ASSUME NEW s \in Seq(Observations), NEW T, NEW lo, NEW hi, Sequential(s, lo, hi)
    PROVE  Sequential(Only(s, T), lo, hi)
<1>1. PICK t \in Seq(Observations) : t = Only(s, T)
  BY OnlyIn
<1>2. PICK m \in Nat : m = Len(t)
  BY LenProperties
<1>3. PICK n \in Nat : n = Len(s)
  BY LenProperties
<1>4. PICK f \in [1..m -> 1..n] : (\A j \in 1..m : t[j] = s[f[j]]) /\ Increasing(f, m)
  BY <1>1, <1>2, <1>3, OnlyIndices
<1>5. \A i \in 1..m : f[i] \in 1..n
  BY <1>4
<1>6. \A i \in 1..m : lo <= t[i].start /\ t[i].start + t[i].duration <= hi
  BY <1>3, <1>4, <1>5 DEF Sequential
<1>7. \A i, j \in 1..m : i < j => t[i].start + t[i].duration <= t[j].start
  BY <1>3, <1>4, <1>5 DEF Sequential, Increasing
<1>8. lo \in Nat /\ hi \in Nat /\ lo <= hi
  BY DEF Sequential
<1> QED BY <1>1, <1>2, <1>6, <1>7, <1>8 DEF Sequential

(* The blocking time of r is that of m and part of the time of the tasks,   *)
(* and it fits before their end.                                            *)
Blocks(m, r, tasks) ==
    /\ r.tbt <= m.tbt + Spent(tasks)
    /\ \A lo, hi : Sequential(tasks, lo, hi) /\ BlockedBefore(m, lo)
                      => BlockedBefore(r, hi)

LEMMA TotalBlockingIs ==
    ASSUME NEW m \in Metrics, NEW list \in Seq(Observations)
    PROVE  \E r \in Metrics :
              /\ r = calculateTotalBlockingTime(m, list)
              /\ r.count = m.count /\ r.sum = m.sum
              /\ Blocks(m, r, list)
<1>1. PICK T : T = {e \in Range(list) : e.start >= m.fcp /\ e.name # "cross-origin"}
  OBVIOUS
<1>2. PICK s \in Seq(Observations) : s = Only(list, T)
  BY OnlyIn
<1>3. PICK r \in Metrics :
        /\ r = Blocking(m, s)
        /\ r.count = m.count /\ r.sum = m.sum
        /\ r.tbt <= m.tbt + Spent(s)
        /\ \A lo, hi : Sequential(s, lo, hi) /\ BlockedBefore(m, lo) => BlockedBefore(r, hi)
  BY BlockingTakes
<1>4. calculateTotalBlockingTime(m, list) = r
  BY <1>1, <1>2, <1>3 DEF calculateTotalBlockingTime, Blocking
<1>5. Spent(s) <= Spent(list) /\ Spent(s) \in Nat /\ Spent(list) \in Nat
  BY <1>2, SpentOnly, SpentIs
<1>6. r.tbt <= m.tbt + Spent(list)
  <2>1. r.tbt \in Nat /\ m.tbt \in Nat
    BY DEF Metrics
  <2> QED BY <1>3, <1>5, <2>1
<1>7. \A lo, hi : Sequential(list, lo, hi) => Sequential(s, lo, hi)
  BY <1>2, SequentialOnly
<1>8. Blocks(m, r, list)
  BY <1>3, <1>6, <1>7 DEF Blocks
<1> QED BY <1>3, <1>4, <1>8

-----------------------------------------------------------------------------
(* How many are kept, and how many calls the spans stand for *)

LEMMA OnlyCounts ==
    ASSUME NEW E, NEW T
    PROVE  \A s \in Seq(E) : Len(Only(s, T)) = Cardinality({i \in 1..Len(s) : s[i] \in T})
<1>1. PICK G : G = {s \in Seq(E) : /\ IsFiniteSet({i \in 1..Len(s) : s[i] \in T})
                                   /\ Len(Only(s, T)) = Cardinality({i \in 1..Len(s) : s[i] \in T})}
  OBVIOUS
<1>2. <<>> \in G
  <2>1. {i \in 1..Len(<<>>) : <<>>[i] \in T} = {}
    OBVIOUS
  <2>2. Only(<<>>, T) = <<>>
    BY EmptyIs
  <2> QED BY <1>1, <2>1, <2>2, FS_EmptySet
<1>3. ASSUME NEW s \in Seq(E), s \in G, NEW x \in E PROVE Append(s, x) \in G
  <2>1. PICK n \in Nat : n = Len(s)
    BY LenProperties
  <2>2. PICK v : v = Append(s, x)
    OBVIOUS
  <2>3. v \in Seq(E) /\ Len(v) = n + 1 /\ v[n + 1] = x /\ \A i \in 1..n : v[i] = s[i]
    BY <2>1, <2>2
  <2>4. PICK A : A = {i \in 1..n : s[i] \in T}
    OBVIOUS
  <2>5. IsFiniteSet(A) /\ Len(Only(s, T)) = Cardinality(A) /\ n + 1 \notin A
    BY <1>1, <1>3, <2>1, <2>4
  <2>6. Only(v, T) = KeepIf(T, Only(s, T), x)
    BY <2>2, OnlyAppend
  <2>7. PICK o \in Seq(E) : o = Only(s, T)
    BY OnlyIn
  <2>8. CASE x \in T
    <3>1. {i \in 1..Len(v) : v[i] \in T} = A \cup {n + 1}
      BY <2>3, <2>4, <2>8
    <3>2. IsFiniteSet(A \cup {n + 1}) /\ Cardinality(A \cup {n + 1}) = Cardinality(A) + 1
      BY <2>5, FS_AddElement
    <3>3. Len(Only(v, T)) = Len(o) + 1
      BY <2>6, <2>7, <2>8 DEF KeepIf
    <3> QED BY <1>1, <2>2, <2>3, <2>5, <2>7, <3>1, <3>2, <3>3
  <2>9. CASE x \notin T
    <3>1. {i \in 1..Len(v) : v[i] \in T} = A
      BY <2>3, <2>4, <2>9
    <3>2. Only(v, T) = o
      BY <2>6, <2>7, <2>9 DEF KeepIf
    <3> QED BY <1>1, <2>2, <2>3, <2>5, <2>7, <3>1, <3>2
  <2> QED BY <2>8, <2>9
<1>4. \A s, x : s \in Seq(E) /\ s \in G /\ x \in E => Append(s, x) \in G
  BY <1>3
<1>5. \A s \in Seq(E) : s \in G
  BY <1>2, <1>4, OneByOne
<1> QED BY <1>1, <1>5

(* A span is inserted between two parts of the sequence.                    *)
Parts(E, t, x) ==
    \E p, q \in Seq(E) : t = p \o q /\ Insert(t, x) = Append(p, x) \o q

LEMMA InsertBetween ==
    ASSUME NEW E, NEW t \in Seq(E), NEW x \in E
    PROVE  Parts(E, t, x)
<1>1. PICK n \in Nat : n = Len(t) /\ DOMAIN t = 1..n /\ \A i \in 1..n : t[i] \in E
  BY LenProperties, ElementOfSeq
<1>2. PICK S : S = {0} \cup {i \in DOMAIN t : t[i].start <= x.start}
  OBVIOUS
<1>3. S \in SUBSET (0..n) /\ S # {}
  BY <1>1, <1>2
<1>4. PICK k \in 0..n : k = Max(S)
  BY <1>3, MaxIs
<1>5. PICK p : p = SubSeq(t, 1, k)
  OBVIOUS
<1>6. PICK q : q = SubSeq(t, k + 1, n)
  OBVIOUS
<1>7. /\ p \in Seq(E) /\ Len(p) = k /\ \A i \in 1..k : p[i] = t[i]
      /\ q \in Seq(E) /\ Len(q) = n - k /\ \A i \in 1..(n - k) : q[i] = t[k + i]
  BY <1>1, <1>5, <1>6
<1>8. Insert(t, x) = p \o <<x>> \o q
  <2>1. 1 + k = k + 1 /\ (k + 1) - 1 = k
    OBVIOUS
  <2> QED BY <1>1, <1>2, <1>4, <1>5, <1>6, <2>1 DEF Insert, InsertAt
<1>9. p \o <<x>> = Append(p, x)
  BY <1>7, AppendIsConcat
<1>10. t = p \o q
  <2>1. /\ p \o q \in Seq(E) /\ Len(p \o q) = k + (n - k)
        /\ \A i \in 1..(k + (n - k)) :
              (p \o q)[i] = IF i <= k THEN p[i] ELSE q[i - k]
    <3>1. /\ p \o q \in Seq(E) /\ Len(p \o q) = Len(p) + Len(q)
          /\ \A i \in 1..Len(p) + Len(q) :
                (p \o q)[i] = IF i <= Len(p) THEN p[i] ELSE q[i - Len(p)]
      BY <1>7, ConcatProperties
    <3> QED BY <1>7, <3>1
  <2>2. k + (n - k) = n
    OBVIOUS
  <2>3. ASSUME NEW i \in 1..n PROVE (p \o q)[i] = t[i]
    <3>1. CASE i <= k
      BY <1>7, <2>1, <2>2, <3>1
    <3>2. CASE ~(i <= k)
      <4>1. i - k \in 1..(n - k) /\ k + (i - k) = i
        BY <3>2
      <4> QED BY <1>7, <2>1, <2>2, <3>2, <4>1
    <3> QED BY <3>1, <3>2
  <2>4. Len(p \o q) = n
    BY <2>1, <2>2
  <2> QED BY <1>1, <2>1, <2>3, <2>4, SeqEqual
<1> QED BY <1>7, <1>8, <1>9, <1>10 DEF Parts

Distributes(E, T) ==
    \A a, b \in Seq(E) : Only(a \o b, T) = Only(a, T) \o Only(b, T)

(* Where a span is inserted does not matter to how many are kept.           *)
LEMMA InsertKeeps ==
    ASSUME NEW E, NEW T, NEW u \in Seq(E), NEW x \in E
    PROVE  Len(Only(Insert(u, x), T)) = Len(Only(Append(u, x), T))
<1>0. Distributes(E, T)
  BY OnlyConcat DEF Distributes
<1>1. PICK p \in Seq(E), q \in Seq(E) : u = p \o q /\ Insert(u, x) = Append(p, x) \o q
  <2>1. Parts(E, u, x)
    BY InsertBetween
  <2> QED BY <2>1 DEF Parts
<1>2. PICK a \in Seq(E) : a = Only(p, T)
  BY OnlyIn
<1>3. PICK b \in Seq(E) : b = Only(q, T)
  BY OnlyIn
<1>4. PICK r : r = Append(p, x) /\ r \in Seq(E)
  <2>1. Append(p, x) \in Seq(E)
    OBVIOUS
  <2> QED BY <2>1
<1>5. Only(r, T) = KeepIf(T, a, x)
  BY <1>2, <1>4, OnlyAppend
<1>6. Only(r \o q, T) = Only(r, T) \o b
  <2>1. Only(r \o q, T) = Only(r, T) \o Only(q, T)
    BY <1>1, <1>4, <1>0 DEF Distributes
  <2> QED BY <1>3, <2>1
<1>7. Only(u, T) = a \o b
  <2>1. Only(p \o q, T) = Only(p, T) \o Only(q, T)
    BY <1>0 DEF Distributes
  <2> QED BY <1>1, <1>2, <1>3, <2>1
<1>8. Only(Append(u, x), T) = KeepIf(T, a \o b, x)
  BY <1>7, OnlyAppend
<1>9. Len(KeepIf(T, a, x) \o b) = Len(KeepIf(T, a \o b, x))
  <2>1. Len(a) \in Nat /\ Len(b) \in Nat /\ a \o b \in Seq(E) /\ Len(a \o b) = Len(a) + Len(b)
    BY LenProperties, ConcatProperties
  <2>2. CASE x \in T
    <3>1. PICK c : c = Append(a, x) /\ c \in Seq(E) /\ Len(c) = Len(a) + 1
      <4>1. Append(a, x) \in Seq(E) /\ Len(Append(a, x)) = Len(a) + 1
        OBVIOUS
      <4> QED BY <4>1
    <3>2. Len(c \o b) = Len(c) + Len(b)
      BY ConcatProperties
    <3>3. Len(Append(a \o b, x)) = Len(a \o b) + 1
      BY <2>1, AppendProperties
    <3> QED BY <2>1, <2>2, <3>1, <3>2, <3>3 DEF KeepIf
  <2>3. CASE x \notin T
    BY <2>3 DEF KeepIf
  <2> QED BY <2>2, <2>3
<1> QED BY <1>1, <1>4, <1>5, <1>6, <1>8, <1>9

(* Sorting keeps as many as there were.                                     *)
LEMMA SortKeeps ==
    ASSUME NEW E, E \subseteq Spans, NEW T
    PROVE  \A s \in Seq(E) : Len(Only(SortByStart(s), T)) = Len(Only(s, T))
<1>1. PICK G : G = {s \in Seq(E) : Len(Only(SortByStart(s), T)) = Len(Only(s, T))}
  OBVIOUS
<1>2. PICK U : U = {t \in Seq(E) : Sorted(t)}
  OBVIOUS
<1>3. <<>> \in U /\ \A u, y : u \in U /\ y \in E => Insert(u, y) \in U
  BY <1>2, InsertIs DEF Sorted
<1>4. \A u \in Seq(E), x \in E : Len(Only(Insert(u, x), T)) = Len(Only(Append(u, x), T))
  BY InsertKeeps
<1>5. <<>> \in G
  <2>1. PICK e : e = <<>> /\ e \in Seq(E)
    <3>1. <<>> \in Seq(E)
      OBVIOUS
    <3> QED BY <3>1
  <2>2. SortByStart(e) = e
    <3>1. SortByStart(e) \in Seq(E) /\ Len(SortByStart(e)) = Len(e)
      BY <2>1, SortIs
    <3> QED BY <2>1, <3>1, EmptySeq
  <2> QED BY <1>1, <2>1, <2>2
<1>6. ASSUME NEW s \in Seq(E), s \in G, NEW x \in E PROVE Append(s, x) \in G
  <2>1. PICK u \in Seq(E) : u = SortByStart(s)
    BY SortIs
  <2>2. SortByStart(Append(s, x)) = Insert(u, x)
    BY <1>3, <2>1, InsertAppend
  <2>3. Len(Only(u, T)) = Len(Only(s, T))
    BY <1>1, <1>6, <2>1
  <2>4. Only(Append(u, x), T) = KeepIf(T, Only(u, T), x)
    BY OnlyAppend
  <2>5. Only(Append(s, x), T) = KeepIf(T, Only(s, T), x)
    BY OnlyAppend
  <2>6. PICK a \in Seq(E) : a = Only(u, T)
    BY OnlyIn
  <2>7. PICK b \in Seq(E) : b = Only(s, T)
    BY OnlyIn
  <2>8. Len(KeepIf(T, a, x)) = Len(KeepIf(T, b, x))
    <3>1. Len(Append(a, x)) = Len(a) + 1 /\ Len(Append(b, x)) = Len(b) + 1
      OBVIOUS
    <3> QED BY <2>3, <2>6, <2>7, <3>1 DEF KeepIf
  <2>9. Len(Only(Insert(u, x), T)) = Len(Only(Append(u, x), T))
    BY <1>4, <2>1
  <2>10. Append(s, x) \in Seq(E)
    OBVIOUS
  <2> QED BY <1>1, <2>2, <2>4, <2>5, <2>6, <2>7, <2>8, <2>9, <2>10
<1>7. \A s, x : s \in Seq(E) /\ s \in G /\ x \in E => Append(s, x) \in G
  BY <1>6
<1>8. \A s \in Seq(E) : s \in G
  BY <1>5, <1>7, OneByOne
<1> QED BY <1>1, <1>8

(* Spans of one call each stand for as many calls.                          *)
LEMMA OnesStand ==
    ASSUME NEW E, E \subseteq {x \in Spans : x.count = 1}
    PROVE  \A s \in Seq(E) : Stand(s) = Len(s)
<1>1. PICK G : G = {s \in Seq(E) : Stand(s) = Len(s)}
  OBVIOUS
<1>2. <<>> \in G
  BY <1>1, EmptyIs
<1>3. ASSUME NEW s \in Seq(E), s \in G, NEW x \in E PROVE Append(s, x) \in G
  <2>1. s \in Seq(Spans) /\ x \in Spans /\ x.count = 1
    BY SeqMonotonic
  <2>2. Stand(Append(s, x)) = Stand(s) + 1
    BY <2>1, TookAppend
  <2>3. Append(s, x) \in Seq(E) /\ Len(Append(s, x)) = Len(s) + 1
    OBVIOUS
  <2> QED BY <1>1, <1>3, <2>2, <2>3
<1>4. \A s, x : s \in Seq(E) /\ s \in G /\ x \in E => Append(s, x) \in G
  BY <1>3
<1>5. \A s \in Seq(E) : s \in G
  BY <1>2, <1>4, OneByOne
<1> QED BY <1>1, <1>5

(* Spans of some time that lie within a and b.                              *)
Kept(a, b) == {x \in Spans : a <= x.start /\ x.start < x.end /\ x.end <= b}

(* The groups of n spans that start no later than at m.                     *)
Grouped(g, a, b, m, n) ==
    /\ g \in Seq(Kept(a, b)) /\ Stand(g) = n
    /\ g # <<>> => Last(g).start <= m

LEMMA JoinCounts ==
    ASSUME NEW l \in AnySpan, NEW x
    PROVE  Join(l, x).count = l.count + 1
BY DEF Join, AnySpan

(* Grouping one more counts it and stays within.                            *)
LEMMA GroupKeeps ==
    ASSUME NEW a \in Nat, NEW b \in Nat, NEW d, NEW g, NEW m \in Nat, NEW n \in Nat,
           Grouped(g, a, b, m, n), NEW s \in Kept(a, b), s.count = 1, m <= s.start
    PROVE  Grouped(Group(d, g, s), a, b, s.start, n + 1)
<1>1. /\ g \in Seq(Kept(a, b)) /\ g \in Seq(Spans) /\ s \in Spans /\ s \in AnySpan
      /\ s.start \in Nat /\ s.end \in Nat
      /\ a <= s.start /\ s.start < s.end /\ s.end <= b
  <2>1. g \in Seq(Kept(a, b)) /\ Kept(a, b) \subseteq Spans
    BY DEF Grouped, Kept
  <2>2. g \in Seq(Spans)
    BY <2>1, SeqMonotonic
  <2> QED BY <2>1, <2>2 DEF Kept, Spans, AnySpan
<1>2. CASE Group(d, g, s) = Append(g, s)
  <2>1. PICK v : v = Append(g, s)
    OBVIOUS
  <2>2. v \in Seq(Kept(a, b)) /\ v[Len(v)] = s
    BY <1>1, <2>1
  <2>3. Stand(v) = n + 1
    BY <1>1, <2>1, TookAppend DEF Grouped
  <2> QED BY <1>1, <1>2, <2>1, <2>2, <2>3 DEF Grouped, Last
<1>3. CASE g # <<>> /\ Group(d, g, s) = Append(Front(g), Join(Last(g), s))
  <2>1. PICK k \in Nat : k + 1 = Len(g)
    BY <1>1, <1>3, EmptySeq
  <2>2. PICK l \in Kept(a, b) : l = Last(g) /\ l = g[k + 1]
    BY <1>1, <2>1, ElementOfSeq DEF Last
  <2>3. l.start <= m /\ l \in AnySpan /\ l \in Spans /\ l.start \in Nat /\ a <= l.start
        /\ l.count \in Nat
    BY <1>3, <2>2 DEF Grouped, Kept, Spans, AnySpan
  <2>4. PICK j : j = Join(l, s)
    OBVIOUS
  <2>5. j \in AnySpan /\ j.start = l.start /\ j.end = s.end /\ j.count = l.count + 1
    BY <1>1, <2>3, <2>4, JoinIs, JoinCounts
  <2>6. l.start <= s.start /\ l.start < s.end
    BY <1>1, <2>3
  <2>7. j \in Spans /\ j \in Kept(a, b) /\ j.start <= s.start
    BY <1>1, <2>3, <2>5, <2>6 DEF Spans, Kept
  <2>8. PICK f : f = Front(g)
    OBVIOUS
  <2>9. f \in Seq(Kept(a, b)) /\ f \in Seq(Spans) /\ g = Append(f, l)
    <3>1. f = SubSeq(g, 1, k)
      BY <2>1, <2>8 DEF Front
    <3>2. f \in Seq(Kept(a, b)) /\ f \in Seq(Spans) /\ Len(f) = k
          /\ \A i \in 1..k : f[i] = g[i]
      BY <1>1, <2>1, <3>1
    <3>3. g = Append(f, l)
      <4>1. PICK h : h = Append(f, l)
        OBVIOUS
      <4>2. /\ h \in Seq(Spans) /\ Len(h) = k + 1 /\ h[k + 1] = l
            /\ \A i \in 1..k : h[i] = f[i]
        BY <2>3, <3>2, <4>1
      <4>3. \A i \in 1..(k + 1) : h[i] = g[i]
        <5>1. \A i \in 1..(k + 1) : i \in 1..k \/ i = k + 1
          OBVIOUS
        <5> QED BY <2>2, <3>2, <4>2, <5>1
      <4> QED BY <1>1, <2>1, <4>1, <4>2, <4>3, SeqEqual
    <3> QED BY <3>2, <3>3
  <2>10. PICK v : v = Append(f, j)
    OBVIOUS
  <2>11. v \in Seq(Kept(a, b)) /\ v[Len(v)] = j
    BY <2>7, <2>9, <2>10
  <2>12. Stand(v) = n + 1
    <3>1. Stand(g) = Stand(f) + l.count /\ Stand(f) \in Nat /\ Stand(g) = n
      BY <2>3, <2>9, TookAppend DEF Grouped
    <3>2. Stand(v) = Stand(f) + j.count
      BY <2>7, <2>9, <2>10, TookAppend
    <3> QED BY <2>3, <2>5, <3>1, <3>2
  <2> QED BY <1>3, <2>2, <2>4, <2>7, <2>8, <2>10, <2>11, <2>12 DEF Grouped, Last
<1> QED BY <1>2, <1>3 DEF Group

LEMMA GroupNone ==
    ASSUME NEW d
    PROVE  GroupSorted(<<>>, d) = <<>>
<1>1. PICK e : e = <<>> /\ e \in Seq(Spans) /\ Len(e) = 0
  <2>1. <<>> \in Seq(Spans) /\ Len(<<>>) = 0
    OBVIOUS
  <2> QED BY <2>1
<1>2. PICK U : U = Seq(AnySpan)
  OBVIOUS
<1>3. <<>> \in U /\ \A u, x : u \in U /\ x \in Spans => Group(d, u, x) \in U
  BY <1>2, GroupAny
<1>4. e \in Seq(Spans)
  BY <1>1
<1>5. \E c \in [0..Len(e) -> U] :
         Chain(c, e, <<>>, GroupSorted(e, d),
               [i \in 1..Len(e) |-> Group(d, c[i - 1], e[i])])
  BY <1>3, <1>4, GroupSteps
<1> QED BY <1>1, <1>5 DEF Chain

(* The groups stand for the spans, and lie where these do.                  *)
LEMMA GroupsKeep ==
    ASSUME NEW a \in Nat, NEW b \in Nat, NEW d, NEW E,
           E = {x \in Kept(a, b) : x.count = 1}, NEW s \in Seq(E)
    PROVE  /\ groupSmallContinuouslySimilarSpans(s, d) \in Seq(Kept(a, b))
           /\ Stand(groupSmallContinuouslySimilarSpans(s, d)) = Len(s)
<1>1. E \subseteq Spans /\ \A x \in E : x \in Kept(a, b) /\ x.count = 1 /\ x.start \in Nat
  BY DEF Kept, Spans, AnySpan
<1>2. PICK U : U = Seq(AnySpan)
  OBVIOUS
<1>3. <<>> \in U /\ \A u, x : u \in U /\ x \in E => Group(d, u, x) \in U
  BY <1>1, <1>2, GroupAny
<1> DEFINE Latest(t) == IF t = <<>> THEN 0 ELSE t[Len(t)].start
           Good(t) == Grouped(GroupSorted(t, d), a, b, Latest(t), Len(t))
<1>4. PICK G : G = {t \in Seq(E) : Sorted(t) => Good(t)}
  OBVIOUS
<1>5. <<>> \in G
  <2>1. PICK e : e = <<>> /\ e \in Seq(E) /\ Len(e) = 0
    <3>1. <<>> \in Seq(E) /\ Len(<<>>) = 0
      OBVIOUS
    <3> QED BY <3>1
  <2>2. GroupSorted(e, d) = e
    BY <2>1, GroupNone
  <2>3. Good(e)
    <3>1. Stand(e) = 0 /\ e \in Seq(Kept(a, b))
      BY <2>1, EmptyIs
    <3> QED BY <2>1, <2>2, <3>1 DEF Grouped
  <2> QED BY <1>4, <2>1, <2>3
<1>6. ASSUME NEW t \in Seq(E), t \in G, NEW x \in E PROVE Append(t, x) \in G
  <2>1. PICK v : v = Append(t, x)
    OBVIOUS
  <2>2. PICK n \in Nat : n = Len(t) /\ \A i \in 1..n : t[i] \in E
    BY LenProperties, ElementOfSeq
  <2>3. /\ v \in Seq(E) /\ Len(v) = n + 1 /\ v[n + 1] = x /\ v # <<>>
        /\ \A i \in 1..n : v[i] = t[i]
    BY <2>1, <2>2
  <2>4. ASSUME Sorted(v) PROVE Good(v)
    <3>1. \A i, j \in 1..(n + 1) : i <= j => v[i].start <= v[j].start
      BY <2>3, <2>4 DEF Sorted
    <3>2. Sorted(t)
      <4>1. \A i, j \in 1..n : i <= j => t[i].start <= t[j].start
        BY <2>3, <3>1
      <4> QED BY <2>2, <4>1 DEF Sorted
    <3>3. PICK m \in Nat : m = Latest(t) /\ m <= x.start
      <4>1. CASE t = <<>>
        BY <1>1, <4>1
      <4>2. CASE t # <<>>
        <5>1. n \in 1..n /\ n \in 1..(n + 1) /\ n + 1 \in 1..(n + 1) /\ n <= n + 1
          BY <2>2, <4>2, EmptySeq
        <5>2. v[n].start <= v[n + 1].start
          BY <3>1, <5>1
        <5> QED BY <1>1, <2>2, <2>3, <4>2, <5>1, <5>2
      <4> QED BY <4>1, <4>2
    <3>4. Grouped(GroupSorted(t, d), a, b, m, n)
      BY <1>4, <1>6, <2>2, <3>2, <3>3
    <3>5. Grouped(Group(d, GroupSorted(t, d), x), a, b, x.start, n + 1)
      BY <1>1, <3>3, <3>4, GroupKeeps
    <3>6. GroupSorted(v, d) = Group(d, GroupSorted(t, d), x)
      <4> HIDE DEF Good, Latest
      <4> QED BY <1>3, <2>1, GroupAppend
    <3> QED BY <2>3, <3>5, <3>6
  <2> QED BY <1>4, <2>1, <2>3, <2>4
<1>7. \A t, x : t \in Seq(E) /\ t \in G /\ x \in E => Append(t, x) \in G
  BY <1>6
<1>8. \A t \in Seq(E) : t \in G
  <2> HIDE DEF Good
  <2> QED BY <1>5, <1>7, OneByOne
<1>9. PICK t : t = SortByStart(s) /\ t \in Seq(E) /\ Sorted(t) /\ Len(t) = Len(s)
  <2>1. SortByStart(s) \in Seq(E) /\ Sorted(SortByStart(s)) /\ Len(SortByStart(s)) = Len(s)
    BY <1>1, SortIs
  <2> QED BY <2>1
<1>10. Good(t)
  BY <1>4, <1>8, <1>9
<1> QED BY <1>9, <1>10 DEF Grouped, groupSmallContinuouslySimilarSpans

-----------------------------------------------------------------------------
(* Instants *)

(* The spans of a kind at the instants from a to b, as the pairs of an      *)
(* instant and the index of a span.                                         *)
Instants(s, k, a, b) ==
    {p \in (a .. b - 1) \X (1..Len(s)) :
       s[p[2]].kind = k /\ s[p[2]].start <= p[1] /\ p[1] < s[p[2]].end}

(* The instants from a to b that no span of C covers.                       *)
Free(C, a, b) == {i \in a .. b - 1 : \A y \in C : ~(y.start <= i /\ i < y.end)}

(* The instants of a range, and of two that follow one another              *)
LEMMA Interval ==
    ASSUME NEW a \in Nat, NEW b \in Nat, a <= b
    PROVE  IsFiniteSet(a .. b - 1) /\ Cardinality(a .. b - 1) = b - a
<1>1. b - 1 \in Int
  OBVIOUS
<1>2. IsFiniteSet(a .. b - 1) /\ Cardinality(a .. b - 1) = IF a > b - 1 THEN 0 ELSE (b - 1) - a + 1
  BY <1>1, FS_Interval
<1> QED BY <1>2

LEMMA FreeFinite ==
    ASSUME NEW C, NEW a \in Nat, NEW b \in Nat
    PROVE  /\ IsFiniteSet(Free(C, a, b)) /\ Cardinality(Free(C, a, b)) \in Nat
<1>1. b - 1 \in Int /\ Free(C, a, b) \in SUBSET (a .. b - 1)
  BY DEF Free
<1>2. IsFiniteSet(a .. b - 1)
  BY <1>1, FS_Interval
<1>3. IsFiniteSet(Free(C, a, b))
  BY <1>1, <1>2, FS_Subset
<1> QED BY <1>3, FS_CardinalityType

LEMMA CardinalityOfUnion ==
    ASSUME NEW S, NEW T, IsFiniteSet(S), IsFiniteSet(T), S \cap T = {}
    PROVE  IsFiniteSet(S \cup T) /\ Cardinality(S \cup T) = Cardinality(S) + Cardinality(T)
<1>1. /\ IsFiniteSet(S \cup T)
      /\ Cardinality(S \cup T) = Cardinality(S) + Cardinality(T) - Cardinality(S \cap T)
  BY FS_Union
<1>2. Cardinality(S) \in Nat /\ Cardinality(T) \in Nat
  BY FS_CardinalityType
<1>3. Cardinality(S \cap T) = 0
  BY FS_EmptySet
<1> QED BY <1>1, <1>2, <1>3

(* The spans that last for some time, of a kind                             *)
OfKind(k) == {x \in Spans : x.kind = k /\ Duration(x) # 0}

(* What the spans of a kind take is as many instants.                       *)
LEMMA InstantsAppend ==
    ASSUME NEW a \in Nat, NEW b \in Nat, NEW k,
           NEW s \in Seq({x \in Spans : a <= x.start /\ x.end <= b}),
           NEW x \in Spans, a <= x.start, x.end <= b, IsFiniteSet(Instants(s, k, a, b))
    PROVE  LET v == Append(s, x)
           IN  /\ IsFiniteSet(Instants(v, k, a, b))
               /\ Cardinality(Instants(v, k, a, b)) =
                    Cardinality(Instants(s, k, a, b)) +
                      (IF x.kind = k THEN x.end - x.start ELSE 0)
<1>1. PICK n \in Nat : n = Len(s)
  BY LenProperties
<1>2. PICK v : v = Append(s, x)
  OBVIOUS
<1>3. Len(v) = n + 1 /\ v[n + 1] = x /\ \A i \in 1..n : v[i] = s[i]
  BY <1>1, <1>2
<1>4. x.start \in Nat /\ x.end \in Nat /\ x.start <= x.end
  BY DEF Spans, AnySpan
<1>5. PICK Q : Q = {p \in (a .. b - 1) \X {n + 1} :
                      x.kind = k /\ x.start <= p[1] /\ p[1] < x.end}
  OBVIOUS
<1>6. PICK P : P = Instants(s, k, a, b)
  OBVIOUS
<1>7. Instants(v, k, a, b) = P \cup Q
  <2>1. ASSUME NEW p \in (a .. b - 1) \X (1..(n + 1))
        PROVE  p \in Instants(v, k, a, b) <=> p \in P \cup Q
    <3>1. CASE p[2] = n + 1
      <4>1. p \notin P
        BY <1>1, <1>6, <3>1 DEF Instants
      <4>2. p \in (a .. b - 1) \X {n + 1}
        BY <3>1
      <4>3. p \in Q <=> x.kind = k /\ x.start <= p[1] /\ p[1] < x.end
        BY <1>5, <4>2
      <4>4. p \in Instants(v, k, a, b) <=> x.kind = k /\ x.start <= p[1] /\ p[1] < x.end
        BY <1>3, <3>1 DEF Instants
      <4> QED BY <4>1, <4>3, <4>4
    <3>2. CASE p[2] # n + 1
      <4>1. p[2] \in 1..n /\ p \in (a .. b - 1) \X (1..n) /\ p[2] \in 1..(n + 1)
        BY <3>2
      <4>2. p \notin Q
        BY <1>5, <3>2
      <4>3. v[p[2]] = s[p[2]]
        BY <1>3, <4>1
      <4>4. p \in P <=> s[p[2]].kind = k /\ s[p[2]].start <= p[1] /\ p[1] < s[p[2]].end
        BY <1>1, <1>6, <4>1 DEF Instants
      <4>5. p \in Instants(v, k, a, b) <=>
              s[p[2]].kind = k /\ s[p[2]].start <= p[1] /\ p[1] < s[p[2]].end
        BY <1>3, <4>3 DEF Instants
      <4> QED BY <4>2, <4>4, <4>5
    <3> QED BY <3>1, <3>2
  <2>2. Instants(v, k, a, b) \subseteq (a .. b - 1) \X (1..(n + 1))
    BY <1>3 DEF Instants
  <2>3. P \subseteq (a .. b - 1) \X (1..(n + 1))
    <3>1. P \subseteq (a .. b - 1) \X (1..n)
      BY <1>1, <1>6 DEF Instants
    <3>2. 1..n \subseteq 1..(n + 1)
      BY <1>1
    <3> QED BY <3>1, <3>2
  <2>4. Q \subseteq (a .. b - 1) \X (1..(n + 1))
    <3>1. n + 1 \in 1..(n + 1)
      BY <1>1
    <3> QED BY <1>5, <3>1
  <2> QED BY <2>1, <2>2, <2>3, <2>4
<1>8. P \cap Q = {}
  <2>1. \A p \in P : p[2] \in 1..n
    BY <1>1, <1>6 DEF Instants
  <2>2. \A p \in Q : p[2] = n + 1
    BY <1>5
  <2> QED BY <2>1, <2>2
<1>9. IsFiniteSet(Q) /\ Cardinality(Q) = IF x.kind = k THEN x.end - x.start ELSE 0
  <2>1. CASE x.kind # k
    <3>1. Q = {}
      BY <1>5, <2>1
    <3> QED BY <2>1, <3>1, FS_EmptySet
  <2>2. CASE x.kind = k
    <3>1. Q = (x.start .. x.end - 1) \X {n + 1}
      <4>1. \A i : i \in x.start .. x.end - 1 <=>
                     i \in a .. b - 1 /\ x.start <= i /\ i < x.end
        BY <1>4
      <4> QED BY <1>5, <2>2, <4>1
    <3>2. IsFiniteSet(x.start .. x.end - 1) /\ Cardinality(x.start .. x.end - 1) = x.end - x.start
      BY <1>4, Interval
    <3>3. IsFiniteSet({n + 1}) /\ Cardinality({n + 1}) = 1
      BY FS_Singleton
    <3>4. PICK S : S = x.start .. x.end - 1
      OBVIOUS
    <3>5. PICK T : T = {n + 1}
      OBVIOUS
    <3>6. IsFiniteSet(S \X T) /\ Cardinality(S \X T) = Cardinality(S) * Cardinality(T)
      BY <3>2, <3>3, <3>4, <3>5, FS_Product
    <3> QED BY <1>4, <2>2, <3>1, <3>2, <3>3, <3>4, <3>5, <3>6
  <2> QED BY <2>1, <2>2
<1>10. /\ IsFiniteSet(P \cup Q)
       /\ Cardinality(P \cup Q) = Cardinality(P) + Cardinality(Q)
  BY <1>6, <1>8, <1>9, CardinalityOfUnion
<1> QED BY <1>2, <1>6, <1>7, <1>9, <1>10

LEMMA KindsTake ==
    ASSUME NEW a \in Nat, NEW b \in Nat, NEW k
    PROVE  \A s \in Seq({x \in Spans : a <= x.start /\ x.end <= b}) :
              /\ IsFiniteSet(Instants(s, k, a, b))
              /\ Took(Only(s, OfKind(k))) = Cardinality(Instants(s, k, a, b))
<1>1. PICK E : E = {x \in Spans : a <= x.start /\ x.end <= b}
  OBVIOUS
<1>2. PICK T : T = OfKind(k)
  OBVIOUS
<1>3. PICK G : G = {s \in Seq(E) : /\ IsFiniteSet(Instants(s, k, a, b))
                                   /\ Took(Only(s, T)) = Cardinality(Instants(s, k, a, b))}
  OBVIOUS
<1>4. <<>> \in G
  <2>1. Instants(<<>>, k, a, b) = {}
    BY DEF Instants
  <2>2. Only(<<>>, T) = <<>> /\ Took(<<>>) = 0
    BY EmptyIs
  <2>3. <<>> \in Seq(E)
    OBVIOUS
  <2> QED BY <1>3, <2>1, <2>2, <2>3, FS_EmptySet
<1>5. ASSUME NEW s \in Seq(E), s \in G, NEW x \in E PROVE Append(s, x) \in G
  <2>1. x \in Spans /\ a <= x.start /\ x.end <= b
    BY <1>1
  <2>2. PICK N : N = Instants(s, k, a, b)
    OBVIOUS
  <2>3. IsFiniteSet(N) /\ Took(Only(s, T)) = Cardinality(N)
    BY <1>3, <1>5, <2>2
  <2>4. PICK v : v = Append(s, x) /\ v \in Seq(E)
    <3>1. Append(s, x) \in Seq(E)
      OBVIOUS
    <3> QED BY <3>1
  <2>5. /\ IsFiniteSet(Instants(v, k, a, b))
        /\ Cardinality(Instants(v, k, a, b)) =
             Cardinality(N) + (IF x.kind = k THEN x.end - x.start ELSE 0)
    BY <1>1, <2>1, <2>2, <2>3, <2>4, InstantsAppend
  <2>6. Only(v, T) = KeepIf(T, Only(s, T), x)
    BY <2>4, OnlyAppend
  <2>7. PICK o \in Seq(Spans) : o = Only(s, T)
    <3>1. E \subseteq Spans
      BY <1>1
    <3>2. Only(s, T) \in Seq(E)
      BY OnlyIn
    <3> QED BY <3>1, <3>2, SeqMonotonic
  <2>8. x.start \in Nat /\ x.end \in Nat
    BY <2>1 DEF Spans, AnySpan
  <2>9. Took(Append(o, x)) = Took(o) + (x.end - x.start)
    BY <2>1, TookAppend DEF Duration
  <2>10. Cardinality(N) \in Nat
    BY <2>3, FS_CardinalityType
  <2>11. x \in T <=> x.kind = k /\ x.end - x.start # 0
    BY <1>2, <2>1 DEF OfKind, Duration
  <2>12. Took(Only(v, T)) = Cardinality(Instants(v, k, a, b))
    <3>1. CASE x \in T
      <4>1. Only(v, T) = Append(o, x)
        BY <2>6, <2>7, <3>1 DEF KeepIf
      <4> QED BY <2>3, <2>5, <2>7, <2>9, <2>11, <3>1, <4>1
    <3>2. CASE x \notin T
      <4>1. Only(v, T) = o
        BY <2>6, <2>7, <3>2 DEF KeepIf
      <4>2. CASE x.kind = k
        <5>1. Cardinality(Instants(v, k, a, b)) = Cardinality(N) + 0
          BY <2>5, <2>11, <3>2, <4>2
        <5> QED BY <2>3, <2>7, <2>10, <4>1, <5>1
      <4>3. CASE x.kind # k
        BY <2>3, <2>5, <2>7, <2>10, <4>1, <4>3
      <4> QED BY <4>2, <4>3
    <3> QED BY <3>1, <3>2
  <2> QED BY <1>3, <2>4, <2>5, <2>12
<1>6. \A s, x : s \in Seq(E) /\ s \in G /\ x \in E => Append(s, x) \in G
  BY <1>5
<1>7. \A s \in Seq(E) : s \in G
  BY <1>4, <1>6, OneByOne
<1> QED BY <1>1, <1>2, <1>3, <1>7

-----------------------------------------------------------------------------
(* Self time *)

(* What is kept when the spans of C have been seen, in the order of their   *)
(* starts: the last end, and as self time the instants before it that are   *)
(* free.                                                                    *)
Seen(r, C, a) ==
    /\ r \in Covers /\ r.end >= a
    /\ \A y \in C : y.end <= r.end
    /\ \E y \in C : y.end = r.end
    /\ r.self = Cardinality(Free(C, a, r.end))

(* One more span that starts after them, or with the last                   *)
LEMMA ContinueSeen ==
    ASSUME NEW a \in Nat, NEW C \in SUBSET Spans, NEW r, Seen(r, C, a),
           NEW x \in Spans, a <= x.start, \A y \in C : y.start <= x.start
    PROVE  Seen(Continue(r, x), C \cup {x}, a)
<1>1. /\ x.start \in Nat /\ x.end \in Nat /\ x.start <= x.end
      /\ r \in Covers /\ r.self \in Nat /\ r.end \in Nat
      /\ \A y \in C : y.start \in Nat /\ y.end \in Nat /\ y.start <= y.end /\ y.end <= r.end
  BY DEF Spans, AnySpan, Covers, Seen
<1>2. PICK D : D = C \cup {x}
  OBVIOUS
<1>3. PICK q \in Covers : q = Continue(r, x)
  BY <1>1, ContinueIn
<1>4. CASE x.start > r.end
  <2>1. q.self = r.self + (x.start - r.end) /\ q.end = x.end
    <3>1. r.self + x.start - r.end = r.self + (x.start - r.end)
      BY <1>1
    <3> QED BY <1>3, <1>4, <3>1 DEF Continue
  <2>2. Free(D, a, x.end) = Free(C, a, r.end) \cup (r.end .. x.start - 1)
    <3>1. r.end >= a
      BY DEF Seen
    <3>2. ASSUME NEW i \in Int
          PROVE  i \in Free(D, a, x.end) <=> i \in Free(C, a, r.end) \cup (r.end .. x.start - 1)
      <4>1. i \in Free(D, a, x.end) <=> /\ i \in a .. x.end - 1
                                        /\ \A y \in C : ~(y.start <= i /\ i < y.end)
                                        /\ ~(x.start <= i /\ i < x.end)
        BY <1>2 DEF Free
      <4>2. i \in Free(C, a, r.end) <=> /\ i \in a .. r.end - 1
                                        /\ \A y \in C : ~(y.start <= i /\ i < y.end)
        BY DEF Free
      <4>3. i >= r.end => \A y \in C : ~(y.start <= i /\ i < y.end)
        BY <1>1
      <4>4. i \in a .. x.end - 1 /\ ~(x.start <= i /\ i < x.end) <=> a <= i /\ i < x.start
        BY <1>1
      <4>5. a <= i /\ i < x.start <=> i \in a .. r.end - 1 \/ i \in r.end .. x.start - 1
        BY <1>1, <1>4, <3>1
      <4>6. i \in r.end .. x.start - 1 => i >= r.end
        BY <1>1
      <4> HIDE DEF Free
      <4> QED BY <4>1, <4>2, <4>3, <4>4, <4>5, <4>6
    <3>3. Free(D, a, x.end) \subseteq Int /\ Free(C, a, r.end) \subseteq Int
      BY <1>1 DEF Free
    <3>4. r.end .. x.start - 1 \subseteq Int
      OBVIOUS
    <3> QED BY <3>2, <3>3, <3>4
  <2>3. Free(C, a, r.end) \cap (r.end .. x.start - 1) = {}
    <3>1. \A i \in Free(C, a, r.end) : i < r.end
      BY <1>1 DEF Free
    <3>2. \A i \in r.end .. x.start - 1 : ~(i < r.end)
      BY <1>1
    <3> QED BY <3>1, <3>2
  <2>4. /\ IsFiniteSet(r.end .. x.start - 1)
        /\ Cardinality(r.end .. x.start - 1) = x.start - r.end
    <3>1. r.end <= x.start
      BY <1>1, <1>4
    <3> QED BY <1>1, <3>1, Interval
  <2>5. IsFiniteSet(Free(C, a, r.end)) /\ Cardinality(Free(C, a, r.end)) = r.self
    <3>1. IsFiniteSet(Free(C, a, r.end))
      BY <1>1, FreeFinite
    <3> QED BY <3>1 DEF Seen
  <2>6. q.self = Cardinality(Free(D, a, q.end))
    <3>1. PICK S : S = Free(C, a, r.end)
      OBVIOUS
    <3>2. PICK T : T = r.end .. x.start - 1
      OBVIOUS
    <3>3. Cardinality(S \cup T) = Cardinality(S) + Cardinality(T)
      BY <2>3, <2>4, <2>5, <3>1, <3>2, CardinalityOfUnion
    <3> QED BY <2>1, <2>2, <2>4, <2>5, <3>1, <3>2, <3>3
  <2>7. q.end >= a /\ \A y \in D : y.end <= q.end
    BY <1>1, <1>2, <1>4, <2>1
  <2>8. x \in D /\ x.end = q.end
    BY <1>2, <2>1
  <2> QED BY <1>2, <1>3, <2>6, <2>7, <2>8 DEF Seen
<1>5. CASE ~(x.start > r.end)
  <2>1. q.self = r.self /\ q.end = MaxOf(r.end, x.end)
    BY <1>1, <1>3, <1>5 DEF Continue, Covers
  <2>2. q.end \in Nat /\ q.end >= r.end /\ q.end >= x.end /\ (q.end = r.end \/ q.end = x.end)
    BY <1>1, <2>1 DEF MaxOf
  <2>3. PICK l \in C : l.end = r.end
    BY DEF Seen
  <2>4. Free(D, a, q.end) = Free(C, a, r.end)
    <3>1. ASSUME NEW i \in Int
          PROVE  i \in Free(D, a, q.end) <=> i \in Free(C, a, r.end)
      <4>1. i \in Free(D, a, q.end) <=> /\ i \in a .. q.end - 1
                                        /\ \A y \in C : ~(y.start <= i /\ i < y.end)
                                        /\ ~(x.start <= i /\ i < x.end)
        BY <1>2 DEF Free
      <4>2. i \in Free(C, a, r.end) <=> /\ i \in a .. r.end - 1
                                        /\ \A y \in C : ~(y.start <= i /\ i < y.end)
        BY DEF Free
      <4>3. CASE i < r.end
        <5>1. i \in a .. q.end - 1 <=> i \in a .. r.end - 1
          BY <1>1, <2>2, <4>3
        <5>2. l.start <= x.start
          BY <2>3
        <5>3. (x.start <= i /\ i < x.end) => l.start <= i /\ i < l.end
          BY <1>1, <2>3, <4>3, <5>2
        <5> QED BY <2>3, <4>1, <4>2, <5>1, <5>3
      <4>4. CASE ~(i < r.end)
        <5>1. i \notin a .. r.end - 1
          BY <1>1, <4>4
        <5>2. i \in a .. q.end - 1 => x.start <= i /\ i < x.end
          BY <1>1, <1>5, <2>2, <4>4
        <5> QED BY <4>1, <4>2, <5>1, <5>2
      <4> QED BY <4>3, <4>4
    <3>2. Free(D, a, q.end) \subseteq Int /\ Free(C, a, r.end) \subseteq Int
      BY <1>1 DEF Free
    <3> QED BY <3>1, <3>2
  <2>5. q.self = Cardinality(Free(D, a, q.end))
    BY <2>1, <2>4 DEF Seen
  <2>6. q.end >= a
    BY <1>1, <2>2 DEF Seen
  <2>7. \A y \in D : y.end <= q.end
    BY <1>1, <1>2, <2>2
  <2>8. \E y \in D : y.end = q.end
    BY <1>2, <2>2, <2>3
  <2> QED BY <1>2, <1>3, <2>5, <2>6, <2>7, <2>8 DEF Seen
<1> QED BY <1>4, <1>5

(* Sorting keeps the spans.                                                 *)
JoinRanges(E) == \A p, q \in Seq(E) : Range(p \o q) = Range(p) \cup Range(q)

LEMMA SortRange ==
    ASSUME NEW E, E \subseteq Spans
    PROVE  \A s \in Seq(E) : Range(SortByStart(s)) = Range(s)
<1>0. JoinRanges(E)
  BY RangeConcatenation DEF JoinRanges
<1>1. PICK G : G = {s \in Seq(E) : Range(SortByStart(s)) = Range(s)}
  OBVIOUS
<1>2. PICK U : U = {t \in Seq(E) : Sorted(t)}
  OBVIOUS
<1>3. <<>> \in U /\ \A u, y : u \in U /\ y \in E => Insert(u, y) \in U
  BY <1>2, InsertIs DEF Sorted
<1>4. <<>> \in G
  <2>1. PICK e : e = <<>> /\ e \in Seq(E)
    <3>1. <<>> \in Seq(E)
      OBVIOUS
    <3> QED BY <3>1
  <2>2. SortByStart(e) = e
    <3>1. SortByStart(e) \in Seq(E) /\ Len(SortByStart(e)) = Len(e)
      BY <2>1, SortIs
    <3> QED BY <2>1, <3>1, EmptySeq
  <2> QED BY <1>1, <2>1, <2>2
<1>5. ASSUME NEW s \in Seq(E), s \in G, NEW x \in E PROVE Append(s, x) \in G
  <2>1. PICK u \in Seq(E) : u = SortByStart(s)
    BY SortIs
  <2>2. SortByStart(Append(s, x)) = Insert(u, x)
    BY <1>3, <2>1, InsertAppend
  <2>3. Range(u) = Range(s)
    BY <1>1, <1>5, <2>1
  <2>4. PICK p \in Seq(E), q \in Seq(E) : u = p \o q /\ Insert(u, x) = Append(p, x) \o q
    <3>1. Parts(E, u, x)
      BY InsertBetween
    <3> QED BY <3>1 DEF Parts
  <2>5. PICK o : o = <<x>> /\ o \in Seq(E)
    <3>1. <<x>> \in Seq(E)
      OBVIOUS
    <3> QED BY <3>1
  <2>6. Append(p, x) = p \o o /\ Append(s, x) = s \o o /\ p \o o \in Seq(E)
    BY <2>5, AppendIsConcat, ConcatProperties
  <2>7. Range(p \o o) = Range(p) \cup Range(o) /\ Range(s \o o) = Range(s) \cup Range(o)
    <3>1. o \in Seq(E)
      BY <2>5
    <3> QED BY <1>0, <3>1 DEF JoinRanges
  <2>8. Range((p \o o) \o q) = Range(p \o o) \cup Range(q)
    <3>1. p \o o \in Seq(E)
      BY <2>6
    <3> QED BY <1>0, <3>1 DEF JoinRanges
  <2>9. Range(p \o q) = Range(p) \cup Range(q)
    BY <1>0 DEF JoinRanges
  <2>10. Append(s, x) \in Seq(E)
    OBVIOUS
  <2> QED BY <1>1, <2>2, <2>3, <2>4, <2>6, <2>7, <2>8, <2>9, <2>10
<1>6. \A s, x : s \in Seq(E) /\ s \in G /\ x \in E => Append(s, x) \in G
  BY <1>5
<1>7. \A s \in Seq(E) : s \in G
  BY <1>4, <1>6, OneByOne
<1> QED BY <1>1, <1>7

(* In the order of their starts, and not before h                           *)
Follow(h, t) == Sorted(t) /\ \A i \in 1..Len(t) : h.start <= t[i].start

(* The spans of a sorted sequence have been seen when it has been gone      *)
(* through.                                                                 *)
LEMMA CoverSeen ==
    ASSUME NEW a \in Nat, NEW h \in Spans, a <= h.start, NEW base \in Covers,
           Seen(base, {h}, a)
    PROVE  \A t \in Seq({x \in Spans : a <= x.start}) :
              Follow(h, t) => Seen(Cover(base, t), {h} \cup Range(t), a)
<1>1. PICK E : E = {x \in Spans : a <= x.start}
  OBVIOUS
<1>2. PICK G : G = {t \in Seq(E) :
                      Follow(h, t) => Seen(Cover(base, t), {h} \cup Range(t), a)}
  OBVIOUS
<1>3. PICK U : U = Covers
  OBVIOUS
<1>4. base \in U /\ \A u, x : u \in U /\ x \in E => Continue(u, x) \in U
  BY <1>1, <1>3, ContinueIn
<1>5. <<>> \in G
  <2>1. PICK e : e = <<>> /\ e \in Seq(E)
    <3>1. <<>> \in Seq(E)
      OBVIOUS
    <3> QED BY <3>1
  <2>2. h \in E
    BY <1>1
  <2>3. Cover(base, e) = base
    BY <1>4, <2>1, <2>2, ContinueAppend
  <2>4. Range(e) = {}
    BY <2>1 DEF Range
  <2> QED BY <1>2, <2>1, <2>3, <2>4
<1>6. ASSUME NEW t \in Seq(E), t \in G, NEW x \in E PROVE Append(t, x) \in G
  <2>1. PICK n \in Nat : n = Len(t) /\ DOMAIN t = 1..n /\ \A i \in 1..n : t[i] \in E
    BY LenProperties, ElementOfSeq
  <2>2. PICK v : v = Append(t, x) /\ v \in Seq(E)
    <3>1. Append(t, x) \in Seq(E)
      OBVIOUS
    <3> QED BY <3>1
  <2>3. /\ Len(v) = n + 1 /\ DOMAIN v = 1..(n + 1) /\ v[n + 1] = x
        /\ \A i \in 1..n : v[i] = t[i]
    BY <2>1, <2>2
  <2>4. Cover(base, v) = Continue(Cover(base, t), x)
    BY <1>4, <2>2, ContinueAppend
  <2>5. Range(v) = Range(t) \cup {x}
    <3>1. Range(t) = {t[i] : i \in 1..n}
      BY <2>1 DEF Range
    <3>2. Range(v) = {v[i] : i \in 1..(n + 1)}
      BY <2>3 DEF Range
    <3>3. \A i \in 1..(n + 1) : i \in 1..n \/ i = n + 1
      OBVIOUS
    <3>4. \A i \in 1..n : i \in 1..(n + 1)
      OBVIOUS
    <3>5. n + 1 \in 1..(n + 1)
      OBVIOUS
    <3> QED BY <2>3, <3>1, <3>2, <3>3, <3>4, <3>5
  <2>6. ASSUME Follow(h, v)
        PROVE  Seen(Cover(base, v), {h} \cup Range(v), a)
    <3>1. \A i, j \in 1..(n + 1) : i <= j => v[i].start <= v[j].start
      BY <2>3, <2>6 DEF Follow, Sorted
    <3>2. Follow(h, t)
      <4>1. \A i, j \in 1..n : i <= j => t[i].start <= t[j].start
        <5>1. \A i \in 1..n : i \in 1..(n + 1)
          OBVIOUS
        <5> QED BY <2>3, <3>1, <5>1
      <4>2. \A i \in 1..n : h.start <= t[i].start
        <5>1. \A i \in 1..n : i \in 1..(n + 1)
          OBVIOUS
        <5> QED BY <2>3, <2>6, <5>1 DEF Follow
      <4> QED BY <2>1, <4>1, <4>2 DEF Follow, Sorted
    <3>3. PICK C : C = {h} \cup Range(t)
      OBVIOUS
    <3>4. PICK r : r = Cover(base, t)
      OBVIOUS
    <3>5. Seen(r, C, a)
      BY <1>2, <1>6, <3>2, <3>3, <3>4
    <3>6. C \in SUBSET Spans
      BY <1>1, <2>1, <3>3 DEF Range
    <3>7. x \in Spans /\ a <= x.start
      BY <1>1
    <3>8. ASSUME NEW y \in C PROVE y.start <= x.start
      <4>1. n + 1 \in 1..(n + 1)
        OBVIOUS
      <4>2. CASE y = h
        BY <2>3, <2>6, <4>1, <4>2 DEF Follow
      <4>3. CASE y # h
        <5>1. PICK i \in 1..n : y = t[i]
          BY <2>1, <3>3, <3>8, <4>3 DEF Range
        <5>2. i \in 1..(n + 1) /\ i <= n + 1
          OBVIOUS
        <5> QED BY <2>3, <3>1, <4>1, <5>1, <5>2
      <4> QED BY <4>2, <4>3
    <3>9. Seen(Continue(r, x), C \cup {x}, a)
      BY <3>5, <3>6, <3>7, <3>8, ContinueSeen
    <3>10. {h} \cup Range(v) = C \cup {x}
      BY <2>5, <3>3
    <3> QED BY <2>4, <3>4, <3>9, <3>10
  <2> QED BY <1>2, <2>2, <2>6
<1>7. \A t, x : t \in Seq(E) /\ t \in G /\ x \in E => Append(t, x) \in G
  BY <1>6
<1>8. \A t \in Seq(E) : t \in G
  BY <1>5, <1>7, OneByOne
<1> QED BY <1>1, <1>2, <1>8
=============================================================================
