----------------------------- MODULE Payload_proof -----------------------------
(***************************************************************************)
(* Truncation does what its models say, for every event that is captured,  *)
(* all values at its paths, any lengths and any limit.                     *)
(*                                                                         *)
(* The hazard is that a nested model whose object is missing is applied to *)
(* the event itself.  The argument goes rule by rule (RuleApplied): what a *)
(* rule changed is within the limit, what is gone was empty, what is the   *)
(* placeholder was required and empty.  It needs of a model and an event   *)
(* that they suit each other (Suits): no rule of a nested model is about   *)
(* an object of the event, what is required by name is captured, and the   *)
(* rule that requires all of an object comes after one that has dropped    *)
(* the empty values it would otherwise find in the event.  The second half *)
(* shows that the models of truncate.js suit what is captured.             *)
(*                                                                         *)
(* The last part is about the names of the intake: that the compressed     *)
(* object of any such event can be read back (WireAlwaysReadsBack).        *)
(***************************************************************************)
EXTENDS Payload, SequenceTheorems, FiniteSetTheorems, WellFoundedInduction, TLAPS

-----------------------------------------------------------------------------
(* Induction *)

(* A set of natural numbers has a least element. *)
LEMMA Least ==
    ASSUME NEW A, A \subseteq Nat, A # {}
    PROVE  \E n \in A : \A m \in A : n <= m
<1>1. PICK n \in A : \A m \in A : ~(<<m, n>> \in OpToRel(<,Nat))
  BY NatLessThanWellFounded, WFMin
<1>2. \A m \in A : ~(m < n)
  BY <1>1 DEF OpToRel
<1> QED BY <1>2

(* A bounded one has a greatest. *)
LEMMA MaxIs ==
    ASSUME NEW n \in Nat, NEW S \in SUBSET (0..n), S # {}
    PROVE  Max(S) \in S /\ \A i \in S : i <= Max(S)
<1>1. \E m \in S : \A i \in S : i <= m
  <2>1. \A i \in S : i \in Nat /\ i <= n
    OBVIOUS
  <2>2. PICK C : C = {n - i : i \in S}
    OBVIOUS
  <2>3. C \subseteq Nat /\ C # {}
    <3>1. \A i \in S : n - i \in Nat
      BY <2>1
    <3>2. PICK i \in S : TRUE
      OBVIOUS
    <3>3. n - i \in C
      BY <2>2
    <3> QED BY <2>2, <3>1, <3>3
  <2>4. PICK c \in C : \A d \in C : c <= d
    BY <2>3, Least
  <2>5. PICK m \in S : c = n - m
    BY <2>2
  <2>6. ASSUME NEW i \in S PROVE i <= m
    <3>1. n - i \in C
      BY <2>2
    <3>2. n - m <= n - i
      BY <2>4, <2>5, <3>1
    <3> QED BY <2>1, <3>2
  <2> QED BY <2>6
<1>2. \E m \in S : \A i \in S : m >= i
  BY <1>1
<1> QED BY <1>2 DEF Max

(* What holds first, and of each number after the one before, holds always: *)
(* the numbers are those it holds of.                                       *)
LEMMA Stepwise ==
    ASSUME NEW n \in Nat, NEW Holds,
           0 \in Holds, \A i \in 1..n : i - 1 \in Holds => i \in Holds
    PROVE  \A i \in 0..n : i \in Holds
<1> SUFFICES ASSUME NEW j \in 0..n, j \notin Holds PROVE FALSE
  OBVIOUS
<1> DEFINE Bad == {i \in 0..n : i \notin Holds}
<1>1. Bad \subseteq Nat /\ Bad # {}
  OBVIOUS
<1>2. PICK m \in Bad : \A i \in Bad : m <= i
  BY <1>1, Least
<1>3. m # 0 /\ m \in 1..n /\ m - 1 \in 0..n
  BY <1>2
<1>4. m - 1 \notin Bad
  BY <1>2, <1>3
<1> QED BY <1>2, <1>3, <1>4

(* A sequence of values that stays in a set *)
LEMMA ChainIn ==
    ASSUME NEW n \in Nat, NEW U, NEW c, c[0] \in U,
           \A i \in 1..n : c[i - 1] \in U => c[i] \in U
    PROVE  \A i \in 0..n : c[i] \in U
<1> DEFINE Holds == {i \in 0..n : c[i] \in U}
<1>1. 0 \in Holds /\ \A i \in 1..n : i - 1 \in Holds => i \in Holds
  OBVIOUS
<1> HIDE DEF Holds
<1>2. \A i \in 0..n : i \in Holds
  BY <1>1, Stepwise
<1> QED BY <1>2 DEF Holds

-----------------------------------------------------------------------------
(* Folds *)

(* The fold of a sequence is defined over the sets of its indices, from the *)
(* greatest index down.  There is a function with that recursion.           *)
Folds(f, n, base, step) ==
    \A S \in SUBSET (1..n) :
       f[S] = IF S = {} THEN base ELSE step[<<f[S \ {Max(S)}], Max(S)>>]

(* There are chains of folds. *)
LEMMA FoldExists ==
    ASSUME NEW n \in Nat, NEW U, NEW base \in U, NEW step \in [U \X (1..n) -> U]
    PROVE  \E f \in [SUBSET (1..n) -> U] : Folds(f, n, base, step)
<1> DEFINE D == 1..n
           Small(k) == {S \in SUBSET D : Cardinality(S) <= k}
           Good(f, k) ==
              /\ f \in [Small(k) -> U]
              /\ \A S \in Small(k) : f[S] = IF S = {} THEN base
                                      ELSE step[<<f[S \ {Max(S)}], Max(S)>>]
           Holds == {k \in Nat : \E f : Good(f, k)}
<1>1. \A S \in SUBSET D : /\ IsFiniteSet(S) /\ Cardinality(S) \in Nat
                          /\ Cardinality(S) <= n /\ (Cardinality(S) = 0 <=> S = {})
  <2>1. IsFiniteSet(D) /\ Cardinality(D) = n
    BY FS_Interval
  <2>2. \A S \in SUBSET D : IsFiniteSet(S) /\ Cardinality(S) <= Cardinality(D)
    BY <2>1, FS_Subset
  <2> QED BY <2>1, <2>2, FS_CardinalityType, FS_EmptySet
<1>2. ASSUME NEW k \in Nat, NEW S \in Small(k + 1), S # {}
      PROVE  S \ {Max(S)} \in Small(k) /\ Max(S) \in D
  <2>1. S \in SUBSET (0..n) /\ Max(S) \in S
    <3>1. S \in SUBSET (0..n)
      OBVIOUS
    <3> QED BY <1>2, <3>1, MaxIs
  <2>2. Cardinality(S \ {Max(S)}) = Cardinality(S) - 1
    BY <1>1, <1>2, <2>1, FS_RemoveElement
  <2>3. S \in SUBSET D /\ Cardinality(S) <= k + 1 /\ Cardinality(S) \in Nat
    BY <1>1
  <2>4. Cardinality(S \ {Max(S)}) <= k
    BY <2>2, <2>3
  <2> QED BY <2>1, <2>3, <2>4
<1>3. 0 \in Holds
  <2>1. Small(0) = {{}}
    BY <1>1
  <2>2. PICK g : g = [S \in Small(0) |-> base]
    OBVIOUS
  <2> HIDE DEF Small
  <2>3. Good(g, 0)
    BY <2>1, <2>2
  <2> QED BY <2>3
<1>4. ASSUME NEW m \in 1..n, m - 1 \in Holds PROVE m \in Holds
  <2>1. PICK j \in Nat : m = j + 1
    OBVIOUS
  <2>2. PICK f : Good(f, j)
    <3>1. m - 1 = j
      BY <2>1
    <3> QED BY <1>4, <3>1
  <2>3. Small(j) \subseteq Small(m)
    BY <1>1, <2>1
  <2>4. PICK g : g = [S \in Small(m) |-> IF S = {} THEN base
                          ELSE step[<<f[S \ {Max(S)}], Max(S)>>]]
    OBVIOUS
  <2>5. ASSUME NEW S \in Small(m), S # {}
        PROVE  S \ {Max(S)} \in Small(j) /\ Max(S) \in D
    BY <1>2, <2>1, <2>5
  <2> HIDE DEF Small
  <2>6. g \in [Small(m) -> U]
    BY <2>2, <2>4, <2>5
  <2>7. \A S \in Small(j) : g[S] = f[S]
    BY <2>2, <2>3, <2>4
  <2>8. Good(g, m)
    BY <2>4, <2>5, <2>6, <2>7
  <2> QED BY <2>8
<1>5. n \in Holds
  <2> HIDE DEF Holds
  <2>1. n \in 0..n
    OBVIOUS
  <2> QED BY <1>3, <1>4, <2>1, Stepwise
<1>6. PICK f : Good(f, n)
  BY <1>5
<1>7. Small(n) = SUBSET D
  BY <1>1
<1> HIDE DEF Small
<1> QED BY <1>6, <1>7 DEF Folds

(* The first i indices without their greatest *)
LEMMA FirstIndices ==
    ASSUME NEW n \in Nat
    PROVE  /\ 1..0 = {}
           /\ \A i \in 1..n : /\ Max(1..i) = i /\ (1..i) \ {i} = 1..(i - 1)
                              /\ 1..i \in SUBSET (1..n) /\ 1..i # {}
<1>1. ASSUME NEW i \in 1..n PROVE Max(1..i) = i
  <2>1. 1..i \in SUBSET (0..n) /\ i \in 1..i
    OBVIOUS
  <2>2. Max(1..i) \in 1..i /\ i <= Max(1..i)
    BY <2>1, MaxIs
  <2> QED BY <2>2
<1>2. ASSUME NEW i \in 1..n
      PROVE  (1..i) \ {i} = 1..(i - 1) /\ 1..i \in SUBSET (1..n) /\ 1..i # {}
  <2>1. i \in Nat /\ i <= n /\ 1 <= i
    OBVIOUS
  <2>2. i \in 1..i
    BY <2>1
  <2> QED BY <2>1, <2>2
<1>3. 1..0 = {}
  OBVIOUS
<1> QED BY <1>1, <1>2, <1>3

(* The last index of a sequence is the greatest. *)
LEMMA GreatestIndex ==
    ASSUME NEW n \in Nat, NEW S \in SUBSET (1..n), S # {}
    PROVE  Max(S) \in 1..n /\ S \ {Max(S)} \in SUBSET (1..n)
<1>1. S \in SUBSET (0..n)
  OBVIOUS
<1> QED BY <1>1, MaxIs

(* The values of a fold, from the first one to the last *)
Chain(c, s, first, last, next) ==
    /\ c[0] = first /\ c[Len(s)] = last
    /\ \A i \in 1..Len(s) : c[i] = next[i]

(* The rules of a model are applied one by one. *)
LEMMA RuleSteps ==
    ASSUME NEW base, NEW E, NEW s \in Seq(E), NEW U, base \in U,
           \A u, x : u \in U /\ x \in E => replaceValue(u, x) \in U
    PROVE  \E c \in [0..Len(s) -> U] :
              Chain(c, s, base, truncateModel(s, base),
                    [i \in 1..Len(s) |-> replaceValue(c[i - 1], s[i])])
<1> DEFINE F == CHOOSE f : f = [S \in SUBSET DOMAIN s |-> IF S = {} THEN base
                               ELSE replaceValue(f[S \ {Max(S)}], s[Max(S)])]
<1>1. truncateModel(s, base) = F[DOMAIN s]
  BY Zenon DEF FoldLeft, MapThenFoldSet, truncateModel
<1> HIDE DEF F
<1>2. PICK n \in Nat : n = Len(s) /\ DOMAIN s = 1..n /\ \A i \in 1..n : s[i] \in E
  BY LenProperties, ElementOfSeq
<1>3. PICK step : step = [p \in U \X (1..n) |-> replaceValue(p[1], s[p[2]])]
  OBVIOUS
<1>4. /\ step \in [U \X (1..n) -> U]
      /\ \A u \in U, i \in 1..n : step[<<u, i>>] = replaceValue(u, s[i])
  BY <1>2, <1>3
<1>5. PICK h \in [SUBSET (1..n) -> U] : Folds(h, n, base, step)
  BY <1>4, FoldExists
<1>6. \A S \in SUBSET (1..n) : S # {} =>
        Max(S) \in 1..n /\ S \ {Max(S)} \in SUBSET (1..n)
  BY <1>2, GreatestIndex
<1>7. h = [S \in SUBSET DOMAIN s |-> IF S = {} THEN base
                                    ELSE replaceValue(h[S \ {Max(S)}], s[Max(S)])]
  BY <1>2, <1>4, <1>5, <1>6 DEF Folds
<1>8. F = [S \in SUBSET DOMAIN s |-> IF S = {} THEN base
                                    ELSE replaceValue(F[S \ {Max(S)}], s[Max(S)])]
  BY <1>7 DEF F
<1>9. PICK G : G = F
  OBVIOUS
<1>10. /\ G[{}] = base
       /\ \A S \in SUBSET (1..n) : S # {} =>
             G[S] = replaceValue(G[S \ {Max(S)}], s[Max(S)])
  BY <1>2, <1>8, <1>9
<1>11. PICK c : c = [i \in 0..n |-> G[1..i]]
  OBVIOUS
<1>12. c[0] = base /\ c[n] = truncateModel(s, base)
  <2>1. 1..0 = {} /\ 0 \in 0..n /\ n \in 0..n
    OBVIOUS
  <2> QED BY <1>1, <1>2, <1>9, <1>10, <1>11, <2>1
<1>13. ASSUME NEW i \in 1..n PROVE c[i] = replaceValue(c[i - 1], s[i])
  <2>1. c[i] = G[1..i] /\ c[i - 1] = G[1..(i - 1)]
    BY <1>11
  <2>2. /\ Max(1..i) = i /\ (1..i) \ {i} = 1..(i - 1)
        /\ 1..i \in SUBSET (1..n) /\ 1..i # {}
    BY FirstIndices
  <2> QED BY <1>10, <2>1, <2>2
<1>14. \A i \in 0..n : c[i] \in U
  <2>1. \A i \in 1..n : c[i - 1] \in U => c[i] \in U
    BY <1>2, <1>13
  <2> QED BY <1>12, <2>1, ChainIn
<1>15. /\ c \in [0..Len(s) -> U] /\ c[0] = base /\ c[Len(s)] = truncateModel(s, base)
       /\ \A i \in 1..Len(s) : c[i] = replaceValue(c[i - 1], s[i])
  BY <1>2, <1>11, <1>12, <1>13, <1>14
<1> QED BY <1>15 DEF Chain

(* One object deeper, if it is there *)
Deeper(d, o, k) == IF Append(o, k) \in d.objects THEN Append(o, k) ELSE <<>>

(* The object of a nested model is looked up key by key. *)
LEMMA TargetSteps ==
    ASSUME NEW d, NEW E, NEW s \in Seq(E), NEW U, <<>> \in U,
           \A u, x : u \in U /\ x \in E => Deeper(d, u, x) \in U
    PROVE  \E c \in [0..Len(s) -> U] :
              Chain(c, s, <<>>, childTarget(d, s),
                    [i \in 1..Len(s) |-> Deeper(d, c[i - 1], s[i])])
<1> DEFINE F == CHOOSE f : f = [S \in SUBSET DOMAIN s |-> IF S = {} THEN <<>>
                               ELSE Deeper(d, f[S \ {Max(S)}], s[Max(S)])]
<1>1. childTarget(d, s) = F[DOMAIN s]
  BY Zenon DEF FoldLeft, MapThenFoldSet, childTarget, Deeper
<1> HIDE DEF F
<1>2. PICK n \in Nat : n = Len(s) /\ DOMAIN s = 1..n /\ \A i \in 1..n : s[i] \in E
  BY LenProperties, ElementOfSeq
<1>3. PICK step : step = [p \in U \X (1..n) |-> Deeper(d, p[1], s[p[2]])]
  OBVIOUS
<1>4. /\ step \in [U \X (1..n) -> U]
      /\ \A u \in U, i \in 1..n : step[<<u, i>>] = Deeper(d, u, s[i])
  BY <1>2, <1>3
<1>5. PICK h \in [SUBSET (1..n) -> U] : Folds(h, n, <<>>, step)
  BY <1>4, FoldExists
<1>6. \A S \in SUBSET (1..n) : S # {} =>
        Max(S) \in 1..n /\ S \ {Max(S)} \in SUBSET (1..n)
  BY <1>2, GreatestIndex
<1>7. h = [S \in SUBSET DOMAIN s |-> IF S = {} THEN <<>>
                                    ELSE Deeper(d, h[S \ {Max(S)}], s[Max(S)])]
  BY <1>2, <1>4, <1>5, <1>6 DEF Folds
<1>8. F = [S \in SUBSET DOMAIN s |-> IF S = {} THEN <<>>
                                    ELSE Deeper(d, F[S \ {Max(S)}], s[Max(S)])]
  BY <1>7 DEF F
<1>9. PICK G : G = F
  OBVIOUS
<1>10. /\ G[{}] = <<>>
       /\ \A S \in SUBSET (1..n) : S # {} =>
             G[S] = Deeper(d, G[S \ {Max(S)}], s[Max(S)])
  BY <1>2, <1>8, <1>9
<1>11. PICK c : c = [i \in 0..n |-> G[1..i]]
  OBVIOUS
<1>12. c[0] = <<>> /\ c[n] = childTarget(d, s)
  <2>1. 1..0 = {} /\ 0 \in 0..n /\ n \in 0..n
    OBVIOUS
  <2> QED BY <1>1, <1>2, <1>9, <1>10, <1>11, <2>1
<1>13. ASSUME NEW i \in 1..n PROVE c[i] = Deeper(d, c[i - 1], s[i])
  <2>1. c[i] = G[1..i] /\ c[i - 1] = G[1..(i - 1)]
    BY <1>11
  <2>2. /\ Max(1..i) = i /\ (1..i) \ {i} = 1..(i - 1)
        /\ 1..i \in SUBSET (1..n) /\ 1..i # {}
    BY FirstIndices
  <2> QED BY <1>10, <2>1, <2>2
<1>14. \A i \in 0..n : c[i] \in U
  <2>1. \A i \in 1..n : c[i - 1] \in U => c[i] \in U
    BY <1>2, <1>13
  <2> QED BY <1>12, <2>1, ChainIn
<1>15. /\ c \in [0..Len(s) -> U] /\ c[0] = <<>> /\ c[Len(s)] = childTarget(d, s)
       /\ \A i \in 1..Len(s) : c[i] = Deeper(d, c[i - 1], s[i])
  BY <1>2, <1>11, <1>12, <1>13, <1>14
<1> QED BY <1>15 DEF Chain

(* The prefixes of a sequence *)
LEMMA PrefixesAre ==
    ASSUME NEW E, NEW s \in Seq(E)
    PROVE  /\ SubSeq(s, 1, 0) = <<>> /\ SubSeq(s, 1, Len(s)) = s
           /\ \A i \in 0..Len(s) : SubSeq(s, 1, i) \in Seq(E)
           /\ \A i \in 1..Len(s) : SubSeq(s, 1, i) = Append(SubSeq(s, 1, i - 1), s[i])
<1>1. PICK n \in Nat : n = Len(s) /\ \A i \in 1..n : s[i] \in E
  BY LenProperties, ElementOfSeq
<1>2. SubSeq(s, 1, 0) = <<>> /\ SubSeq(s, 1, n) = s
  BY <1>1
<1>3. ASSUME NEW i \in 0..n PROVE SubSeq(s, 1, i) \in Seq(E)
  BY <1>1
<1>4. ASSUME NEW i \in 1..n PROVE SubSeq(s, 1, i) = Append(SubSeq(s, 1, i - 1), s[i])
  <2>1. PICK p : p = SubSeq(s, 1, i - 1)
    OBVIOUS
  <2>2. p \in Seq(E) /\ Len(p) = i - 1 /\ \A j \in 1..(i - 1) : p[j] = s[j]
    BY <1>1, <2>1
  <2>3. PICK q : q = Append(p, s[i])
    OBVIOUS
  <2>4. /\ q \in Seq(E) /\ Len(q) = i /\ q[i] = s[i]
        /\ \A j \in 1..(i - 1) : q[j] = s[j]
    BY <1>1, <2>2, <2>3
  <2>5. PICK r : r = SubSeq(s, 1, i)
    OBVIOUS
  <2>6. r \in Seq(E) /\ Len(r) = i /\ \A j \in 1..i : r[j] = s[j]
    BY <1>1, <2>5
  <2>7. \A j \in 1..i : r[j] = q[j]
    BY <2>4, <2>6
  <2> QED BY <2>1, <2>3, <2>4, <2>5, <2>6, <2>7, SeqEqual
<1> QED BY <1>1, <1>2, <1>3, <1>4

-----------------------------------------------------------------------------
(* The values of an object, and the rules of a model                       *)

(* What follows is about any object, with any values at its paths, whose    *)
(* keys are of some set W; "N/A" is the path of the placeholder only.       *)
Kinds == {"string", "number", "undefined"}
ValueOf(P) == [of : P, is : Kinds, len : Nat]
ObjectOf(O, W, P) ==
    [objects : {O}, values : UNION {[D -> ValueOf(P)] : D \in SUBSET Seq(W)}]
RuleOf(W) == [at : Seq(W), key : W, required : BOOLEAN]

(* A value within the limit; shortening makes one of any, and of nothing    *)
(* else than the length.                                                    *)
Within(v) == v.is = "string" => v.len <= KeywordLimit

(* What shortening does to a value *)
LEMMA ShortenIs ==
    ASSUME NEW P, NEW v \in ValueOf(P)
    PROVE  /\ Shorten(v) \in ValueOf(P) /\ Within(Shorten(v))
           /\ Shorten(v).of = v.of
           /\ Within(v) => Shorten(v) = v
           /\ isEmpty(Shorten(v)) <=> isEmpty(v)
<1>1. KeywordLimit \in Nat /\ KeywordLimit > 0
  BY PayloadAssumption
<1>2. v.of \in P /\ v.is \in Kinds /\ v.len \in Nat
  BY DEF ValueOf
<1>3. PICK h : h = [v EXCEPT !.len = KeywordLimit]
  OBVIOUS
<1>4. h \in ValueOf(P) /\ h.of = v.of /\ h.is = v.is /\ h.len = KeywordLimit
  BY <1>1, <1>3 DEF ValueOf
<1>5. CASE v.is = "string" /\ v.len > KeywordLimit
  <2>1. Shorten(v) = h
    BY <1>3, <1>5 DEF Shorten
  <2> QED BY <1>1, <1>2, <1>4, <1>5, <2>1 DEF Within, isEmpty
<1>6. CASE ~(v.is = "string" /\ v.len > KeywordLimit)
  <2>1. Shorten(v) = v
    BY <1>6 DEF Shorten
  <2> QED BY <1>1, <1>2, <1>6, <2>1 DEF Within
<1> QED BY <1>5, <1>6

(* The placeholder is a value, and not an empty one. *)
LEMMA PlaceholderIs ==
    ASSUME NEW P, <<"N/A">> \in P
    PROVE  /\ Placeholder \in ValueOf(P) /\ Placeholder.of = <<"N/A">>
           /\ ~isEmpty(Placeholder)
BY DEF Placeholder, Value, ValueOf, Kinds, isEmpty

(* What truncation does to a value: a required one is never empty. *)
LEMMA TruncateIs ==
    ASSUME NEW P, <<"N/A">> \in P, NEW v \in ValueOf(P), NEW required \in BOOLEAN
    PROVE  /\ truncate(v, required) \in ValueOf(P)
           /\ Within(truncate(v, required))
           /\ IF required /\ isEmpty(v) THEN truncate(v, required) = Shorten(Placeholder)
              ELSE truncate(v, required) = Shorten(v)
           /\ required => ~isEmpty(truncate(v, required))
<1>1. Placeholder \in ValueOf(P) /\ ~isEmpty(Placeholder)
  BY PlaceholderIs
<1>2. CASE required /\ isEmpty(v)
  <2>1. truncate(v, required) = Shorten(Placeholder)
    BY <1>2 DEF truncate
  <2>2. /\ Shorten(Placeholder) \in ValueOf(P) /\ Within(Shorten(Placeholder))
        /\ ~isEmpty(Shorten(Placeholder))
    BY <1>1, ShortenIs
  <2> QED BY <1>2, <2>1, <2>2
<1>3. CASE ~(required /\ isEmpty(v))
  <2>1. truncate(v, required) = Shorten(v)
    BY <1>3 DEF truncate
  <2>2. /\ Shorten(v) \in ValueOf(P) /\ Within(Shorten(v))
        /\ isEmpty(Shorten(v)) <=> isEmpty(v)
    BY ShortenIs
  <2> QED BY <1>3, <2>1, <2>2
<1> QED BY <1>2, <1>3

(* What is at a path: nothing is empty. *)
LEMMA ValueAtIs ==
    ASSUME NEW O, NEW W, NEW P, Seq(W) \subseteq P, NEW d \in ObjectOf(O, W, P),
           NEW p \in Seq(W)
    PROVE  /\ ValueAt(d, p) \in ValueOf(P)
           /\ p \notin DOMAIN d.values => isEmpty(ValueAt(d, p))
<1>1. PICK D \in SUBSET Seq(W) : d.values \in [D -> ValueOf(P)]
  BY DEF ObjectOf
<1>2. CASE p \in DOMAIN d.values
  BY <1>1, <1>2 DEF ValueAt
<1>3. CASE p \notin DOMAIN d.values
  <2>1. ValueAt(d, p) = [of |-> p, is |-> "undefined", len |-> 0]
    BY <1>3 DEF ValueAt, Undefined, Value
  <2>2. p \in P
    OBVIOUS
  <2> QED BY <1>3, <2>1, <2>2 DEF ValueOf, Kinds, isEmpty
<1> QED BY <1>2, <1>3

(* The object a rule is applied to is one of the event.                     *)
LEMMA TargetIn ==
    ASSUME NEW O, NEW W, NEW P, O \subseteq Seq(W), NEW d \in ObjectOf(O, W, P),
           NEW at \in Seq(W)
    PROVE  childTarget(d, at) \in O \cup {<<>>}
<1>1. d.objects = O
  BY DEF ObjectOf
<1>2. PICK U : U = O \cup {<<>>}
  OBVIOUS
<1>3. \A u, x : u \in U /\ x \in W => Deeper(d, u, x) \in U
  BY <1>1, <1>2 DEF Deeper
<1>4. <<>> \in U
  BY <1>2
<1>5. PICK c \in [0..Len(at) -> U] :
        Chain(c, at, <<>>, childTarget(d, at),
              [i \in 1..Len(at) |-> Deeper(d, c[i - 1], at[i])])
  BY <1>3, <1>4, TargetSteps
<1>6. Len(at) \in Nat
  OBVIOUS
<1>7. c[Len(at)] \in U
  BY <1>5, <1>6
<1> QED BY <1>2, <1>5, <1>7 DEF Chain

(* What one rule makes of an object d: targets are truncated, and disappear *)
(* when they are empty then; everything else stays.                         *)
Replaced(d, e, targets, required) ==
    /\ e.objects = d.objects
    /\ \A p \in DOMAIN e.values :
         IF p \in targets
         THEN /\ e.values[p] = truncate(ValueAt(d, p), required)
              /\ ~isEmpty(e.values[p])
         ELSE p \in DOMAIN d.values /\ e.values[p] = d.values[p]
    /\ \A p \in DOMAIN d.values \cup targets :
         p \in DOMAIN e.values \/ (p \in targets /\ isEmpty(truncate(ValueAt(d, p), required)))

(* One rule replaces its targets, and keeps the object an object. *)
LEMMA ReplaceIs ==
    ASSUME NEW O, NEW W, NEW P, O \subseteq Seq(W), <<>> \in Seq(W), Seq(W) \subseteq P,
           <<"N/A">> \in P, NEW d \in ObjectOf(O, W, P), NEW r \in RuleOf(W)
    PROVE  /\ Targets(d, r) \subseteq Seq(W)
           /\ replaceValue(d, r) \in ObjectOf(O, W, P)
           /\ Replaced(d, replaceValue(d, r), Targets(d, r), r.required)
<1>1. PICK D \in SUBSET Seq(W) : d.values \in [D -> ValueOf(P)]
  BY DEF ObjectOf
<1>2. r.at \in Seq(W) /\ r.key \in W /\ r.required \in BOOLEAN
  BY DEF RuleOf
<1>3. PICK o : o = childTarget(d, r.at)
  OBVIOUS
<1>4. o \in Seq(W)
  BY <1>2, <1>3, TargetIn
<1>5. PICK T : T = Targets(d, r)
  OBVIOUS
<1>6. T \subseteq Seq(W)
  <2>1. Append(o, r.key) \in Seq(W)
    BY <1>2, <1>4
  <2> QED BY <1>1, <1>3, <1>5, <2>1 DEF Targets
<1> DEFINE New(p) == IF p \in T THEN truncate(ValueAt(d, p), r.required) ELSE d.values[p]
           kept == {p \in DOMAIN d.values \cup T : p \in T => ~isEmpty(New(p))}
<1>7. PICK e : e = replaceValue(d, r)
  OBVIOUS
<1>8. e = [d EXCEPT !.values = [p \in kept |-> New(p)]]
  BY <1>5, <1>7 DEF replaceValue
<1>9. \A p \in kept : New(p) \in ValueOf(P)
  <2>1. ASSUME NEW p \in kept PROVE New(p) \in ValueOf(P)
    <3>1. CASE p \in T
      <4>1. ValueAt(d, p) \in ValueOf(P)
        BY <1>6, <3>1, ValueAtIs
      <4>2. truncate(ValueAt(d, p), r.required) \in ValueOf(P)
        BY <1>2, <4>1, TruncateIs
      <4> QED BY <3>1, <4>2
    <3>2. CASE p \notin T
      BY <1>1, <3>2
    <3> QED BY <3>1, <3>2
  <2> QED BY <2>1
<1>10. PICK f : f = [p \in kept |-> New(p)]
  OBVIOUS
<1>11. kept \subseteq Seq(W)
  BY <1>1, <1>6
<1>12. f \in [kept -> ValueOf(P)]
  <2> HIDE DEF kept, New
  <2> QED BY <1>9, <1>10
<1>13. e.objects = O /\ e.values = f /\ d.objects = O /\ e \in ObjectOf(O, W, P)
  <2>1. e = [d EXCEPT !.values = f]
    BY <1>8, <1>10
  <2>2. f \in UNION {[K -> ValueOf(P)] : K \in SUBSET Seq(W)}
    <3> HIDE DEF kept
    <3> QED BY <1>11, <1>12
  <2> HIDE DEF kept, New
  <2> QED BY <2>1, <2>2 DEF ObjectOf
<1>14. DOMAIN e.values = kept /\ \A p \in kept : e.values[p] = New(p)
  <2> HIDE DEF kept, New
  <2> QED BY <1>10, <1>13
<1>15. Replaced(d, e, T, r.required)
  BY <1>13, <1>14 DEF Replaced
<1> QED BY <1>5, <1>6, <1>7, <1>13, <1>15
-----------------------------------------------------------------------------
(* Rule by rule *)

(* A nested model is applied to the object it is about or, when that is     *)
(* missing, to the event.                                                   *)
At(O, r) == IF r.at \in O THEN r.at ELSE <<>>

Concerns(O, r, p) ==
    IF r.key = "*" THEN Front(p) = At(O, r) ELSE p = Append(At(O, r), r.key)

(* The objects in an object, and no rule of a nested model that is about an *)
(* object of the event itself                                               *)
Closed(O) == \A q \in O : \A n \in 0..Len(q) : SubSeq(q, 1, n) \in O
Nests(O, at) == \A k \in 2..Len(at) : <<at[k]>> \notin O

(* Key by key childTarget finds the object or ends at the event. *)
LEMMA TargetIs ==
    ASSUME NEW O, NEW W, NEW P, O \subseteq Seq(W), NEW d \in ObjectOf(O, W, P),
           NEW at \in Seq(W), Closed(O), Nests(O, at)
    PROVE  childTarget(d, at) = IF at \in O THEN at ELSE <<>>
<1>1. d.objects = O
  BY DEF ObjectOf
<1>2. PICK U : U = O \cup {<<>>}
  OBVIOUS
<1>3. \A u, x : u \in U /\ x \in W => Deeper(d, u, x) \in U
  BY <1>1, <1>2 DEF Deeper
<1>4. <<>> \in U
  BY <1>2
<1>5. PICK c \in [0..Len(at) -> U] :
        Chain(c, at, <<>>, childTarget(d, at),
              [i \in 1..Len(at) |-> Deeper(d, c[i - 1], at[i])])
  BY <1>3, <1>4, TargetSteps
<1>6. PICK n \in Nat : n = Len(at)
  OBVIOUS
<1>7. /\ c[0] = <<>> /\ c[n] = childTarget(d, at)
      /\ \A i \in 1..n : c[i] = Deeper(d, c[i - 1], at[i])
  BY <1>5, <1>6 DEF Chain
<1>8. PICK pre : pre = [i \in 0..n |-> SubSeq(at, 1, i)]
  OBVIOUS
<1>9. /\ pre[0] = <<>> /\ pre[n] = at
      /\ \A i \in 1..n : pre[i] = Append(pre[i - 1], at[i])
      /\ \A i \in 0..n : pre[i] \in Seq(W)
  <2>1. /\ SubSeq(at, 1, 0) = <<>> /\ SubSeq(at, 1, n) = at
        /\ \A i \in 0..n : SubSeq(at, 1, i) \in Seq(W)
        /\ \A i \in 1..n : SubSeq(at, 1, i) = Append(SubSeq(at, 1, i - 1), at[i])
    BY <1>6, PrefixesAre
  <2>2. \A i \in 0..n : pre[i] = SubSeq(at, 1, i)
    BY <1>8
  <2>3. 0 \in 0..n /\ n \in 0..n /\ \A i \in 1..n : i \in 0..n /\ i - 1 \in 0..n
    OBVIOUS
  <2> QED BY <2>1, <2>2, <2>3
<1>10. \A i \in 1..n : pre[i] \in O => pre[i - 1] \in O
  <2> SUFFICES ASSUME NEW i \in 1..n, pre[i] \in O PROVE pre[i - 1] \in O
    OBVIOUS
  <2>1. PICK q \in O : q = pre[i]
    OBVIOUS
  <2>2. q \in Seq(W) /\ Len(q) = i /\ \A j \in 1..i : q[j] = at[j]
    <3>1. i \in 0..n
      OBVIOUS
    <3>2. q = SubSeq(at, 1, i)
      BY <1>8, <2>1, <3>1
    <3> QED BY <1>6, <3>2
  <2>3. PICK s : s = SubSeq(q, 1, i - 1)
    OBVIOUS
  <2>4. s \in O
    BY <2>2, <2>3 DEF Closed
  <2>5. s \in Seq(W) /\ Len(s) = i - 1 /\ \A j \in 1..(i - 1) : s[j] = at[j]
    BY <2>2, <2>3
  <2>6. PICK t : t = SubSeq(at, 1, i - 1)
    OBVIOUS
  <2>7. t \in Seq(W) /\ Len(t) = i - 1 /\ \A j \in 1..(i - 1) : t[j] = at[j]
    BY <1>6, <2>6
  <2>8. s = t
    BY <2>5, <2>7, SeqEqual
  <2>9. pre[i - 1] = t
    <3>1. i - 1 \in 0..n
      OBVIOUS
    <3> QED BY <1>8, <2>6, <3>1
  <2> QED BY <2>4, <2>8, <2>9
<1> DEFINE Holds == {i \in 0..n : c[i] = IF pre[i] \in O THEN pre[i] ELSE <<>>}
<1>11. 0 \in Holds
  BY <1>7, <1>9
<1>12. ASSUME NEW i \in 1..n, i - 1 \in Holds PROVE i \in Holds
  <2>1. /\ i \in 0..n /\ pre[i] = Append(pre[i - 1], at[i])
        /\ c[i] = IF Append(c[i - 1], at[i]) \in O THEN Append(c[i - 1], at[i]) ELSE <<>>
    BY <1>1, <1>7, <1>9 DEF Deeper
  <2>2. CASE pre[i - 1] \in O
    <3>1. c[i - 1] = pre[i - 1]
      BY <1>12, <2>2
    <3> QED BY <2>1, <3>1
  <2>3. CASE pre[i - 1] \notin O /\ i = 1
    <3>1. c[i - 1] = pre[i - 1]
      BY <1>7, <1>9, <2>3
    <3> QED BY <2>1, <3>1
  <2>4. CASE pre[i - 1] \notin O /\ i # 1
    <3>1. c[i - 1] = <<>> /\ pre[i] \notin O
      BY <1>10, <1>12, <2>4
    <3>2. at[i] \in W /\ <<at[i]>> \notin O
      BY <1>6, <2>4 DEF Nests
    <3>3. Append(<<>>, at[i]) = <<at[i]>>
      BY <3>2
    <3> QED BY <2>1, <3>1, <3>2, <3>3
  <2> QED BY <2>2, <2>3, <2>4
<1>13. \A i \in 0..n : i \in Holds
  <2> HIDE DEF Holds
  <2> QED BY <1>11, <1>12, Stepwise
<1>14. n \in Holds
  BY <1>13
<1> QED BY <1>7, <1>9, <1>14
(* A model m, and an object b that has what it requires, with objects O:    *)
(* the required values that m names are in b; those of an object of which   *)
(* all are required are of no other rule before, and when the object is     *)
(* missing a rule before has dropped the empty values of the event.         *)
Suits(m, b, O, W, P) ==
    /\ O \subseteq Seq(W) /\ Closed(O)
    /\ Seq(W) \subseteq P /\ <<"N/A">> \in P
    /\ m \in Seq(RuleOf(W)) /\ b \in ObjectOf(O, W, P)
    /\ \A p \in DOMAIN b.values : Front(p) \in O /\ b.values[p].of # <<"N/A">>
    /\ \A i \in 1..Len(m) :
         /\ Nests(O, m[i].at)
         /\ m[i].required /\ m[i].key # "*" =>
              m[i].at \in O /\ Append(m[i].at, m[i].key) \in DOMAIN b.values
         /\ m[i].required /\ m[i].key = "*" =>
              /\ m[i].at # <<>>
              /\ \A j \in 1..(i - 1) : m[j].at # m[i].at
              /\ m[i].at \notin O =>
                   \E j \in 1..(i - 1) : m[j].key = "*" /\ m[j].at \notin O

(* What the first i rules make of b                                         *)
Kept(m, b, O, d, i) ==
    \A p \in DOMAIN d.values :
       /\ p \in DOMAIN b.values
       /\ \/ d.values[p] \in {b.values[p], Shorten(b.values[p])}
          \/ /\ d.values[p] = Shorten(Placeholder) /\ isEmpty(b.values[p])
             /\ \E j \in 1..i : m[j].required /\ m[j].at \in O /\ Concerns(O, m[j], p)
Gone(m, b, O, d, i) ==
    \A p \in DOMAIN b.values \ DOMAIN d.values :
       isEmpty(b.values[p]) /\ \E j \in 1..i : Concerns(O, m[j], p)
Short(m, O, d, i) ==
    \A p \in DOMAIN d.values, j \in 1..i :
       Concerns(O, m[j], p) => Within(d.values[p]) /\ ~isEmpty(d.values[p])
There(m, b, O, d, i) ==
    \A p \in DOMAIN b.values, j \in 1..i :
       m[j].required /\ m[j].at \in O /\ Concerns(O, m[j], p) => p \in DOMAIN d.values

Applied(m, b, O, W, P, d, i) ==
    /\ d \in ObjectOf(O, W, P)
    /\ Kept(m, b, O, d, i) /\ Gone(m, b, O, d, i)
    /\ Short(m, O, d, i) /\ There(m, b, O, d, i)

(* Before the first rule nothing has changed. *)
LEMMA AppliedNone ==
    ASSUME NEW m, NEW b, NEW O, NEW W, NEW P, Suits(m, b, O, W, P)
    PROVE  Applied(m, b, O, W, P, b, 0)
BY DEF Suits, Applied, Kept, Gone, Short, There

(* The targets of a rule *)
LEMMA TargetsAre ==
    ASSUME NEW m, NEW b, NEW O, NEW W, NEW P, Suits(m, b, O, W, P),
           NEW d \in ObjectOf(O, W, P), NEW i \in 1..Len(m)
    PROVE  /\ m[i] \in RuleOf(W)
           /\ Targets(d, m[i]) = {p \in DOMAIN d.values \cup {Append(At(O, m[i]), m[i].key)} :
                   /\ Concerns(O, m[i], p)
                   /\ m[i].key = "*" => p \in DOMAIN d.values}
<1>1. PICK r \in RuleOf(W) : r = m[i]
  BY DEF Suits
<1>2. childTarget(d, r.at) = At(O, r)
  <2>1. r.at \in Seq(W) /\ Nests(O, r.at)
    BY <1>1 DEF RuleOf, Suits
  <2>2. O \subseteq Seq(W) /\ Closed(O)
    BY DEF Suits
  <2> QED BY <2>1, <2>2, TargetIs DEF At
<1>3. CASE r.key = "*"
  <2>1. Targets(d, r) = {p \in DOMAIN d.values : Front(p) = At(O, r)}
    BY <1>2, <1>3 DEF Targets
  <2>2. \A p : Concerns(O, r, p) <=> Front(p) = At(O, r)
    BY <1>3 DEF Concerns
  <2> QED BY <1>1, <1>3, <2>1, <2>2
<1>4. CASE r.key # "*"
  <2>1. Targets(d, r) = {Append(At(O, r), r.key)}
    BY <1>2, <1>4 DEF Targets
  <2>2. \A p : Concerns(O, r, p) <=> p = Append(At(O, r), r.key)
    BY <1>4 DEF Concerns
  <2> QED BY <1>1, <1>4, <2>1, <2>2
<1> QED BY <1>3, <1>4

(* One rule more *)
LEMMA RuleApplied ==
    ASSUME NEW m, NEW b, NEW O, NEW W, NEW P, Suits(m, b, O, W, P),
           NEW i \in 1..Len(m), NEW d, Applied(m, b, O, W, P, d, i - 1)
    PROVE  Applied(m, b, O, W, P, replaceValue(d, m[i]), i)
<1>1. PICK r \in RuleOf(W) : r = m[i]
  BY DEF Suits
<1>2. d \in ObjectOf(O, W, P) /\ b \in ObjectOf(O, W, P)
  BY DEF Applied, Suits
<1>3. /\ O \subseteq Seq(W) /\ Seq(W) \subseteq P /\ <<"N/A">> \in P /\ <<>> \in Seq(W)
      /\ \A p \in DOMAIN b.values : Front(p) \in O
  BY DEF Suits
<1>4. PICK e : e = replaceValue(d, r)
  OBVIOUS
<1>5. PICK T : T = Targets(d, r)
  OBVIOUS
<1>6. T \subseteq Seq(W) /\ e \in ObjectOf(O, W, P) /\ Replaced(d, e, T, r.required)
  BY <1>1, <1>2, <1>3, <1>4, <1>5, ReplaceIs
<1>7. r.required \in BOOLEAN /\ r.at \in Seq(W) /\ r.key \in W
  BY DEF RuleOf
<1>8. /\ \A p \in T : Concerns(O, r, p) /\ (r.key = "*" => p \in DOMAIN d.values)
      /\ \A p \in DOMAIN d.values : Concerns(O, r, p) => p \in T
      /\ r.key # "*" => Append(At(O, r), r.key) \in T
  <2>1. T = {p \in DOMAIN d.values \cup {Append(At(O, r), r.key)} :
                   /\ Concerns(O, r, p)
                   /\ r.key = "*" => p \in DOMAIN d.values}
    BY <1>1, <1>2, <1>5, TargetsAre
  <2>2. r.key # "*" => Concerns(O, r, Append(At(O, r), r.key))
    BY DEF Concerns
  <2> QED BY <2>1, <2>2
<1>9. \A p \in DOMAIN d.values : d.values[p] \in ValueOf(P) /\ p \in Seq(W)
  BY <1>2 DEF ObjectOf
<1>10. \A p \in DOMAIN b.values : b.values[p] \in ValueOf(P) /\ p \in Seq(W)
  BY <1>2 DEF ObjectOf
<1>11. i \in Nat /\ i \in 1..i /\ \A j \in 1..i : j = i \/ j \in 1..(i - 1)
  OBVIOUS
\* An empty value was empty before
<1>12. ASSUME NEW p \in DOMAIN d.values, isEmpty(d.values[p]) PROVE isEmpty(b.values[p])
  <2>1. \/ d.values[p] \in {b.values[p], Shorten(b.values[p])} /\ p \in DOMAIN b.values
        \/ isEmpty(b.values[p])
    BY DEF Applied, Kept
  <2>2. p \in DOMAIN b.values => (isEmpty(Shorten(b.values[p])) <=> isEmpty(b.values[p]))
    BY <1>10, ShortenIs
  <2> QED BY <1>12, <2>1, <2>2
\* What the rule makes of a target
<1>13. ASSUME NEW p \in T
       PROVE  /\ ValueAt(d, p) \in ValueOf(P)
              /\ p \notin DOMAIN d.values => isEmpty(ValueAt(d, p))
              /\ p \in DOMAIN d.values => ValueAt(d, p) = d.values[p]
              /\ Within(truncate(ValueAt(d, p), r.required))
              /\ IF r.required /\ isEmpty(ValueAt(d, p))
                 THEN truncate(ValueAt(d, p), r.required) = Shorten(Placeholder)
                 ELSE truncate(ValueAt(d, p), r.required) = Shorten(ValueAt(d, p))
              /\ r.required => ~isEmpty(truncate(ValueAt(d, p), r.required))
  <2>1. /\ ValueAt(d, p) \in ValueOf(P)
        /\ p \notin DOMAIN d.values => isEmpty(ValueAt(d, p))
    BY <1>2, <1>3, <1>6, ValueAtIs
  <2>2. p \in DOMAIN d.values => ValueAt(d, p) = d.values[p]
    BY DEF ValueAt
  <2> QED BY <1>3, <1>7, <2>1, <2>2, TruncateIs
<1>14. Gone(m, b, O, e, i)
  <2> SUFFICES ASSUME NEW p \in DOMAIN b.values \ DOMAIN e.values
               PROVE  isEmpty(b.values[p]) /\ \E j \in 1..i : Concerns(O, m[j], p)
    BY DEF Gone
  <2>1. CASE p \notin DOMAIN d.values
    <3>1. isEmpty(b.values[p]) /\ \E j \in 1..(i - 1) : Concerns(O, m[j], p)
      BY <2>1 DEF Applied, Gone
    <3> QED BY <1>11, <3>1
  <2>2. CASE p \in DOMAIN d.values
    <3>1. p \in T /\ isEmpty(truncate(ValueAt(d, p), r.required))
      BY <1>6, <2>2 DEF Replaced
    <3>2. ~r.required /\ truncate(ValueAt(d, p), r.required) = Shorten(d.values[p])
      BY <1>13, <2>2, <3>1
    <3>3. isEmpty(Shorten(d.values[p])) <=> isEmpty(d.values[p])
      BY <1>9, <2>2, ShortenIs
    <3>4. isEmpty(b.values[p])
      BY <1>12, <2>2, <3>1, <3>2, <3>3
    <3> QED BY <1>1, <1>8, <1>11, <3>1, <3>4
  <2> QED BY <2>1, <2>2
<1>15. Short(m, O, e, i)
  <2> SUFFICES ASSUME NEW p \in DOMAIN e.values, NEW j \in 1..i, Concerns(O, m[j], p)
               PROVE  Within(e.values[p]) /\ ~isEmpty(e.values[p])
    BY DEF Short
  <2>1. CASE p \in T
    BY <1>6, <1>13, <2>1 DEF Replaced
  <2>2. CASE p \notin T
    <3>1. p \in DOMAIN d.values /\ e.values[p] = d.values[p]
      BY <1>6, <2>2 DEF Replaced
    <3>2. j \in 1..(i - 1)
      BY <1>1, <1>8, <1>11, <2>2, <3>1
    <3> QED BY <3>1, <3>2 DEF Applied, Short
  <2> QED BY <2>1, <2>2
<1>16. ASSUME NEW l \in 1..Len(m), NEW p, Concerns(O, m[l], p) PROVE Front(p) = At(O, m[l])
  <2>1. PICK q \in RuleOf(W) : q = m[l]
    BY DEF Suits
  <2>2. At(O, q) \in Seq(W) /\ q.key \in W
    BY <1>3, <2>1 DEF RuleOf, At
  <2>3. PICK o \in Seq(W) : o = At(O, q)
    BY <2>2
  <2>4. Front(Append(o, q.key)) = o
    BY <2>2 DEF Front
  <2> QED BY <1>16, <2>1, <2>3, <2>4 DEF Concerns
<1>17. There(m, b, O, e, i)
  <2> SUFFICES ASSUME NEW p \in DOMAIN b.values, NEW j \in 1..i, m[j].required, m[j].at \in O,
                      Concerns(O, m[j], p), p \notin DOMAIN e.values
               PROVE  FALSE
    BY DEF There
  <2>1. CASE p \in DOMAIN d.values
    <3>1. p \in T /\ isEmpty(truncate(ValueAt(d, p), r.required))
      BY <1>6, <2>1 DEF Replaced
    <3>2. ~r.required /\ truncate(ValueAt(d, p), r.required) = Shorten(d.values[p])
      BY <1>13, <2>1, <3>1
    <3>3. isEmpty(Shorten(d.values[p])) <=> isEmpty(d.values[p])
      BY <1>9, <2>1, ShortenIs
    <3>4. j \in 1..(i - 1)
      BY <1>1, <1>11, <3>2
    <3>5. ~isEmpty(d.values[p])
      BY <2>1, <3>4 DEF Applied, Short
    <3> QED BY <3>1, <3>2, <3>3, <3>5
  <2>2. CASE p \notin DOMAIN d.values
    <3>1. j \notin 1..(i - 1)
      BY <2>2 DEF Applied, There
    <3>2. j = i
      BY <1>11, <3>1
    <3>3. r.required /\ r.at \in O /\ Concerns(O, r, p) /\ At(O, r) = r.at
      BY <1>1, <3>2 DEF At
    <3>4. p \notin T
      BY <1>6, <1>13, <3>3 DEF Replaced
    <3>5. r.key = "*"
      BY <1>8, <3>3, <3>4 DEF Concerns
    <3>6. PICK l \in 1..(i - 1) : Concerns(O, m[l], p)
      BY <2>2 DEF Applied, Gone
    <3>7. l \in 1..Len(m)
      OBVIOUS
    <3>8. Front(p) = At(O, m[l]) /\ Front(p) = r.at
      BY <1>16, <3>3, <3>5, <3>6, <3>7 DEF Concerns
    <3>9. r.at # <<>> /\ m[l].at # r.at
      BY <1>1, <3>3, <3>5 DEF Suits
    <3> QED BY <3>8, <3>9 DEF At
  <2> QED BY <2>1, <2>2
<1>18. ASSUME NEW p \in T, r.required, isEmpty(ValueAt(d, p)) PROVE r.at \in O
  <2>1. CASE r.key # "*"
    BY <1>1, <1>18, <2>1 DEF Suits
  <2>2. CASE r.key = "*"
    <3> SUFFICES ASSUME r.at \notin O PROVE FALSE
      OBVIOUS
    <3>1. PICK l \in 1..(i - 1) : m[l].key = "*" /\ m[l].at \notin O
      BY <1>1, <1>18, <2>2 DEF Suits
    <3>2. At(O, m[l]) = At(O, r)
      BY <3>1 DEF At
    <3>3. Concerns(O, m[l], p) /\ p \in DOMAIN d.values
      BY <1>8, <1>18, <2>2, <3>1, <3>2 DEF Concerns
    <3>4. ~isEmpty(d.values[p])
      BY <3>3 DEF Applied, Short
    <3> QED BY <1>18, <3>3, <3>4 DEF ValueAt
  <2> QED BY <2>1, <2>2
<1>19. Kept(m, b, O, e, i)
  <2> SUFFICES ASSUME NEW p \in DOMAIN e.values
               PROVE  /\ p \in DOMAIN b.values
                      /\ \/ e.values[p] \in {b.values[p], Shorten(b.values[p])}
                         \/ /\ e.values[p] = Shorten(Placeholder) /\ isEmpty(b.values[p])
                            /\ \E j \in 1..i : /\ m[j].required /\ m[j].at \in O
                                               /\ Concerns(O, m[j], p)
    BY DEF Kept
  <2>1. CASE p \notin T
    <3>1. p \in DOMAIN d.values /\ e.values[p] = d.values[p]
      BY <1>6, <2>1 DEF Replaced
    <3> QED BY <1>11, <3>1 DEF Applied, Kept
  <2>2. CASE p \in T
    <3>1. e.values[p] = truncate(ValueAt(d, p), r.required) /\ ~isEmpty(e.values[p])
      BY <1>6, <2>2 DEF Replaced
    <3>2. Concerns(O, r, p)
      BY <1>8, <2>2
    <3>3. CASE r.required /\ isEmpty(ValueAt(d, p))
      <4>1. r.at \in O /\ e.values[p] = Shorten(Placeholder)
        BY <1>13, <1>18, <2>2, <3>1, <3>3
      <4>2. p \in DOMAIN b.values /\ isEmpty(b.values[p])
        <5>1. CASE p \in DOMAIN d.values
          BY <1>12, <3>3, <5>1 DEF ValueAt, Applied, Kept
        <5>2. CASE p \notin DOMAIN d.values
          <6>1. r.key # "*" /\ p = Append(r.at, r.key)
            BY <1>8, <2>2, <3>2, <4>1, <5>2 DEF Concerns, At
          <6>2. p \in DOMAIN b.values
            BY <1>1, <3>3, <6>1 DEF Suits
          <6> QED BY <5>2, <6>2 DEF Applied, Gone
        <5> QED BY <5>1, <5>2
      <4> QED BY <1>1, <1>11, <3>2, <3>3, <4>1, <4>2
    <3>4. CASE ~(r.required /\ isEmpty(ValueAt(d, p)))
      <4>1. e.values[p] = Shorten(ValueAt(d, p)) /\ ValueAt(d, p) \in ValueOf(P)
        BY <1>13, <2>2, <3>1, <3>4
      <4>2. ~isEmpty(ValueAt(d, p))
        BY <3>1, <4>1, ShortenIs
      <4>3. p \in DOMAIN d.values /\ e.values[p] = Shorten(d.values[p])
        BY <1>13, <2>2, <4>1, <4>2
      <4>4. /\ p \in DOMAIN b.values
            /\ \/ d.values[p] \in {b.values[p], Shorten(b.values[p])}
               \/ /\ d.values[p] = Shorten(Placeholder) /\ isEmpty(b.values[p])
                  /\ \E j \in 1..(i - 1) : /\ m[j].required /\ m[j].at \in O
                                           /\ Concerns(O, m[j], p)
        BY <4>3 DEF Applied, Kept
      <4>5. Shorten(Shorten(b.values[p])) = Shorten(b.values[p])
        <5>1. PICK v \in ValueOf(P) : v = b.values[p]
          BY <1>10, <4>4
        <5>2. Shorten(v) \in ValueOf(P) /\ Within(Shorten(v))
          BY ShortenIs
        <5>3. Shorten(Shorten(v)) = Shorten(v)
          BY <5>2, ShortenIs
        <5> QED BY <5>1, <5>3
      <4>6. Shorten(Shorten(Placeholder)) = Shorten(Placeholder)
        <5>1. Placeholder \in ValueOf(P)
          BY <1>3, PlaceholderIs
        <5>2. Shorten(Placeholder) \in ValueOf(P) /\ Within(Shorten(Placeholder))
          BY <5>1, ShortenIs
        <5> QED BY <5>2, ShortenIs
      <4> QED BY <1>11, <4>3, <4>4, <4>5, <4>6
    <3> QED BY <3>3, <3>4
  <2> QED BY <2>1, <2>2
<1> QED BY <1>1, <1>4, <1>6, <1>14, <1>15, <1>17, <1>19 DEF Applied

(* and all of them: the model is applied.                                   *)
LEMMA ModelApplied ==
    ASSUME NEW m, NEW b, NEW O, NEW W, NEW P, Suits(m, b, O, W, P)
    PROVE  Applied(m, b, O, W, P, truncateModel(m, b), Len(m))
<1>1. /\ O \subseteq Seq(W) /\ Seq(W) \subseteq P /\ <<"N/A">> \in P /\ <<>> \in Seq(W)
      /\ m \in Seq(RuleOf(W)) /\ b \in ObjectOf(O, W, P)
  BY DEF Suits
<1>2. PICK U : U = ObjectOf(O, W, P)
  OBVIOUS
<1>3. PICK E : E = RuleOf(W)
  OBVIOUS
<1>4. \A u, x : u \in U /\ x \in E => replaceValue(u, x) \in U
  BY <1>1, <1>2, <1>3, ReplaceIs
<1>5. b \in U /\ m \in Seq(E)
  BY <1>1, <1>2, <1>3
<1>6. PICK c \in [0..Len(m) -> U] :
        Chain(c, m, b, truncateModel(m, b),
              [i \in 1..Len(m) |-> replaceValue(c[i - 1], m[i])])
  BY <1>4, <1>5, RuleSteps
<1>7. PICK n \in Nat : n = Len(m)
  BY <1>5
<1>8. /\ c[0] = b /\ c[n] = truncateModel(m, b)
      /\ \A i \in 1..n : c[i] = replaceValue(c[i - 1], m[i])
  BY <1>6, <1>7 DEF Chain
<1> DEFINE Holds == {i \in 0..n : Applied(m, b, O, W, P, c[i], i)}
<1>9. 0 \in Holds
  BY <1>8, AppliedNone
<1>10. ASSUME NEW i \in 1..n, i - 1 \in Holds PROVE i \in Holds
  <2>1. PICK d : d = c[i - 1]
    OBVIOUS
  <2>2. Applied(m, b, O, W, P, d, i - 1) /\ i \in 1..Len(m)
    BY <1>7, <1>10, <2>1
  <2>3. Applied(m, b, O, W, P, replaceValue(d, m[i]), i)
    BY <2>2, RuleApplied
  <2>4. c[i] = replaceValue(d, m[i]) /\ i \in 0..n
    BY <1>8, <2>1
  <2> QED BY <2>3, <2>4
<1>11. n \in Holds
  <2> HIDE DEF Holds
  <2>1. \A i \in 0..n : i \in Holds
    BY <1>9, <1>10, Stepwise
  <2> QED BY <2>1
<1> QED BY <1>7, <1>8, <1>11

(* Of a model that suits the object this is what truncation is to do.       *)
LEMMA AppliedFits ==
    ASSUME NEW k, NEW b, NEW O, NEW W, NEW P, Suits(Model[k], b, O, W, P)
    PROVE  Fits(k, b, truncateModel(Model[k], b))
<1>1. PICK m : m = Model[k]
  OBVIOUS
<1>2. PICK n \in Nat : n = Len(m)
  BY <1>1 DEF Suits
<1>3. PICK d : d = truncateModel(m, b)
  OBVIOUS
<1>4. Applied(m, b, O, W, P, d, n) /\ Suits(m, b, O, W, P)
  BY <1>1, <1>2, <1>3, ModelApplied
<1>5. /\ m \in Seq(RuleOf(W)) /\ b \in ObjectOf(O, W, P) /\ d \in ObjectOf(O, W, P)
      /\ <<"N/A">> \in P /\ O \subseteq Seq(W)
      /\ \A p \in DOMAIN b.values : Front(p) \in O /\ b.values[p].of # <<"N/A">>
  BY <1>4 DEF Suits, Applied
<1>6. /\ \A r \in Range(m) : \E i \in 1..n : r = m[i]
      /\ \A i \in 1..n : m[i] \in Range(m) /\ m[i] \in RuleOf(W)
  <2>1. DOMAIN m = 1..n /\ \A i \in 1..n : m[i] \in RuleOf(W)
    BY <1>2, <1>5
  <2> QED BY <2>1 DEF Range
<1>7. \A p \in DOMAIN b.values : b.values[p] \in ValueOf(P)
  BY <1>5 DEF ObjectOf
<1>8. b.objects = O /\ d.objects = O
  BY <1>5 DEF ObjectOf
<1> DEFINE required == {p \in Named(k, TRUE) : Front(p) \in O} \cup Starred(k, b, TRUE)
           listed == required \cup Named(k, FALSE) \cup Starred(k, b, FALSE)
\* A named path and its rule
<1>9. ASSUME NEW q \in BOOLEAN, NEW p \in Named(k, q)
       PROVE  \E i \in 1..n : m[i].key # "*" /\ m[i].required = q /\ p = Append(m[i].at, m[i].key)
  BY <1>1, <1>6, <1>9 DEF Named
<1>10. ASSUME NEW q \in BOOLEAN, NEW p \in Starred(k, b, q)
       PROVE  p \in DOMAIN b.values /\ Front(p) \in O
              /\ \E i \in 1..n : m[i].key = "*" /\ m[i].required = q /\ Front(p) = m[i].at
  BY <1>1, <1>5, <1>6, <1>10 DEF Starred
<1>11. ASSUME NEW p \in DOMAIN b.values, NEW i \in 1..n, m[i].at \in O,
              \/ m[i].key # "*" /\ p = Append(m[i].at, m[i].key)
              \/ m[i].key = "*" /\ Front(p) = m[i].at
       PROVE  Concerns(O, m[i], p)
  BY <1>11 DEF Concerns, At
<1>12. ASSUME NEW p, NEW q \in BOOLEAN, p \in Named(k, q), p \in DOMAIN b.values \/ Front(p) \in O
       PROVE  \E i \in 1..n : /\ m[i].key # "*" /\ m[i].required = q /\ m[i].at \in O
                              /\ p = Append(m[i].at, m[i].key) /\ Front(p) = m[i].at
  <2>1. PICK i \in 1..n : m[i].key # "*" /\ m[i].required = q /\ p = Append(m[i].at, m[i].key)
    BY <1>9, <1>12
  <2>2. PICK r \in RuleOf(W) : r = m[i]
    BY <1>6
  <2>3. PICK o \in Seq(W) : o = r.at
    BY DEF RuleOf
  <2>4. r.key \in W
    BY DEF RuleOf
  <2>5. Front(Append(o, r.key)) = o
    BY <2>4 DEF Front
  <2>6. Front(p) = o
    BY <2>1, <2>2, <2>3, <2>5
  <2>7. Front(p) \in O
    BY <1>5, <1>12
  <2> QED BY <2>1, <2>2, <2>3, <2>6, <2>7
<1>13. required \subseteq DOMAIN d.values
  <2> SUFFICES ASSUME NEW p \in required PROVE p \in DOMAIN d.values
    OBVIOUS
  <2>1. CASE p \in Starred(k, b, TRUE)
    <3>1. /\ p \in DOMAIN b.values
          /\ \E i \in 1..n : m[i].key = "*" /\ m[i].required = TRUE /\ Front(p) = m[i].at
                             /\ m[i].at \in O
      BY <1>10, <2>1
    <3>2. PICK i \in 1..n : m[i].key = "*" /\ m[i].required = TRUE /\ Front(p) = m[i].at
                            /\ m[i].at \in O
      BY <3>1
    <3>3. Concerns(O, m[i], p)
      BY <1>11, <3>1, <3>2
    <3> QED BY <1>4, <3>1, <3>2, <3>3 DEF Applied, There
  <2>2. CASE p \in Named(k, TRUE) /\ Front(p) \in O
    <3>1. PICK i \in 1..n : /\ m[i].key # "*" /\ m[i].required = TRUE /\ m[i].at \in O
                            /\ p = Append(m[i].at, m[i].key)
      BY <1>12, <2>2
    <3>2. p \in DOMAIN b.values
      BY <1>2, <1>4, <3>1 DEF Suits
    <3>3. Concerns(O, m[i], p)
      BY <1>11, <3>1, <3>2
    <3> QED BY <1>4, <3>1, <3>2, <3>3 DEF Applied, There
  <2> QED BY <2>1, <2>2
<1>14. ASSUME NEW p \in DOMAIN d.values, p \in listed
       PROVE  Within(d.values[p])
  <2>1. p \in DOMAIN b.values
    BY <1>4 DEF Applied, Kept
  <2>2. \E i \in 1..n : /\ m[i].at \in O
                        /\ \/ m[i].key # "*" /\ p = Append(m[i].at, m[i].key)
                           \/ m[i].key = "*" /\ Front(p) = m[i].at
    <3>1. CASE \E q \in BOOLEAN : p \in Named(k, q)
      BY <1>12, <2>1, <3>1
    <3>2. CASE \E q \in BOOLEAN : p \in Starred(k, b, q)
      BY <1>10, <3>2
    <3> QED BY <1>14, <3>1, <3>2
  <2>3. PICK i \in 1..n : Concerns(O, m[i], p)
    BY <1>11, <2>1, <2>2
  <2> QED BY <1>4, <2>3 DEF Applied, Short
<1>15. ASSUME NEW p \in DOMAIN d.values
       PROVE  IF d.values[p] = Shorten(Placeholder)
              THEN p \in required /\ isEmpty(b.values[p])
              ELSE /\ p \in listed => d.values[p] = Shorten(b.values[p])
                   /\ d.values[p] \in {b.values[p], Shorten(b.values[p])}
  <2>1. p \in DOMAIN b.values
    BY <1>4 DEF Applied, Kept
  <2>2. PICK v \in ValueOf(P) : v = b.values[p]
    BY <1>7, <2>1
  <2>3. /\ Shorten(v).of = v.of /\ (Within(v) => Shorten(v) = v)
        /\ v.of # <<"N/A">>
    BY <1>5, <2>1, <2>2, ShortenIs
  <2>4. Shorten(Placeholder).of = <<"N/A">>
    <3>1. Placeholder \in ValueOf(P) /\ Placeholder.of = <<"N/A">>
      BY <1>5, PlaceholderIs
    <3> QED BY <3>1, ShortenIs
  <2>5. CASE d.values[p] \in {v, Shorten(v)}
    <3>1. d.values[p] # Shorten(Placeholder)
      BY <2>3, <2>4, <2>5
    <3>2. p \in listed => d.values[p] = Shorten(v)
      BY <1>14, <2>3, <2>5
    <3> QED BY <2>2, <2>5, <3>1, <3>2
  <2>6. CASE /\ d.values[p] = Shorten(Placeholder) /\ isEmpty(b.values[p])
             /\ \E j \in 1..n : m[j].required /\ m[j].at \in O /\ Concerns(O, m[j], p)
    <3>1. PICK j \in 1..n : m[j].required /\ m[j].at \in O /\ Concerns(O, m[j], p)
      BY <2>6
    <3>2. PICK r \in RuleOf(W) : r = m[j] /\ r \in Range(m)
      BY <1>6
    <3>3. r.required = TRUE
      BY <3>1, <3>2 DEF RuleOf
    <3>4. CASE r.key = "*"
      <4>1. Front(p) = r.at
        BY <3>1, <3>2, <3>4 DEF Concerns, At
      <4>2. p \in Starred(k, b, TRUE)
        BY <1>1, <2>1, <3>2, <3>3, <3>4, <4>1 DEF Starred
      <4> QED BY <2>6, <4>2
    <3>5. CASE r.key # "*"
      <4>1. p = Append(r.at, r.key)
        BY <3>1, <3>2, <3>5 DEF Concerns, At
      <4>2. p \in Named(k, TRUE)
        BY <1>1, <3>2, <3>3, <3>5, <4>1 DEF Named
      <4>3. Front(p) \in O
        BY <1>5, <2>1
      <4> QED BY <2>6, <4>2, <4>3
    <3> QED BY <3>4, <3>5
  <2>7. \/ d.values[p] \in {b.values[p], Shorten(b.values[p])}
        \/ /\ d.values[p] = Shorten(Placeholder) /\ isEmpty(b.values[p])
           /\ \E j \in 1..n : m[j].required /\ m[j].at \in O /\ Concerns(O, m[j], p)
    BY <1>4 DEF Applied, Kept
  <2> QED BY <2>2, <2>5, <2>6, <2>7
<1>16. \A p \in DOMAIN b.values \ DOMAIN d.values : isEmpty(b.values[p])
  BY <1>4 DEF Applied, Gone
<1>17. Fits(k, b, d)
  <2> HIDE DEF required, listed
  <2> QED BY <1>8, <1>13, <1>15, <1>16 DEF Fits, required, listed
<1> QED BY <1>1, <1>3, <1>17
-----------------------------------------------------------------------------
(* The models                                                              *)

(* The keys of events and of models                                         *)
Words ==
    SpanKeys \cup TransactionKeys \cup Sizes \cup DOMAIN CompressedMarks \cup Paints \cup
    {"context", "page", "referer", "url", "headers", "server-timing", "destination",
     "address", "port", "service", "name", "resource", "type", "http", "method",
     "status_code", "response", "tags", "label", "user", "id", "email", "username",
     "custom", "key", "marks", "navigationTiming", "agent", "mark", "experience", "cls",
     "fid", "tbt", "longtask", "count", "sum", "max", "session", "sequence", "breakdown",
     "samples", "value", "span", "span.self_time.count", "span.self_time.sum.us",
     "transaction.duration.count", "transaction.duration.sum.us",
     "transaction.breakdown.count", "timeToFirstByte", "domInteractive", "domComplete",
     "exception", "stacktrace", "abs_path", "filename", "function", "lineno", "colno",
     "culprit", "message", "transaction", "transaction_id", "parent_id", "trace_id",
     "sampled", "span_count", "started", "version", "environment", "language", "labels"}
Keywords == Words \cup {"*"}

(* No key is that of the placeholder. *)
LEMMA NoPlaceholder == <<"N/A">> \notin Seq(Keywords)
<1>1. "N/A" \notin Keywords
  BY DEF Keywords, Words, SpanKeys, TransactionKeys, Sizes, CompressedMarks, Paints
<1> QED BY <1>1

Service == Context("destination") \o <<"service">>
HttpResponse == Context("http") \o <<"response">>

(* Two sequences in a row *)
LEMMA JoinIs ==
    ASSUME NEW S, NEW s \in Seq(S), NEW t \in Seq(S)
    PROVE  /\ s \o t \in Seq(S) /\ Len(s \o t) = Len(s) + Len(t)
           /\ \A i \in 1..Len(s) : (s \o t)[i] = s[i]
           /\ \A i \in 1..Len(t) : (s \o t)[Len(s) + i] = t[i]
           /\ \A i \in 1..Len(s \o t) : i \in 1..Len(s) \/ (i - Len(s)) \in 1..Len(t)
OBVIOUS

(* A rule that requires nothing, or one key                                 *)
NotAll == {r \in RuleOf(Keywords) : ~(r.required /\ r.key = "*")}
Before == {r \in NotAll : r.at # Service}
All == {r \in RuleOf(Keywords) : r.required /\ r.key = "*" /\ r.at = Service}
Call == {r \in RuleOf(Keywords) : r.key = "*" /\ r.at = HttpResponse}

Has(s, X) == \E i \in 1..Len(s) : s[i] \in X

(* The one rule that requires all of an object, the service of the          *)
(* destination, follows that of all keys of the response and is the first of*)
(* its object.                                                              *)
InOrder(m) ==
    /\ m \in Seq(RuleOf(Keywords))
    /\ \A i \in 1..Len(m) : m[i] \in NotAll \/
         /\ m[i] \in All
         /\ \A j \in 1..(i - 1) : m[j] \in Before
         /\ \E j \in 1..(i - 1) : m[j] \in Call

(* What one of two sequences has, both in a row have. *)
LEMMA HasJoined ==
    ASSUME NEW S, NEW s \in Seq(S), NEW t \in Seq(S), NEW X, Has(s, X) \/ Has(t, X)
    PROVE  Has(s \o t, X)
<1>1. CASE Has(s, X)
  <2>1. PICK i \in 1..Len(s) : s[i] \in X
    BY <1>1 DEF Has
  <2>2. i \in 1..Len(s \o t) /\ (s \o t)[i] = s[i]
    BY JoinIs
  <2> QED BY <2>1, <2>2 DEF Has
<1>2. CASE Has(t, X)
  <2>1. PICK i \in 1..Len(t) : t[i] \in X
    BY <1>2 DEF Has
  <2>2. (Len(s) + i) \in 1..Len(s \o t) /\ (s \o t)[Len(s) + i] = t[i]
    BY JoinIs
  <2> QED BY <2>1, <2>2 DEF Has
<1> QED BY <1>1, <1>2

(* Rules in order stay in order after rules that require single keys, *)
LEMMA OrderAfter ==
    ASSUME NEW s \in Seq(Before), NEW m, InOrder(m)
    PROVE  InOrder(s \o m)
<1>1. s \in Seq(RuleOf(Keywords)) /\ m \in Seq(RuleOf(Keywords))
  BY DEF InOrder, Before, NotAll
<1>2. PICK q : q = s \o m
  OBVIOUS
<1>3. PICK n \in Nat : n = Len(s)
  OBVIOUS
<1>4. /\ q \in Seq(RuleOf(Keywords)) /\ Len(q) = n + Len(m)
      /\ \A i \in 1..n : q[i] \in Before
      /\ \A i \in 1..Len(m) : q[n + i] = m[i]
  BY <1>1, <1>2, <1>3, JoinIs
<1>5. ASSUME NEW i \in 1..Len(q), q[i] \notin NotAll
      PROVE  /\ q[i] \in All
             /\ \A j \in 1..(i - 1) : q[j] \in Before
             /\ \E j \in 1..(i - 1) : q[j] \in Call
  <2>1. i \notin 1..n
    BY <1>4, <1>5 DEF Before
  <2>2. PICK l \in 1..Len(m) : i = n + l
    <3>1. i - n \in 1..Len(m) /\ i = n + (i - n)
      BY <1>1, <1>4, <2>1
    <3> QED BY <3>1
  <2>3. q[i] = m[l]
    BY <1>4, <2>2
  <2>4. /\ m[l] \in All
        /\ \A j \in 1..(l - 1) : m[j] \in Before
        /\ \E j \in 1..(l - 1) : m[j] \in Call
    BY <1>5, <2>3 DEF InOrder
  <2>5. PICK h \in 1..(l - 1) : m[h] \in Call
    BY <2>4
  <2>6. n + h \in 1..(i - 1) /\ q[n + h] \in Call
    <3>1. h \in 1..Len(m)
      BY <1>1
    <3> QED BY <1>4, <2>2, <2>5, <3>1
  <2>7. ASSUME NEW j \in 1..(i - 1) PROVE q[j] \in Before
    <3>1. CASE j \in 1..n
      BY <1>4, <3>1
    <3>2. CASE j \notin 1..n
      <4>1. PICK g \in 1..(l - 1) : j = n + g
        <5>1. j - n \in 1..(l - 1) /\ j = n + (j - n)
          BY <2>2, <3>2
        <5> QED BY <5>1
      <4>2. g \in 1..Len(m)
        BY <1>1
      <4> QED BY <1>4, <2>4, <4>1, <4>2
    <3> QED BY <3>1, <3>2
  <2> QED BY <2>3, <2>4, <2>6, <2>7
<1> QED BY <1>2, <1>4, <1>5 DEF InOrder

(* and before rules that do not require all of an object. *)
LEMMA OrderBefore ==
    ASSUME NEW m, InOrder(m), NEW s \in Seq(NotAll)
    PROVE  InOrder(m \o s)
<1>1. s \in Seq(RuleOf(Keywords)) /\ m \in Seq(RuleOf(Keywords))
  BY DEF InOrder, NotAll
<1>2. PICK q : q = m \o s
  OBVIOUS
<1>3. PICK n \in Nat : n = Len(m)
  BY <1>1
<1>4. /\ q \in Seq(RuleOf(Keywords)) /\ Len(q) = n + Len(s)
      /\ \A i \in 1..n : q[i] = m[i]
      /\ \A i \in 1..Len(s) : q[n + i] = s[i]
  BY <1>1, <1>2, <1>3, JoinIs
<1>5. ASSUME NEW i \in 1..Len(q), q[i] \notin NotAll
      PROVE  /\ q[i] \in All
             /\ \A j \in 1..(i - 1) : q[j] \in Before
             /\ \E j \in 1..(i - 1) : q[j] \in Call
  <2>1. i \in 1..n
    <3> SUFFICES ASSUME i \notin 1..n PROVE FALSE
      OBVIOUS
    <3>1. i - n \in 1..Len(s) /\ i = n + (i - n)
      BY <1>4
    <3>2. q[i] = s[i - n]
      BY <1>4, <3>1
    <3>3. s[i - n] \in NotAll
      BY <3>1
    <3> QED BY <1>5, <3>2, <3>3
  <2>2. /\ m[i] \in All
        /\ \A j \in 1..(i - 1) : m[j] \in Before
        /\ \E j \in 1..(i - 1) : m[j] \in Call
    BY <1>3, <1>4, <1>5, <2>1 DEF InOrder
  <2>3. \A j \in 1..(i - 1) : j \in 1..n
    BY <2>1
  <2> QED BY <1>4, <2>1, <2>2, <2>3
<1> QED BY <1>2, <1>4, <1>5 DEF InOrder

(* Where the rules of a list of keys are *)
LEMMA RulesIn ==
    ASSUME NEW at, NEW keys \in Seq(Keywords), NEW required, NEW X,
           \A k \in Keywords : (\E i \in 1..Len(keys) : k = keys[i]) =>
              [at |-> at, key |-> k, required |-> required] \in X
    PROVE  Rules(at, keys, required) \in Seq(X)
<1>1. PICK n \in Nat : n = Len(keys) /\ DOMAIN keys = 1..n
  OBVIOUS
<1>2. PICK f : f = [i \in 1..n |-> [at |-> at, key |-> keys[i], required |-> required]]
  OBVIOUS
<1>3. \A i \in 1..n : f[i] \in X
  BY <1>1, <1>2
<1>4. f \in [1..n -> X]
  BY <1>2, <1>3
<1>5. Rules(at, keys, required) = f
  BY <1>1, <1>2 DEF Rules
<1> QED BY <1>4, <1>5

(* Where the rules of contexts are *)
LEMMA ContextAt ==
    /\ \A k \in Keywords : /\ Context(k) \in Seq(Keywords) /\ Len(Context(k)) = 2
                           /\ Context(k)[1] = "context" /\ Context(k)[2] = k
    /\ Service \in Seq(Keywords) /\ Len(Service) = 3 /\ Service[1] = "context"
    /\ Service[2] = "destination" /\ Service[3] = "service"
    /\ HttpResponse \in Seq(Keywords) /\ Len(HttpResponse) = 3 /\ HttpResponse[1] = "context"
    /\ HttpResponse[2] = "http" /\ HttpResponse[3] = "response"
<1>1. {"context", "destination", "service", "http", "response"} \subseteq Keywords
  BY DEF Keywords, Words
<1>2. \A k \in Keywords : /\ Context(k) \in Seq(Keywords) /\ Len(Context(k)) = 2
                          /\ Context(k)[1] = "context" /\ Context(k)[2] = k
  BY <1>1 DEF Context
<1>3. \A k \in {"service", "response"} : <<k>> \in Seq(Keywords) /\ Len(<<k>>) = 1 /\ <<k>>[1] = k
  BY <1>1
<1>4. ASSUME NEW k \in Keywords, NEW l \in {"service", "response"}
      PROVE  /\ Context(k) \o <<l>> \in Seq(Keywords) /\ Len(Context(k) \o <<l>>) = 3
             /\ (Context(k) \o <<l>>)[1] = "context"
             /\ (Context(k) \o <<l>>)[2] = k /\ (Context(k) \o <<l>>)[3] = l
  <2>1. PICK s \in Seq(Keywords) : s = Context(k)
    BY <1>2
  <2>2. PICK t \in Seq(Keywords) : t = <<l>>
    BY <1>3
  <2>3. Len(s) = 2 /\ s[1] = "context" /\ s[2] = k /\ Len(t) = 1 /\ t[1] = l
    BY <1>2, <1>3, <2>1, <2>2
  <2>4. /\ s \o t \in Seq(Keywords) /\ Len(s \o t) = 3
        /\ \A i \in 1..2 : (s \o t)[i] = s[i]
        /\ \A i \in 1..1 : (s \o t)[2 + i] = t[i]
    <3>1. /\ s \o t \in Seq(Keywords) /\ Len(s \o t) = Len(s) + Len(t)
          /\ \A i \in 1..Len(s) : (s \o t)[i] = s[i]
          /\ \A i \in 1..Len(t) : (s \o t)[Len(s) + i] = t[i]
      BY JoinIs
    <3> QED BY <2>3, <3>1
  <2> QED BY <2>1, <2>2, <2>3, <2>4
<1> QED BY <1>1, <1>2, <1>4 DEF Service, HttpResponse

Inner == {"user", "tags", "http", "response", "headers", "destination", "service"}

(* Rules that suit an event with objects O and paths D *)
Fitting(O, D) ==
    {r \in RuleOf(Keywords) :
       /\ Nests(O, r.at)
       /\ r.required /\ r.key # "*" => r.at \in O /\ Append(r.at, r.key) \in D}

(* The rules of a context are in order, and about no object of the event.   *)
LEMMA ContextModel ==
    ASSUME NEW O, NEW D, \A k \in Inner : <<k>> \notin O
    PROVE  InOrder(CONTEXT_MODEL) /\ CONTEXT_MODEL \in Seq(Fitting(O, D))
<1> DEFINE F == Fitting(O, D)
<1>1. /\ Inner \subseteq Keywords
      /\ {"context", "id", "email", "username", "address", "*"} \subseteq Keywords
  BY DEF Keywords, Words, Inner
<1>2. PICK H : H = Append(HttpResponse, "headers")
  OBVIOUS
<1>3. PICK G : G = Append(Context("response"), "headers")
  OBVIOUS
<1>4. /\ H \in Seq(Keywords) /\ Len(H) = 4 /\ H[2] = "http" /\ H[3] = "response" /\ H[4] = "headers"
      /\ G \in Seq(Keywords) /\ Len(G) = 3 /\ G[2] = "response" /\ G[3] = "headers"
  <2>1. PICK s \in Seq(Keywords) : s = HttpResponse
    BY ContextAt
  <2>2. PICK t \in Seq(Keywords) : t = Context("response")
    BY <1>1, ContextAt DEF Inner
  <2>3. Len(s) = 3 /\ s[2] = "http" /\ s[3] = "response" /\ Len(t) = 2 /\ t[2] = "response"
    BY <1>1, <2>1, <2>2, ContextAt DEF Inner
  <2>4. "headers" \in Keywords
    BY <1>1 DEF Inner
  <2> QED BY <1>2, <1>3, <2>1, <2>2, <2>3, <2>4
\* None is about an object of the event
<1>5. \A at \in {Context("user"), Context("tags"), HttpResponse, H, Context("destination"),
                 Service, Context("response"), G} : at \in Seq(Keywords) /\ Nests(O, at)
  <2>1. ASSUME NEW k \in Inner PROVE Context(k) \in Seq(Keywords) /\ Nests(O, Context(k))
    <3>1. Context(k) \in Seq(Keywords) /\ Len(Context(k)) = 2 /\ Context(k)[2] = k
      BY <1>1, ContextAt
    <3> QED BY <3>1 DEF Nests
  <2>2. ASSUME NEW at \in {HttpResponse, H, Service, G}
        PROVE  at \in Seq(Keywords) /\ Nests(O, at)
    <3>1. at \in Seq(Keywords) /\ Len(at) \in 3..4
      BY <1>4, ContextAt
    <3>2. at[2] \in {"http", "destination", "response"} /\ at[3] \in {"response", "service", "headers"}
      BY <1>4, ContextAt
    <3>3. Len(at) = 4 => at[4] = "headers"
      <4>1. Len(HttpResponse) = 3 /\ Len(Service) = 3 /\ Len(G) = 3 /\ H[4] = "headers"
        BY <1>4, ContextAt
      <4>2. at = H => at[4] = "headers"
        BY <4>1
      <4>3. at # H => Len(at) = 3
        BY <4>1
      <4> QED BY <4>2, <4>3
    <3>4. \A i \in 2..Len(at) : at[i] \in {"http", "response", "headers", "destination", "service"}
      BY <3>1, <3>2, <3>3
    <3> QED BY <3>1, <3>4 DEF Nests, Inner
  <2> QED BY <2>1, <2>2 DEF Inner
<1>6. \A at \in {Context("user"), Context("tags"), HttpResponse, H, Context("destination"),
                 Context("response"), G} : at # Service
  <2>1. \A k \in Inner : Context(k) # Service
    BY <1>1, ContextAt
  <2>2. \A at \in {HttpResponse, H, G} : at # Service
    BY <1>4, ContextAt
  <2> QED BY <2>1, <2>2 DEF Inner
\* The models one after the other
<1>7. ASSUME NEW at \in {Context("user"), Context("tags"), HttpResponse, H,
                         Context("destination"), Context("response"), G},
             NEW keys \in Seq(Keywords)
      PROVE  Rules(at, keys, FALSE) \in Seq(Before) /\ Rules(at, keys, FALSE) \in Seq(F)
  <2>1. \A k \in Keywords : [at |-> at, key |-> k, required |-> FALSE] \in Before \cap F
    BY <1>1, <1>5, <1>6 DEF Before, NotAll, Fitting, RuleOf
  <2>2. \A k \in Keywords : [at |-> at, key |-> k, required |-> FALSE] \in Before
    BY <2>1
  <2>3. \A k \in Keywords : [at |-> at, key |-> k, required |-> FALSE] \in F
    BY <2>1
  <2>4. Rules(at, keys, FALSE) \in Seq(Before)
    BY <2>2, RulesIn
  <2> HIDE DEF F
  <2>5. Rules(at, keys, FALSE) \in Seq(F)
    BY <2>3, RulesIn
  <2> QED BY <2>4, <2>5
<1>8. /\ <<"id", "email", "username">> \in Seq(Keywords) /\ <<"*">> \in Seq(Keywords)
      /\ <<"address">> \in Seq(Keywords) /\ Len(<<"*">>) = 1 /\ <<"*">>[1] = "*"
  BY <1>1
<1>9. PICK star \in Seq(Keywords) : star = <<"*">> /\ Len(star) = 1 /\ star[1] = "*"
  BY <1>8
<1>10. PICK u : u = Rules(Context("user"), <<"id", "email", "username">>, FALSE)
  OBVIOUS
<1>11. PICK t : t = Rules(Context("tags"), <<"*">>, FALSE)
  OBVIOUS
<1>12. PICK h : h = RESPONSE_MODEL(HttpResponse)
  OBVIOUS
<1>13. PICK a : a = Rules(Context("destination"), <<"address">>, FALSE)
  OBVIOUS
<1>14. PICK s : s = Rules(Service, <<"*">>, TRUE)
  OBVIOUS
<1>15. PICK p : p = RESPONSE_MODEL(Context("response"))
  OBVIOUS
<1>16. /\ u \in Seq(Before) /\ u \in Seq(F) /\ t \in Seq(Before) /\ t \in Seq(F)
       /\ a \in Seq(Before) /\ a \in Seq(F)
  BY <1>7, <1>8, <1>10, <1>11, <1>13
<1>17. h \in Seq(Before) /\ h \in Seq(F) /\ Has(h, Call)
  <2>1. PICK g : g = Rules(HttpResponse, <<"*">>, FALSE)
    OBVIOUS
  <2>2. PICK f : f = Rules(H, <<"*">>, FALSE)
    OBVIOUS
  <2>3. /\ g \in Seq(Before) /\ g \in Seq(F) /\ f \in Seq(Before) /\ f \in Seq(F)
    BY <1>7, <1>8, <2>1, <2>2
  <2>4. h = g \o f
    BY <1>2, <1>12, <2>1, <2>2 DEF RESPONSE_MODEL
  <2>5. Len(g) = 1 /\ g[1] = [at |-> HttpResponse, key |-> "*", required |-> FALSE]
    <3>1. g = Rules(HttpResponse, star, FALSE) /\ HttpResponse \in Seq(Keywords)
      BY <1>9, <2>1, ContextAt
    <3>2. PICK v : v = [at |-> HttpResponse, key |-> "*", required |-> FALSE]
      OBVIOUS
    <3>3. DOMAIN star = 1..1 /\ \A i \in 1..1 : star[i] = "*"
      BY <1>9
    <3>4. g = [i \in 1..1 |-> v]
      BY <3>1, <3>2, <3>3 DEF Rules
    <3>5. Len(g) = 1 /\ g[1] = v
      BY <3>4
    <3> QED BY <3>2, <3>5
  <2>6. g[1] \in Call
    BY <1>1, <2>5, ContextAt DEF Call, RuleOf
  <2>7. Has(g, Call)
    <3>1. 1 \in 1..Len(g)
      BY <2>5
    <3> QED BY <2>6, <3>1 DEF Has
  <2>8. Has(h, Call)
    BY <2>3, <2>4, <2>7, HasJoined
  <2> HIDE DEF F
  <2> QED BY <2>3, <2>4, <2>8
<1>18. p \in Seq(NotAll) /\ p \in Seq(F)
  <2>1. PICK g : g = Rules(Context("response"), <<"*">>, FALSE)
    OBVIOUS
  <2>2. PICK f : f = Rules(G, <<"*">>, FALSE)
    OBVIOUS
  <2>3. g \in Seq(Before) /\ g \in Seq(F) /\ f \in Seq(Before) /\ f \in Seq(F)
    BY <1>7, <1>8, <2>1, <2>2
  <2>4. p = g \o f
    BY <1>3, <1>15, <2>1, <2>2 DEF RESPONSE_MODEL
  <2>5. Before \subseteq NotAll
    BY DEF Before
  <2> HIDE DEF F
  <2> QED BY <2>3, <2>4, <2>5
<1>19. s \in Seq(F) /\ Len(s) = 1 /\ s[1] \in All
  <2>1. PICK r : r = [at |-> Service, key |-> "*", required |-> TRUE]
    OBVIOUS
  <2>2. Len(s) = 1 /\ s[1] = r
    <3>1. s = Rules(Service, star, TRUE) /\ Service \in Seq(Keywords)
      BY <1>9, <1>14, ContextAt
    <3>2. PICK v : v = [at |-> Service, key |-> "*", required |-> TRUE]
      OBVIOUS
    <3>3. DOMAIN star = 1..1 /\ \A i \in 1..1 : star[i] = "*"
      BY <1>9
    <3>4. s = [i \in 1..1 |-> v]
      BY <3>1, <3>2, <3>3 DEF Rules
    <3>5. Len(s) = 1 /\ s[1] = v
      BY <3>4
    <3> QED BY <2>1, <3>2, <3>5
  <2>3. r \in All /\ r \in F
    BY <1>1, <1>5, <2>1, ContextAt DEF All, Fitting, RuleOf
  <2>4. \A k \in Keywords : (\E i \in 1..Len(star) : k = star[i]) =>
           [at |-> Service, key |-> k, required |-> TRUE] \in F
    <3>1. \A i \in 1..Len(star) : star[i] = "*"
      BY <1>9
    <3>2. r \in F
      BY <2>3
    <3> HIDE DEF F
    <3> QED BY <2>1, <3>1, <3>2
  <2> HIDE DEF F
  <2>5. Rules(Service, star, TRUE) \in Seq(F)
    BY <2>4, RulesIn
  <2> QED BY <1>9, <1>14, <2>2, <2>3, <2>5
<1>20. PICK e : e = ((u \o t) \o h) \o a
  OBVIOUS
<1>21. e \in Seq(Before) /\ e \in Seq(F) /\ Has(e, Call)
  <2> HIDE DEF F
  <2>1. u \o t \in Seq(Before) /\ u \o t \in Seq(F)
    BY <1>16
  <2>2. PICK g \in Seq(Before) : g = u \o t /\ g \in Seq(F)
    BY <2>1
  <2>3. g \o h \in Seq(Before) /\ g \o h \in Seq(F)
    BY <1>17, <2>2
  <2>4. Has(g \o h, Call)
    BY <1>17, <2>2, HasJoined
  <2>5. PICK f \in Seq(Before) : f = g \o h /\ f \in Seq(F) /\ Has(f, Call)
    BY <2>3, <2>4
  <2>6. f \o a \in Seq(Before) /\ f \o a \in Seq(F)
    BY <1>16, <2>5
  <2>7. Has(f \o a, Call)
    BY <1>16, <2>5, HasJoined
  <2> QED BY <1>20, <2>2, <2>5, <2>6, <2>7
<1>22. InOrder(e \o s) /\ e \o s \in Seq(F)
  <2>1. e \in Seq(RuleOf(Keywords)) /\ s \in Seq(RuleOf(Keywords))
    BY <1>19, <1>21 DEF Before, NotAll, Fitting
  <2>2. PICK q : q = e \o s
    OBVIOUS
  <2>3. PICK n \in Nat : n = Len(e)
    BY <1>21
  <2>4. /\ q \in Seq(RuleOf(Keywords)) /\ Len(q) = n + 1
        /\ \A i \in 1..n : q[i] = e[i] /\ q[i] \in Before
        /\ q[n + 1] = s[1]
    <3>1. /\ q \in Seq(RuleOf(Keywords)) /\ Len(q) = n + Len(s)
          /\ \A i \in 1..n : q[i] = e[i]
          /\ \A i \in 1..Len(s) : q[n + i] = s[i]
      BY <2>1, <2>2, <2>3, JoinIs
    <3>2. \A i \in 1..n : e[i] \in Before
      BY <1>21, <2>3
    <3> QED BY <1>19, <3>1, <3>2
  <2>5. \E j \in 1..n : q[j] \in Call
    BY <1>21, <2>3, <2>4 DEF Has
  <2>6. \A i \in 1..Len(q) : i \in 1..n \/ i = n + 1
    BY <2>4
  <2>7. InOrder(q)
    <3>1. (n + 1) - 1 = n
      OBVIOUS
    <3>2. \A i \in 1..n : q[i] \in NotAll
      BY <2>4 DEF Before
    <3> QED BY <1>19, <2>4, <2>5, <2>6, <3>1, <3>2 DEF InOrder
  <2> HIDE DEF F
  <2>8. q \in Seq(F)
    BY <1>19, <1>21, <2>2
  <2> QED BY <2>2, <2>7, <2>8
<1>23. CONTEXT_MODEL = (e \o s) \o p
  BY <1>10, <1>11, <1>12, <1>13, <1>14, <1>15, <1>20 DEF CONTEXT_MODEL, Service, HttpResponse
<1>24. InOrder((e \o s) \o p)
  BY <1>18, <1>22, OrderBefore
<1>25. (e \o s) \o p \in Seq(F)
  <2> HIDE DEF F
  <2> QED BY <1>18, <1>22
<1> QED BY <1>23, <1>24, <1>25
-----------------------------------------------------------------------------
(* The paths of events                                                     *)

Objects(paths) == UNION {{SubSeq(q, 1, n) : n \in 0 .. Len(q) - 1} : q \in paths}

(* The objects of paths are closed, and each is part of a path. *)
LEMMA ObjectsAre ==
    ASSUME NEW W, NEW paths \in SUBSET Seq(W), \A p \in paths : Len(p) > 0
    PROVE  /\ Objects(paths) \subseteq Seq(W) /\ Closed(Objects(paths))
           /\ \A p \in paths : Front(p) \in Objects(paths)
           /\ \A q \in Objects(paths) : \E p \in paths :
                 Len(p) > Len(q) /\ \A i \in 1..Len(q) : p[i] = q[i]
<1>1. \A q \in Objects(paths) : \E p \in paths : \E n \in 0..(Len(p) - 1) : q = SubSeq(p, 1, n)
  BY DEF Objects
<1>2. ASSUME NEW p \in paths, NEW n \in 0..(Len(p) - 1)
      PROVE  /\ SubSeq(p, 1, n) \in Seq(W) /\ Len(SubSeq(p, 1, n)) = n
             /\ \A i \in 1..n : SubSeq(p, 1, n)[i] = p[i]
  <2>1. PICK s \in Seq(W) : s = p
    OBVIOUS
  <2>2. n \in 0..Len(s)
    BY <2>1
  <2> QED BY <2>1, <2>2
<1>3. \A p \in paths : Front(p) \in Objects(paths)
  <2> SUFFICES ASSUME NEW p \in paths PROVE Front(p) \in Objects(paths)
    OBVIOUS
  <2>1. PICK n \in 0..(Len(p) - 1) : n = Len(p) - 1
    <3>1. Len(p) \in Nat
      OBVIOUS
    <3> QED BY <3>1
  <2> QED BY <2>1 DEF Front, Objects
<1>4. ASSUME NEW q \in Objects(paths)
      PROVE  q \in Seq(W) /\ \E p \in paths :
                 Len(p) > Len(q) /\ \A i \in 1..Len(q) : p[i] = q[i]
  <2>1. PICK p \in paths : \E n \in 0..(Len(p) - 1) : q = SubSeq(p, 1, n)
    BY <1>1
  <2>2. PICK n \in 0..(Len(p) - 1) : q = SubSeq(p, 1, n)
    BY <2>1
  <2>3. q \in Seq(W) /\ Len(q) = n /\ \A i \in 1..n : q[i] = p[i]
    BY <1>2, <2>2
  <2>4. Len(p) > n
    OBVIOUS
  <2> QED BY <2>3, <2>4
<1>5. ASSUME NEW q \in Objects(paths), NEW l \in 0..Len(q)
      PROVE  SubSeq(q, 1, l) \in Objects(paths)
  <2>1. PICK p \in paths : \E n \in 0..(Len(p) - 1) : q = SubSeq(p, 1, n)
    BY <1>1
  <2>2. PICK n \in 0..(Len(p) - 1) : q = SubSeq(p, 1, n)
    BY <2>1
  <2>3. q \in Seq(W) /\ Len(q) = n /\ \A i \in 1..n : q[i] = p[i]
    BY <1>2, <2>2
  <2>4. l \in 0..(Len(p) - 1) /\ l \in 0..n
    BY <2>3
  <2>5. PICK s : s = SubSeq(q, 1, l)
    OBVIOUS
  <2>6. s \in Seq(W) /\ Len(s) = l /\ \A i \in 1..l : s[i] = p[i]
    BY <2>3, <2>4, <2>5
  <2>7. PICK t : t = SubSeq(p, 1, l)
    OBVIOUS
  <2>8. t \in Seq(W) /\ Len(t) = l /\ \A i \in 1..l : t[i] = p[i]
    BY <1>2, <2>4, <2>7
  <2>9. s = t
    BY <2>6, <2>8, SeqEqual
  <2>10. t \in Objects(paths)
    BY <2>4, <2>7 DEF Objects
  <2> QED BY <2>5, <2>9, <2>10
<1> QED BY <1>3, <1>4, <1>5 DEF Closed

(* Keys are one longer than the object, and begin as it does. *)
LEMMA KeysAre ==
    ASSUME NEW W, NEW at \in Seq(W), NEW keys \in SUBSET W
    PROVE  /\ Keys(at, keys) \subseteq Seq(W)
           /\ \A p \in Keys(at, keys) :
                 Len(p) = Len(at) + 1 /\ \A i \in 1..Len(at) : p[i] = at[i]
BY DEF Keys

(* Paths in the context of an event, without the response of a call         *)
InContext(paths) ==
    /\ paths \subseteq Seq(Words)
    /\ \A p \in paths : Len(p) > 2 /\ p[1] = "context"
NoResponse(paths) == \A p \in paths : ~(Len(p) > 3 /\ p[2] = "http" /\ p[3] = "response")

(* Keys of an object in the context are in the context. *)
LEMMA ContextKeys ==
    ASSUME NEW k \in Words, NEW keys \in SUBSET Words
    PROVE  /\ InContext(Keys(Context(k), keys)) /\ NoResponse(Keys(Context(k), keys))
           /\ \A l \in Words : InContext(Keys(Context(k) \o <<l>>, keys))
           /\ \A l \in Words : k # "http" => NoResponse(Keys(Context(k) \o <<l>>, keys))
<1>1. "context" \in Words
  BY DEF Words
<1>2. /\ Context(k) \in Seq(Words) /\ Len(Context(k)) = 2
      /\ Context(k)[1] = "context" /\ Context(k)[2] = k
  BY <1>1 DEF Context
<1>3. ASSUME NEW l \in Words
      PROVE  /\ Context(k) \o <<l>> \in Seq(Words) /\ Len(Context(k) \o <<l>>) = 3
             /\ \A i \in 1..2 : (Context(k) \o <<l>>)[i] = Context(k)[i]
  <2>1. PICK s \in Seq(Words) : s = Context(k)
    BY <1>2
  <2>2. PICK t \in Seq(Words) : t = <<l>> /\ Len(t) = 1
    <3>1. <<l>> \in Seq(Words) /\ Len(<<l>>) = 1
      OBVIOUS
    <3> QED BY <3>1
  <2>3. Len(s) = 2
    BY <1>2, <2>1
  <2>4. s \o t \in Seq(Words) /\ Len(s \o t) = 3 /\ \A i \in 1..2 : (s \o t)[i] = s[i]
    <3>1. /\ s \o t \in Seq(Words) /\ Len(s \o t) = Len(s) + Len(t)
          /\ \A i \in 1..Len(s) : (s \o t)[i] = s[i]
      BY JoinIs
    <3>2. Len(t) = 1
      BY <2>2
    <3> QED BY <2>3, <3>1, <3>2
  <2> QED BY <2>1, <2>2, <2>4
<1>4. ASSUME NEW at \in Seq(Words), Len(at) \in 2..3, at[1] = "context", at[2] = k
      PROVE  /\ InContext(Keys(at, keys))
             /\ Len(at) = 2 \/ k # "http" => NoResponse(Keys(at, keys))
  <2>1. /\ Keys(at, keys) \subseteq Seq(Words)
        /\ \A p \in Keys(at, keys) :
              Len(p) = Len(at) + 1 /\ \A i \in 1..Len(at) : p[i] = at[i]
    BY KeysAre
  <2> QED BY <1>4, <2>1 DEF InContext, NoResponse
<1>5. InContext(Keys(Context(k), keys)) /\ NoResponse(Keys(Context(k), keys))
  BY <1>2, <1>4
<1>6. ASSUME NEW l \in Words
      PROVE  /\ InContext(Keys(Context(k) \o <<l>>, keys))
             /\ k # "http" => NoResponse(Keys(Context(k) \o <<l>>, keys))
  <2>1. PICK at \in Seq(Words) : at = Context(k) \o <<l>>
    BY <1>3
  <2>2. Len(at) = 3 /\ at[1] = "context" /\ at[2] = k
    BY <1>2, <1>3, <2>1
  <2>3. InContext(Keys(at, keys)) /\ (k # "http" => NoResponse(Keys(at, keys)))
    BY <1>4, <2>2
  <2> QED BY <2>1, <2>3
<1> QED BY <1>5, <1>6

(* So are two sets of paths together. *)
LEMMA ContextUnion ==
    ASSUME NEW c, NEW d, InContext(c), InContext(d)
    PROVE  /\ InContext(c \cup d)
           /\ NoResponse(c) /\ NoResponse(d) => NoResponse(c \cup d)
BY DEF InContext, NoResponse

(* The sizes of a response are among the keys. *)
LEMMA SizesAre == Sizes \in SUBSET Words
BY DEF Sizes, Words

(* Of a response at a page or a call, with or without server timing: its    *)
(* paths are in the context, and those of the page are of no call.          *)
LEMMA ResponsePaths ==
    /\ \A r \in getResponseContext(HttpResponse) : InContext(r)
    /\ \A r \in getResponseContext(Context("response")) : InContext(r) /\ NoResponse(r)
<1>1. {"context", "http", "response", "headers", "server-timing"} \subseteq Words
  BY DEF Words
<1>2. ASSUME NEW at \in Seq(Words), Len(at) \in 2..3, at[1] = "context",
             NEW r \in getResponseContext(at)
      PROVE  InContext(r) /\ (at[2] # "http" => NoResponse(r))
  <2>1. PICK p : p = at \o <<"headers", "server-timing">>
    OBVIOUS
  <2>2. p \in Seq(Words) /\ Len(p) > 3 /\ p[1] = "context" /\ p[2] = at[2]
    <3>1. PICK t \in Seq(Words) : t = <<"headers", "server-timing">> /\ Len(t) = 2
      <4>1. <<"headers", "server-timing">> \in Seq(Words)
        BY <1>1
      <4>2. Len(<<"headers", "server-timing">>) = 2
        OBVIOUS
      <4> QED BY <4>1, <4>2
    <3>2. Len(t) = 2
      BY <3>1
    <3>3. /\ at \o t \in Seq(Words) /\ Len(at \o t) = Len(at) + Len(t)
          /\ \A i \in 1..Len(at) : (at \o t)[i] = at[i]
      BY JoinIs
    <3>4. /\ at \o t \in Seq(Words) /\ Len(at \o t) > 3
          /\ (at \o t)[1] = "context" /\ (at \o t)[2] = at[2]
      BY <1>2, <3>2, <3>3
    <3> QED BY <2>1, <3>1, <3>4
  <2>3. /\ Keys(at, Sizes) \subseteq Seq(Words)
        /\ \A q \in Keys(at, Sizes) :
              Len(q) = Len(at) + 1 /\ \A i \in 1..Len(at) : q[i] = at[i]
    BY SizesAre, KeysAre
  <2>4. r \subseteq Keys(at, Sizes) \cup {p}
    BY <1>2, <2>1 DEF getResponseContext
  <2> QED BY <1>2, <2>2, <2>3, <2>4 DEF InContext, NoResponse
<1>3. /\ Context("response") \in Seq(Words) /\ Len(Context("response")) = 2
      /\ Context("response")[1] = "context" /\ Context("response")[2] = "response"
  BY <1>1 DEF Context
<1>4. HttpResponse \in Seq(Words) /\ Len(HttpResponse) = 3 /\ HttpResponse[1] = "context"
  <2>1. PICK h : h = HttpResponse
    OBVIOUS
  <2>2. /\ h \in Seq(Keywords) /\ Len(h) = 3 /\ h[1] = "context" /\ h[2] = "http"
        /\ h[3] = "response"
    BY <2>1, ContextAt
  <2>3. \A i \in 1..3 : h[i] \in Words
    BY <1>1, <2>2
  <2>4. PICK n \in Nat : n = 3
    OBVIOUS
  <2>5. h \in [1..n -> Words]
    BY <2>2, <2>3, <2>4
  <2>6. h \in Seq(Words)
    BY <2>5
  <2> QED BY <2>1, <2>2, <2>6
<1> QED BY <1>2, <1>3, <1>4

(* The contexts of spans: where a response is, the service is too. *)
LEMMA SpanContexts ==
    ASSUME NEW c \in addSpanContext
    PROVE  InContext(c) /\ (NoResponse(c) \/ Append(Service, "name") \in c)
<1>1. {"address", "port", "name", "resource", "type", "method", "url", "status_code",
       "destination", "service", "http"} \subseteq Words
  BY DEF Words
<1>2. PICK s : s = Keys(Service, {"name", "resource", "type"})
  OBVIOUS
<1>3. PICK a : a = Keys(Context("destination"), {"address", "port"})
  OBVIOUS
<1>4. InContext(s) /\ NoResponse(s) /\ InContext(a) /\ NoResponse(a)
  <2>1. /\ {"address", "port"} \in SUBSET Words /\ {"name", "resource", "type"} \in SUBSET Words
        /\ "destination" \in Words /\ "service" \in Words /\ "destination" # "http"
    BY <1>1
  <2> QED BY <1>2, <1>3, <2>1, ContextKeys DEF Service
<1>5. getDestination = a \cup s /\ Append(Service, "name") \in s
  BY <1>2, <1>3 DEF getDestination, Service, Keys
<1>6. InContext(getDestination) /\ NoResponse(getDestination)
  BY <1>4, <1>5, ContextUnion
<1>7. \A keys \in SUBSET {"method", "url", "status_code"} :
        InContext(Keys(Context("http"), keys)) /\ NoResponse(Keys(Context("http"), keys))
  BY <1>1, ContextKeys
<1>8. InContext({}) /\ NoResponse({})
  BY DEF InContext, NoResponse
<1>9. CASE c = Keys(Context("http"), {"method", "url", "status_code"}) \cup getDestination
  BY <1>6, <1>7, <1>9, ContextUnion
<1>10. CASE \E r \in getResponseContext(HttpResponse) :
              c = Keys(Context("http"), {"url"}) \cup r \cup getDestination
  <2>1. PICK r \in getResponseContext(HttpResponse) :
              c = Keys(Context("http"), {"url"}) \cup r \cup getDestination
    BY <1>10
  <2>2. InContext(Keys(Context("http"), {"url"})) /\ InContext(r)
    BY <1>7, ResponsePaths
  <2>3. InContext(Keys(Context("http"), {"url"}) \cup r)
    BY <2>2, ContextUnion
  <2>4. InContext(c)
    BY <1>6, <2>1, <2>3, ContextUnion
  <2> QED BY <1>5, <2>1, <2>4
<1>11. c = {} \/ c = getDestination
       \/ c = Keys(Context("http"), {"method", "url", "status_code"}) \cup getDestination
       \/ \E r \in getResponseContext(HttpResponse) :
              c = Keys(Context("http"), {"url"}) \cup r \cup getDestination
  BY DEF addSpanContext, HttpResponse
<1> QED BY <1>6, <1>8, <1>9, <1>10, <1>11

(* What the application adds to the context *)
LEMMA ApplicationPaths ==
    ASSUME NEW c \in {Labels, User, Custom}
    PROVE  InContext(c) /\ NoResponse(c)
<1>1. /\ {"label"} \in SUBSET Words /\ {"id", "email", "username"} \in SUBSET Words
      /\ {"key"} \in SUBSET Words /\ "tags" \in Words /\ "user" \in Words /\ "custom" \in Words
  BY DEF Words
<1> QED BY <1>1, ContextKeys DEF Labels, User, Custom

(* The contexts of transactions and errors have no response of a call. *)
LEMMA TransactionContexts ==
    ASSUME NEW c \in addTransactionContext
    PROVE  InContext(c) /\ NoResponse(c)
<1>1. {"referer", "url"} \in SUBSET Words /\ "page" \in Words
  BY DEF Words
<1>2. InContext(getPageContext) /\ NoResponse(getPageContext)
  BY <1>1, ContextKeys DEF getPageContext
<1>3. \E r \in {{}} \cup getResponseContext(Context("response")),
          a \in SUBSET {Labels, User, Custom} : c = getPageContext \cup r \cup UNION a
  <2>1. PICK A : A = {{}} \cup getResponseContext(Context("response"))
    OBVIOUS
  <2>2. PICK B : B = SUBSET {Labels, User, Custom}
    OBVIOUS
  <2>3. addTransactionContext = {getPageContext \cup r \cup UNION a : r \in A, a \in B}
    BY <2>1, <2>2 DEF addTransactionContext
  <2>4. \E r \in A, a \in B : c = getPageContext \cup r \cup UNION a
    BY <2>3
  <2> QED BY <2>1, <2>2, <2>4
<1>4. PICK r \in {{}} \cup getResponseContext(Context("response")),
           a \in SUBSET {Labels, User, Custom} : c = getPageContext \cup r \cup UNION a
  BY <1>3
<1>5. InContext(r) /\ NoResponse(r)
  BY ResponsePaths DEF InContext, NoResponse
<1>6. InContext(UNION a) /\ NoResponse(UNION a)
  <2>1. \A s \in a : InContext(s) /\ NoResponse(s)
    BY ApplicationPaths
  <2> QED BY <2>1 DEF InContext, NoResponse
<1>7. InContext(getPageContext \cup r) /\ NoResponse(getPageContext \cup r)
  BY <1>2, <1>5, ContextUnion
<1> QED BY <1>4, <1>6, <1>7, ContextUnion

(* The paths of an event that the rules of contexts suit                    *)
Rooted(paths) ==
    /\ paths \subseteq Seq(Words)
    /\ \A p \in paths : Len(p) > 0 /\ (Len(p) > 1 => p[1] \notin Inner)

(* The event has none of the objects of its context as its own. *)
LEMMA InnerIs ==
    {"context", "marks", "experience", "session", "breakdown", "exception", "transaction",
     "span_count"} \cap Inner = {}
BY DEF Inner

(* Rooted paths are closed under union; those in the context are rooted. *)
LEMMA RootedUnion ==
    ASSUME NEW c, NEW d
    PROVE  /\ Rooted(c) /\ Rooted(d) => Rooted(c \cup d)
           /\ InContext(c) => Rooted(c)
BY InnerIs DEF Rooted, InContext

(* Keys of an object that is at none of the inner ones are rooted. *)
LEMMA RootedKeys ==
    ASSUME NEW W, NEW at \in Seq(Words), NEW keys \in SUBSET Words,
           Len(at) > 0 => at[1] \notin Inner
    PROVE  Rooted(Keys(at, keys))
<1>1. /\ Keys(at, keys) \subseteq Seq(Words)
      /\ \A p \in Keys(at, keys) :
            Len(p) = Len(at) + 1 /\ \A i \in 1..Len(at) : p[i] = at[i]
  BY KeysAre
<1>2. Len(at) \in Nat
  OBVIOUS
<1> QED BY <1>1, <1>2 DEF Rooted

(* Short keys: those of the event, and of an object of it                   *)
LEMMA RootedAt ==
    ASSUME NEW at \in {<<>>, <<"exception">>, <<"transaction">>, <<"experience">>,
                       <<"session">>, <<"exception", "stacktrace">>,
                       <<"experience", "longtask">>},
           NEW keys \in SUBSET Words
    PROVE  Rooted(Keys(at, keys))
<1>1. {"exception", "transaction", "experience", "session", "stacktrace", "longtask"}
        \subseteq Words
  BY DEF Words
<1>2. at \in Seq(Words)
  <2>1. /\ <<"exception">> \in Seq(Words) /\ <<"transaction">> \in Seq(Words)
        /\ <<"experience">> \in Seq(Words) /\ <<"session">> \in Seq(Words)
    BY <1>1
  <2>2. /\ <<"exception", "stacktrace">> \in Seq(Words)
        /\ <<"experience", "longtask">> \in Seq(Words)
    BY <1>1
  <2>3. <<>> \in Seq(Words)
    OBVIOUS
  <2> QED BY <2>1, <2>2, <2>3
<1>3. Len(at) > 0 => at[1] \notin Inner
  BY InnerIs
<1> QED BY <1>2, <1>3, RootedKeys

(* The paths of events: well rooted, a response only with the service that  *)
(* was called, and what the model requires                                  *)
EventPaths(paths, required) ==
    /\ Rooted(paths) /\ required \subseteq paths
    /\ NoResponse(paths) \/ Append(Service, "name") \in paths

(* A key of the event itself *)
LEMMA RootKeyIs ==
    ASSUME NEW k
    PROVE  Len(Append(<<>>, k)) = 1 /\ Append(<<>>, k)[1] = k
<1>1. PICK S : S = {k}
  OBVIOUS
<1>2. <<>> \in Seq(S) /\ Len(<<>>) = 0 /\ k \in S
  BY <1>1
<1> QED BY <1>2

(* Of short keys none is of a response.                                     *)
LEMMA ShortPaths ==
    ASSUME NEW keys
    PROVE  NoResponse(Keys(<<>>, keys))
<1>1. \A k : Len(Append(<<>>, k)) = 1
  BY RootKeyIs
<1> QED BY <1>1 DEF Keys, NoResponse

(* What is captured of a span *)
LEMMA SpanPaths ==
    ASSUME NEW paths \in Captured.span
    PROVE  EventPaths(paths, Keys(<<>>, {"name", "type", "id", "trace_id", "parent_id",
                                         "transaction_id"}))
<1>1. SpanKeys \in SUBSET Words
      /\ {"name", "type", "id", "trace_id", "parent_id", "transaction_id"} \subseteq SpanKeys
  BY DEF Words, SpanKeys
<1>2. paths \in {Keys(<<>>, SpanKeys) \cup c \cup l : c \in addSpanContext, l \in {{}, Labels}}
  BY DEF Captured
<1>3. PICK c \in addSpanContext, l \in {{}, Labels} : paths = Keys(<<>>, SpanKeys) \cup c \cup l
  BY <1>2
<1>4. Rooted(Keys(<<>>, SpanKeys)) /\ NoResponse(Keys(<<>>, SpanKeys))
  <2>1. Rooted(Keys(<<>>, SpanKeys))
    BY <1>1, RootedAt
  <2> QED BY <2>1, ShortPaths
<1>5. Rooted(c) /\ (NoResponse(c) \/ Append(Service, "name") \in c)
  BY SpanContexts, RootedUnion
<1>6. Rooted(l) /\ NoResponse(l)
  <2>1. Rooted({}) /\ NoResponse({})
    BY DEF Rooted, NoResponse
  <2>2. Rooted(Labels) /\ NoResponse(Labels)
    BY ApplicationPaths, RootedUnion
  <2> QED BY <2>1, <2>2
<1>7. Rooted(paths)
  BY <1>3, <1>4, <1>5, <1>6, RootedUnion
<1>8. NoResponse(paths) \/ Append(Service, "name") \in paths
  BY <1>3, <1>4, <1>5, <1>6 DEF NoResponse
<1>9. Keys(<<>>, {"name", "type", "id", "trace_id", "parent_id", "transaction_id"}) \subseteq paths
  BY <1>1, <1>3 DEF Keys
<1> QED BY <1>7, <1>8, <1>9 DEF EventPaths

(* A page load *)
LEMMA MarkPaths ==
    ASSUME NEW m \in Marks
    PROVE  Rooted(m) /\ NoResponse(m)
<1>1. /\ DOMAIN CompressedMarks \subseteq Words /\ Paints \subseteq Words
      /\ {"marks", "navigationTiming", "agent", "timeToFirstByte", "domInteractive",
           "domComplete", "custom", "mark", "experience", "longtask", "session"} \subseteq Words
      /\ {"cls", "fid", "tbt"} \in SUBSET Words /\ {"count", "sum", "max"} \in SUBSET Words
      /\ {"id", "sequence"} \in SUBSET Words
  BY DEF Words
<1>2. \A k \in Words, a \in {"navigationTiming", "agent", "custom"} :
         /\ <<"marks", a, k>> \in Seq(Words) /\ Len(<<"marks", a, k>>) = 3
         /\ <<"marks", a, k>>[1] = "marks"
  BY <1>1
<1>3. ASSUME NEW s, \A p \in s : \E k \in Words, a \in {"navigationTiming", "agent", "custom"} :
                                  p = <<"marks", a, k>>
      PROVE  Rooted(s) /\ NoResponse(s)
  <2>1. ASSUME NEW p \in s
        PROVE  p \in Seq(Words) /\ Len(p) > 0 /\ ~(Len(p) > 3) /\ p[1] = "marks"
    <3>1. PICK k \in Words, a \in {"navigationTiming", "agent", "custom"} : p = <<"marks", a, k>>
      BY <1>3
    <3>2. p \in Seq(Words) /\ Len(p) = 3 /\ p[1] = "marks"
      BY <1>2, <3>1
    <3> QED BY <3>2
  <2>2. \A p \in s : Len(p) > 0 /\ ~(Len(p) > 3) /\ p[1] = "marks"
    BY <2>1
  <2>3. "marks" \notin Inner
    BY InnerIs
  <2>4. s \subseteq Seq(Words)
    BY <2>1
  <2> QED BY <2>2, <2>3, <2>4 DEF Rooted, NoResponse
<1>4. PICK t : t = {Timing(k) : k \in DOMAIN CompressedMarks}
  OBVIOUS
<1>5. PICK a : a = {AgentMark(k) : k \in Paints \cup {"timeToFirstByte", "domInteractive",
                                                    "domComplete"}}
  OBVIOUS
<1>6. PICK o : o = {<<"marks", "custom", "mark">>}
  OBVIOUS
<1>7. Rooted(t) /\ NoResponse(t)
  BY <1>1, <1>3, <1>4 DEF Timing
<1>8. Rooted(a) /\ NoResponse(a)
  BY <1>1, <1>3, <1>5 DEF AgentMark
<1>9. Rooted(o) /\ NoResponse(o)
  BY <1>1, <1>3, <1>6
<1>10. \A at \in {<<"experience">>, <<"session">>, <<"experience", "longtask">>} :
         \A keys \in SUBSET Words : Rooted(Keys(at, keys)) /\ NoResponse(Keys(at, keys))
  <2> SUFFICES ASSUME NEW at \in {<<"experience">>, <<"session">>, <<"experience", "longtask">>},
                      NEW keys \in SUBSET Words
               PROVE  Rooted(Keys(at, keys)) /\ NoResponse(Keys(at, keys))
    OBVIOUS
  <2>1. Rooted(Keys(at, keys))
    BY RootedAt
  <2>2. at \in Seq(Words) /\ Len(at) <= 2
    <3>1. /\ <<"experience">> \in Seq(Words) /\ Len(<<"experience">>) <= 2
          /\ <<"session">> \in Seq(Words) /\ Len(<<"session">>) <= 2
      BY <1>1
    <3>2. <<"experience", "longtask">> \in Seq(Words) /\ Len(<<"experience", "longtask">>) <= 2
      BY <1>1
    <3> QED BY <3>1, <3>2
  <2>3. \A p \in Keys(at, keys) : Len(p) = Len(at) + 1
    BY <2>2, KeysAre
  <2> QED BY <2>1, <2>2, <2>3 DEF NoResponse
<1>11. /\ Rooted(Experience) /\ NoResponse(Experience)
       /\ Rooted(Session) /\ NoResponse(Session)
  <2>1. /\ Rooted(Keys(<<"experience">>, {"cls", "fid", "tbt"}))
        /\ NoResponse(Keys(<<"experience">>, {"cls", "fid", "tbt"}))
        /\ Rooted(Keys(<<"experience", "longtask">>, {"count", "sum", "max"}))
        /\ NoResponse(Keys(<<"experience", "longtask">>, {"count", "sum", "max"}))
        /\ Rooted(Keys(<<"session">>, {"id", "sequence"}))
        /\ NoResponse(Keys(<<"session">>, {"id", "sequence"}))
    BY <1>1, <1>10
  <2> QED BY <2>1, RootedUnion DEF Experience, Session, NoResponse
<1>12. m \in {{}, t \cup a \cup Experience \cup Session, o,
              t \cup a \cup Experience \cup Session \cup o}
  BY <1>4, <1>5, <1>6 DEF Marks
<1>13. PICK e : e = t \cup a \cup Experience \cup Session
  OBVIOUS
<1>14. Rooted(e) /\ NoResponse(e)
  BY <1>7, <1>8, <1>11, <1>13 DEF Rooted, NoResponse
<1>15. Rooted({}) /\ NoResponse({})
  BY DEF Rooted, NoResponse
<1>16. Rooted(e \cup o) /\ NoResponse(e \cup o)
  BY <1>9, <1>14 DEF Rooted, NoResponse
<1> QED BY <1>9, <1>12, <1>13, <1>14, <1>15, <1>16

(* A breakdown *)
LEMMA BreakdownPaths ==
    ASSUME NEW b \in Breakdown
    PROVE  Rooted(b) /\ NoResponse(b)
<1>1. {"breakdown", "span", "type", "samples", "value", "span.self_time.count",
       "span.self_time.sum.us", "transaction.duration.count", "transaction.duration.sum.us",
       "transaction.breakdown.count"} \subseteq Words
  BY DEF Words
<1>2. \A k \in Words : /\ Sample(k) \in Seq(Words) /\ Len(Sample(k)) = 4
                       /\ Sample(k)[1] = "breakdown" /\ Sample(k)[2] = "samples"
  BY <1>1 DEF Sample
<1>3. /\ <<"breakdown", "span", "type">> \in Seq(Words)
      /\ Len(<<"breakdown", "span", "type">>) = 3
      /\ <<"breakdown", "span", "type">>[1] = "breakdown"
  BY <1>1
<1>4. \A p \in b : p = <<"breakdown", "span", "type">> \/ \E k \in Words : p = Sample(k)
  BY <1>1 DEF Breakdown
<1>5. \A p \in b : p \in Seq(Words) /\ Len(p) > 0 /\ p[1] = "breakdown"
                   /\ (Len(p) > 3 => p[2] = "samples")
  <2> SUFFICES ASSUME NEW p \in b
               PROVE  p \in Seq(Words) /\ Len(p) > 0 /\ p[1] = "breakdown"
                      /\ (Len(p) > 3 => p[2] = "samples")
    OBVIOUS
  <2>1. CASE p = <<"breakdown", "span", "type">>
    <3>1. p \in Seq(Words) /\ Len(p) = 3 /\ p[1] = "breakdown"
      BY <1>3, <2>1
    <3> QED BY <3>1
  <2>2. CASE \E k \in Words : p = Sample(k)
    <3>1. PICK k \in Words : p = Sample(k)
      BY <2>2
    <3> QED BY <1>2, <3>1
  <2> QED BY <1>4, <2>1, <2>2
<1> QED BY <1>5, InnerIs DEF Rooted, NoResponse

(* What is captured of a transaction *)
LEMMA TransactionPaths ==
    ASSUME NEW paths \in Captured.transaction
    PROVE  EventPaths(paths, Keys(<<>>, {"type", "id", "trace_id"})
                               \cup {<<"span_count", "started">>})
<1>1. /\ TransactionKeys \in SUBSET Words /\ {"type", "id", "trace_id"} \subseteq TransactionKeys
      /\ "span_count" \in Words /\ "started" \in Words
  BY DEF Words, TransactionKeys
<1>2. PICK n : n = Keys(<<>>, TransactionKeys) \cup {<<"span_count", "started">>}
  OBVIOUS
<1>3. paths \in {n \cup c \cup m \cup b :
                    c \in addTransactionContext, m \in Marks, b \in Breakdown}
  BY <1>2 DEF Captured, createTransactionDataModel
<1>4. PICK c \in addTransactionContext, m \in Marks, b \in Breakdown :
        paths = n \cup c \cup m \cup b
  BY <1>3
<1>5. Rooted(n) /\ NoResponse(n)
  <2>1. Rooted(Keys(<<>>, TransactionKeys)) /\ NoResponse(Keys(<<>>, TransactionKeys))
    BY <1>1, RootedAt, ShortPaths
  <2>2. /\ <<"span_count", "started">> \in Seq(Words) /\ Len(<<"span_count", "started">>) = 2
        /\ <<"span_count", "started">>[1] = "span_count"
    BY <1>1
  <2>3. PICK p : p = <<"span_count", "started">>
    OBVIOUS
  <2>4. /\ p \in Seq(Words) /\ Len(p) > 0 /\ ~(Len(p) > 3)
        /\ p[1] = "span_count" /\ "span_count" \notin Inner
    BY <2>2, <2>3, InnerIs
  <2>5. Rooted({p}) /\ NoResponse({p})
    BY <2>4 DEF Rooted, NoResponse
  <2> QED BY <1>2, <2>1, <2>3, <2>5 DEF Rooted, NoResponse
<1>6. Rooted(c) /\ NoResponse(c)
  BY TransactionContexts, RootedUnion
<1>7. Rooted(m) /\ NoResponse(m) /\ Rooted(b) /\ NoResponse(b)
  BY MarkPaths, BreakdownPaths
<1>8. Rooted(paths) /\ NoResponse(paths)
  BY <1>4, <1>5, <1>6, <1>7 DEF Rooted, NoResponse
<1>9. Keys(<<>>, {"type", "id", "trace_id"}) \cup {<<"span_count", "started">>} \subseteq paths
  BY <1>1, <1>2, <1>4 DEF Keys
<1> QED BY <1>8, <1>9 DEF EventPaths

(* What is captured of an error *)
LEMMA ErrorPaths ==
    ASSUME NEW paths \in Captured.error
    PROVE  EventPaths(paths, Keys(<<>>, {"id"}))
<1>1. /\ {"id", "culprit"} \in SUBSET Words /\ {"message", "type"} \in SUBSET Words
      /\ {"trace_id", "parent_id", "transaction_id"} \in SUBSET Words
      /\ {"type", "sampled"} \in SUBSET Words
      /\ {"abs_path", "filename", "function", "lineno", "colno"} \in SUBSET Words
      /\ {"exception", "transaction", "stacktrace"} \subseteq Words
  BY DEF Words
<1>2. PICK n : n = Keys(<<>>, {"id", "culprit"}) \cup Keys(<<"exception">>, {"message", "type"})
                     \cup Frame
  OBVIOUS
<1>3. PICK o : o = Keys(<<>>, {"trace_id", "parent_id", "transaction_id"})
                    \cup Keys(<<"transaction">>, {"type", "sampled"})
  OBVIOUS
<1>4. paths \in {n \cup c \cup t : c \in addTransactionContext, t \in {{}, o}}
  BY <1>2, <1>3 DEF Captured, createErrorDataModel
<1>5. PICK c \in addTransactionContext, t \in {{}, o} : paths = n \cup c \cup t
  BY <1>4
<1>6. \A at \in {<<>>, <<"exception">>, <<"transaction">>, <<"exception", "stacktrace">>} :
         \A keys \in SUBSET Words : Rooted(Keys(at, keys)) /\ NoResponse(Keys(at, keys))
  <2> SUFFICES ASSUME NEW at \in {<<>>, <<"exception">>, <<"transaction">>,
                                  <<"exception", "stacktrace">>},
                      NEW keys \in SUBSET Words
               PROVE  Rooted(Keys(at, keys)) /\ NoResponse(Keys(at, keys))
    OBVIOUS
  <2>1. Rooted(Keys(at, keys))
    BY RootedAt
  <2>2. at \in Seq(Words) /\ Len(at) <= 2
    <3>1. /\ <<"exception">> \in Seq(Words) /\ Len(<<"exception">>) <= 2
          /\ <<"transaction">> \in Seq(Words) /\ Len(<<"transaction">>) <= 2
          /\ <<>> \in Seq(Words) /\ Len(<<>>) <= 2
      BY <1>1
    <3>2. /\ <<"exception", "stacktrace">> \in Seq(Words)
          /\ Len(<<"exception", "stacktrace">>) <= 2
      BY <1>1
    <3> QED BY <3>1, <3>2
  <2>3. \A p \in Keys(at, keys) : Len(p) = Len(at) + 1
    BY <2>2, KeysAre
  <2> QED BY <2>1, <2>2, <2>3 DEF NoResponse
<1>7. Rooted(n) /\ NoResponse(n)
  <2>1. /\ Rooted(Keys(<<>>, {"id", "culprit"})) /\ NoResponse(Keys(<<>>, {"id", "culprit"}))
        /\ Rooted(Keys(<<"exception">>, {"message", "type"}))
        /\ NoResponse(Keys(<<"exception">>, {"message", "type"}))
        /\ Rooted(Frame) /\ NoResponse(Frame)
    BY <1>1, <1>6 DEF Frame
  <2> QED BY <1>2, <2>1 DEF Rooted, NoResponse
<1>8. Rooted(o) /\ NoResponse(o)
  <2>1. /\ Rooted(Keys(<<>>, {"trace_id", "parent_id", "transaction_id"}))
        /\ NoResponse(Keys(<<>>, {"trace_id", "parent_id", "transaction_id"}))
        /\ Rooted(Keys(<<"transaction">>, {"type", "sampled"}))
        /\ NoResponse(Keys(<<"transaction">>, {"type", "sampled"}))
    BY <1>1, <1>6
  <2> QED BY <1>3, <2>1 DEF Rooted, NoResponse
<1>9. Rooted(c) /\ NoResponse(c)
  BY TransactionContexts, RootedUnion
<1>10. Rooted({}) /\ NoResponse({})
  BY DEF Rooted, NoResponse
<1>11. Rooted(paths) /\ NoResponse(paths)
  BY <1>5, <1>7, <1>8, <1>9, <1>10 DEF Rooted, NoResponse
<1>12. Keys(<<>>, {"id"}) \subseteq paths
  BY <1>2, <1>5 DEF Keys
<1> QED BY <1>11, <1>12 DEF EventPaths

(* What is sent of the agent *)
LEMMA MetadataPaths ==
    ASSUME NEW paths \in Captured.metadata
    PROVE  /\ paths \subseteq Seq(Words)
           /\ \A p \in paths : Len(p) > 1 /\ p[1] \in {"service", "labels"}
           /\ Keys(<<"service">>, {"name", "version", "environment"}) \subseteq paths
           /\ Keys(<<"service", "agent">>, {"name", "version"}) \subseteq paths
<1>1. /\ "service" \in Words /\ "agent" \in Words /\ "language" \in Words /\ "name" \in Words
      /\ "labels" \in Words /\ "label" \in Words
      /\ {"name", "version", "environment"} \in SUBSET Words /\ {"name", "version"} \in SUBSET Words
  BY DEF Words
<1>2. PICK s : s = Keys(<<"service">>, {"name", "version", "environment"})
  OBVIOUS
<1>3. PICK a : a = Keys(<<"service", "agent">>, {"name", "version"})
  OBVIOUS
<1>4. paths = s \cup a \cup {<<"service", "language", "name">>, <<"labels", "label">>}
  BY <1>2, <1>3 DEF Captured, createMetaData
<1>5. s \subseteq Seq(Words) /\ \A p \in s : Len(p) > 1 /\ p[1] = "service"
  <2>1. PICK at \in Seq(Words) : at = <<"service">> /\ Len(at) = 1 /\ at[1] = "service"
    <3>1. <<"service">> \in Seq(Words)
      BY <1>1
    <3> QED BY <3>1
  <2>2. Len(at) = 1 /\ at[1] = "service" /\ s = Keys(at, {"name", "version", "environment"})
    BY <1>2, <2>1
  <2>3. PICK keys \in SUBSET Words : keys = {"name", "version", "environment"}
    BY <1>1
  <2>4. /\ Keys(at, keys) \subseteq Seq(Words)
        /\ \A p \in Keys(at, keys) :
              Len(p) = Len(at) + 1 /\ \A i \in 1..Len(at) : p[i] = at[i]
    BY KeysAre
  <2>5. s = Keys(at, keys)
    BY <2>2, <2>3
  <2> QED BY <2>2, <2>4, <2>5
<1>6. a \subseteq Seq(Words) /\ \A p \in a : Len(p) > 1 /\ p[1] = "service"
  <2>1. PICK at \in Seq(Words) : at = <<"service", "agent">> /\ Len(at) = 2 /\ at[1] = "service"
    <3>1. <<"service", "agent">> \in Seq(Words)
      BY <1>1
    <3> QED BY <3>1
  <2>2. Len(at) = 2 /\ at[1] = "service" /\ a = Keys(at, {"name", "version"})
    BY <1>3, <2>1
  <2>3. PICK keys \in SUBSET Words : keys = {"name", "version"}
    BY <1>1
  <2>4. /\ Keys(at, keys) \subseteq Seq(Words)
        /\ \A p \in Keys(at, keys) :
              Len(p) = Len(at) + 1 /\ \A i \in 1..Len(at) : p[i] = at[i]
    BY KeysAre
  <2>5. a = Keys(at, keys)
    BY <2>2, <2>3
  <2> QED BY <2>2, <2>4, <2>5
<1>7. /\ <<"service", "language", "name">> \in Seq(Words) /\ <<"labels", "label">> \in Seq(Words)
      /\ Len(<<"service", "language", "name">>) > 1 /\ Len(<<"labels", "label">>) > 1
      /\ <<"service", "language", "name">>[1] = "service" /\ <<"labels", "label">>[1] = "labels"
  BY <1>1
<1>8. s \subseteq paths /\ a \subseteq paths
  BY <1>4
<1>9. ASSUME NEW p \in paths
      PROVE  p \in Seq(Words) /\ Len(p) > 1 /\ p[1] \in {"service", "labels"}
  <2>1. CASE p \in s \cup a
    BY <1>5, <1>6, <2>1
  <2>2. CASE p = <<"service", "language", "name">>
    BY <1>7, <2>2
  <2>3. CASE p = <<"labels", "label">>
    BY <1>7, <2>3
  <2> QED BY <1>4, <2>1, <2>2, <2>3
<1> QED BY <1>2, <1>3, <1>8, <1>9

-----------------------------------------------------------------------------
(* The models suit the events                                              *)

(* Objects with any values at these paths, all of them of the event         *)
Captures(paths) ==
    {b \in ObjectOf(Objects(paths), Keywords, Seq(Keywords) \cup {<<"N/A">>}) :
       /\ DOMAIN b.values = paths
       /\ \A p \in paths : b.values[p].of # <<"N/A">>}

(* Fitting rules in order suit an event, if a response comes with the       *)
(* service.                                                                 *)
LEMMA ModelSuits ==
    ASSUME NEW paths \in SUBSET Seq(Words), \A p \in paths : Len(p) > 0,
           NEW b \in Captures(paths),
           NEW m \in Seq(Fitting(Objects(paths), paths)), InOrder(m),
           HttpResponse \in Objects(paths) => Service \in Objects(paths)
    PROVE  Suits(m, b, Objects(paths), Keywords, Seq(Keywords) \cup {<<"N/A">>})
<1>1. PICK O : O = Objects(paths)
  OBVIOUS
<1>2. PICK P : P = Seq(Keywords) \cup {<<"N/A">>}
  OBVIOUS
<1>3. paths \in SUBSET Seq(Keywords)
  BY DEF Keywords
<1>4. O \subseteq Seq(Keywords) /\ Closed(O) /\ \A p \in paths : Front(p) \in O
  BY <1>1, <1>3, ObjectsAre
<1>5. /\ b \in ObjectOf(O, Keywords, P) /\ DOMAIN b.values = paths
      /\ \A p \in paths : b.values[p].of # <<"N/A">>
  BY <1>1, <1>2 DEF Captures
<1>6. m \in Seq(RuleOf(Keywords))
  BY DEF InOrder
<1>7. ASSUME NEW i \in 1..Len(m)
      PROVE  /\ Nests(O, m[i].at)
             /\ m[i].required /\ m[i].key # "*" =>
                  m[i].at \in O /\ Append(m[i].at, m[i].key) \in paths
  <2>1. m[i] \in Fitting(O, paths)
    BY <1>1
  <2> QED BY <2>1 DEF Fitting
<1>8. ASSUME NEW i \in 1..Len(m), m[i].required, m[i].key = "*"
      PROVE  /\ m[i].at # <<>>
             /\ \A j \in 1..(i - 1) : m[j].at # m[i].at
             /\ m[i].at \notin O => \E j \in 1..(i - 1) : m[j].key = "*" /\ m[j].at \notin O
  <2>1. m[i] \notin NotAll
    BY <1>8 DEF NotAll
  <2>2. /\ m[i] \in All
        /\ \A j \in 1..(i - 1) : m[j] \in Before
        /\ \E j \in 1..(i - 1) : m[j] \in Call
    BY <2>1 DEF InOrder
  <2>3. m[i].at = Service /\ Service # <<>>
    BY <2>2, ContextAt DEF All
  <2>4. \A j \in 1..(i - 1) : m[j].at # Service
    BY <2>2 DEF Before
  <2>5. PICK j \in 1..(i - 1) : m[j].key = "*" /\ m[j].at = HttpResponse
    BY <2>2 DEF Call
  <2> QED BY <1>1, <2>3, <2>4, <2>5
<1> QED BY <1>1, <1>2, <1>4, <1>5, <1>6, <1>7, <1>8 DEF Suits

(* The rules of single keys at one object *)
LEMMA PlainRules ==
    ASSUME NEW O, NEW D, NEW at \in Seq(Keywords), at # Service, Nests(O, at),
           NEW keys \in Seq(Keywords), NEW required \in BOOLEAN,
           required => at \in O /\ \A i \in 1..Len(keys) :
                                      keys[i] # "*" /\ Append(at, keys[i]) \in D
    PROVE  Rules(at, keys, required) \in Seq(Before \cap Fitting(O, D))
<1>1. PICK X : X = Before \cap Fitting(O, D)
  OBVIOUS
<1>2. ASSUME NEW k \in Keywords, \E i \in 1..Len(keys) : k = keys[i]
      PROVE  [at |-> at, key |-> k, required |-> required] \in X
  <2>1. required => at \in O /\ k # "*" /\ Append(at, k) \in D
    BY <1>2
  <2>2. PICK r : r = [at |-> at, key |-> k, required |-> required]
    OBVIOUS
  <2>3. r \in RuleOf(Keywords) /\ r.at = at /\ r.key = k /\ r.required = required
    BY <2>2 DEF RuleOf
  <2>4. r \in Before /\ r \in Fitting(O, D)
    BY <2>1, <2>3 DEF Before, NotAll, Fitting
  <2> QED BY <1>1, <2>2, <2>4
<1>3. Rules(at, keys, required) \in Seq(X)
  BY <1>2, RulesIn
<1> QED BY <1>1, <1>3

(* Before the rules of the context come rules of single keys.               *)
LEMMA EventSuits ==
    ASSUME NEW paths, NEW required, EventPaths(paths, required), NEW b \in Captures(paths),
           NEW s \in Seq(Before \cap Fitting(Objects(paths), paths))
    PROVE  Suits(s \o CONTEXT_MODEL, b, Objects(paths), Keywords, Seq(Keywords) \cup {<<"N/A">>})
<1>1. PICK O : O = Objects(paths)
  OBVIOUS
<1>2. PICK F : F = Fitting(O, paths)
  OBVIOUS
<1>3. paths \in SUBSET Seq(Words) /\ \A p \in paths : Len(p) > 0
  BY DEF EventPaths, Rooted
<1>4. /\ \A p \in paths : Front(p) \in O
      /\ \A q \in O : \E p \in paths : Len(p) > Len(q) /\ \A i \in 1..Len(q) : p[i] = q[i]
  BY <1>1, <1>3, ObjectsAre
<1>5. ASSUME NEW k \in Inner, <<k>> \in O PROVE FALSE
  <2>1. PICK p \in paths : Len(p) > Len(<<k>>) /\ \A i \in 1..Len(<<k>>) : p[i] = <<k>>[i]
    BY <1>4, <1>5
  <2>2. Len(<<k>>) = 1 /\ <<k>>[1] = k
    OBVIOUS
  <2>3. Len(p) > 1 /\ p[1] = k
    BY <2>1, <2>2
  <2> QED BY <2>3 DEF EventPaths, Rooted
<1>6. InOrder(CONTEXT_MODEL) /\ CONTEXT_MODEL \in Seq(F)
  BY <1>2, <1>5, ContextModel
<1>7. s \in Seq(Before) /\ s \in Seq(F)
  BY <1>1, <1>2
<1>8. InOrder(s \o CONTEXT_MODEL)
  BY <1>6, <1>7, OrderAfter
<1>9. s \o CONTEXT_MODEL \in Seq(F)
  BY <1>6, <1>7
<1>10. HttpResponse \in O => Service \in O
  <2> SUFFICES ASSUME HttpResponse \in O PROVE Service \in O
    OBVIOUS
  <2>1. PICK p \in paths : /\ Len(p) > Len(HttpResponse)
                           /\ \A i \in 1..Len(HttpResponse) : p[i] = HttpResponse[i]
    BY <1>4
  <2>2. Len(p) > 3 /\ p[2] = "http" /\ p[3] = "response"
    BY <2>1, ContextAt
  <2>3. Append(Service, "name") \in paths
    BY <2>2 DEF EventPaths, NoResponse
  <2>4. PICK v \in Seq(Keywords) : v = Service
    BY ContextAt
  <2>5. "name" \in Keywords
    BY DEF Keywords, Words
  <2>6. Front(Append(v, "name")) = v
    BY <2>5 DEF Front
  <2> QED BY <1>4, <2>3, <2>4, <2>6
<1>11. s \o CONTEXT_MODEL \in Seq(Fitting(Objects(paths), paths))
       /\ (HttpResponse \in Objects(paths) => Service \in Objects(paths))
  BY <1>1, <1>2, <1>9, <1>10
<1> QED BY <1>3, <1>8, <1>11, ModelSuits

(* Rules of keys of the event, or of an object next to the context          *)
LEMMA EventRules ==
    ASSUME NEW O, NEW D, NEW at \in Seq(Keywords), Len(at) < 3, Nests(O, at),
           NEW K \in SUBSET Keywords, NEW keys \in Seq(K), NEW required \in BOOLEAN,
           required => at \in O /\ K \subseteq Words /\ Keys(at, K) \subseteq D
    PROVE  Rules(at, keys, required) \in Seq(Before \cap Fitting(O, D))
<1>1. at # Service
  <2> SUFFICES ASSUME at = Service PROVE FALSE
    OBVIOUS
  <2>1. Len(at) = 3
    BY ContextAt
  <2> QED BY <2>1
<1>2. \A i \in 1..Len(keys) : keys[i] \in K
  BY ElementOfSeq
<1>3. keys \in Seq(Keywords)
  OBVIOUS
<1>4. "*" \notin Words
  BY DEF Words, SpanKeys, TransactionKeys, Sizes, CompressedMarks, Paints
<1>5. required => at \in O /\ \A i \in 1..Len(keys) :
                                keys[i] # "*" /\ Append(at, keys[i]) \in D
  BY <1>2, <1>4 DEF Keys
<1> QED BY <1>1, <1>3, <1>5, PlainRules

(* The event itself is among its objects. *)
LEMMA RootIs ==
    ASSUME NEW paths \in SUBSET Seq(Words), \A p \in paths : Len(p) > 0, paths # {}
    PROVE  <<>> \in Objects(paths)
<1>1. PICK p \in paths : Len(p) > 0
  OBVIOUS
<1>2. PICK q \in Objects(paths) : q = Front(p)
  BY ObjectsAre
<1>3. q \in Seq(Words) /\ 0 \in 0..Len(q)
  BY ObjectsAre
<1>4. SubSeq(q, 1, 0) \in Objects(paths)
  BY <1>3, ObjectsAre DEF Closed
<1>5. SubSeq(q, 1, 0) = <<>>
  BY <1>3
<1> QED BY <1>4, <1>5

(* An object at which there is a value *)
LEMMA ParentIs ==
    ASSUME NEW paths \in SUBSET Seq(Words), \A p \in paths : Len(p) > 0,
           NEW at \in Seq(Words), NEW k \in Words, Append(at, k) \in paths
    PROVE  at \in Objects(paths)
<1>1. Front(Append(at, k)) \in Objects(paths)
  BY ObjectsAre
<1>2. Front(Append(at, k)) = at
  BY DEF Front
<1> QED BY <1>1, <1>2

(* The model of each sort of event suits what is captured of it             *)
LEMMA SpanSuits ==
    ASSUME NEW paths \in Captured.span, NEW b \in Captures(paths)
    PROVE  Suits(SPAN_MODEL, b, Objects(paths), Keywords, Seq(Keywords) \cup {<<"N/A">>})
<1>1. PICK K : K = {"name", "type", "id", "trace_id", "parent_id", "transaction_id"}
  OBVIOUS
<1>2. PICK L : L = {"subtype", "action"}
  OBVIOUS
<1>3. PICK O : O = Objects(paths)
  OBVIOUS
<1>4. PICK X : X = Before \cap Fitting(O, paths)
  OBVIOUS
<1>5. K \in SUBSET Words /\ L \in SUBSET Words /\ Words \subseteq Keywords /\ "id" \in K
  BY <1>1, <1>2 DEF Words, Keywords, SpanKeys
<1>6. EventPaths(paths, Keys(<<>>, K))
  BY <1>1, SpanPaths
<1>7. Keys(<<>>, K) \subseteq paths /\ paths # {}
  BY <1>5, <1>6 DEF EventPaths, Keys
<1>8. <<>> \in O
  BY <1>3, <1>6, <1>7, RootIs DEF EventPaths, Rooted
<1>9. PICK at \in Seq(Keywords) : at = <<>> /\ Len(at) < 3 /\ Nests(O, at)
  <2>1. <<>> \in Seq(Keywords) /\ Len(<<>>) < 3 /\ Nests(O, <<>>)
    BY DEF Nests
  <2> QED BY <2>1
<1>10. PICK s \in Seq(K) : s = <<"name", "type", "id", "trace_id", "parent_id",
                                 "transaction_id">>
  <2>1. {"name", "type", "id", "trace_id", "parent_id", "transaction_id"} \subseteq K
    BY <1>1
  <2>2. <<"name", "type", "id", "trace_id", "parent_id", "transaction_id">> \in Seq(K)
    BY <2>1
  <2> QED BY <2>2
<1>11. PICK t \in Seq(L) : t = <<"subtype", "action">>
  <2>1. {"subtype", "action"} \subseteq L
    BY <1>2
  <2>2. <<"subtype", "action">> \in Seq(L)
    BY <2>1
  <2> QED BY <2>2
<1>12. Rules(at, s, TRUE) \in Seq(X)
  BY <1>4, <1>5, <1>7, <1>8, <1>9, EventRules
<1>13. Rules(at, t, FALSE) \in Seq(X)
  BY <1>4, <1>5, <1>9, EventRules
<1>14. Rules(at, s, TRUE) \o Rules(at, t, FALSE) \in Seq(X)
  BY <1>12, <1>13, JoinIs
<1>15. Suits((Rules(at, s, TRUE) \o Rules(at, t, FALSE)) \o CONTEXT_MODEL, b, O, Keywords,
             Seq(Keywords) \cup {<<"N/A">>})
  BY <1>3, <1>4, <1>6, <1>14, EventSuits
<1> QED BY <1>3, <1>9, <1>10, <1>11, <1>15 DEF SPAN_MODEL

(* That of transactions, with the count of spans, *)
LEMMA TransactionSuits ==
    ASSUME NEW paths \in Captured.transaction, NEW b \in Captures(paths)
    PROVE  Suits(TRANSACTION_MODEL, b, Objects(paths), Keywords,
                 Seq(Keywords) \cup {<<"N/A">>})
<1>1. PICK K : K = {"type", "id", "trace_id"}
  OBVIOUS
<1>2. PICK L : L = {"name", "parent_id"}
  OBVIOUS
<1>3. PICK M : M = {"started"}
  OBVIOUS
<1>4. PICK O : O = Objects(paths)
  OBVIOUS
<1>5. PICK X : X = Before \cap Fitting(O, paths)
  OBVIOUS
<1>6. /\ K \in SUBSET Words /\ L \in SUBSET Words /\ M \in SUBSET Words
      /\ Words \subseteq Keywords /\ "id" \in K /\ "span_count" \in Words /\ "started" \in Words
  BY <1>1, <1>2, <1>3 DEF Words, Keywords
<1>7. EventPaths(paths, Keys(<<>>, K) \cup {<<"span_count", "started">>})
  BY <1>1, TransactionPaths
<1>8. /\ Keys(<<>>, K) \subseteq paths /\ <<"span_count", "started">> \in paths
      /\ paths \in SUBSET Seq(Words) /\ \A p \in paths : Len(p) > 0
  BY <1>7 DEF EventPaths, Rooted
<1>9. <<>> \in O
  BY <1>4, <1>8, RootIs
<1>10. PICK at \in Seq(Keywords) : at = <<>> /\ Len(at) < 3 /\ Nests(O, at)
  <2>1. <<>> \in Seq(Keywords) /\ Len(<<>>) < 3 /\ Nests(O, <<>>)
    BY DEF Nests
  <2> QED BY <2>1
<1>11. PICK of \in Seq(Words) : of = <<"span_count">> /\ Len(of) = 1 /\ of[1] = "span_count"
  <2>1. <<"span_count">> \in Seq(Words)
    BY <1>6
  <2> QED BY <2>1
<1>12. Append(of, "started") \in paths
  <2>1. PICK p \in Seq(Words) : /\ p = <<"span_count", "started">> /\ Len(p) = 2
                                /\ p[1] = "span_count" /\ p[2] = "started"
    <3>1. {"span_count", "started"} \subseteq Words
      BY DEF Words
    <3>2. <<"span_count", "started">> \in Seq(Words)
      BY <3>1
    <3> QED BY <3>2
  <2>2. PICK q \in Seq(Words) : q = Append(of, "started")
    <3>1. "started" \in Words
      BY DEF Words
    <3>2. Append(of, "started") \in Seq(Words)
      BY <3>1
    <3> QED BY <3>2
  <2>3. Len(q) = 2 /\ q[1] = "span_count" /\ q[2] = "started"
    BY <1>6, <1>11, <2>2
  <2>4. p = q
    <3>1. \A i \in 1..2 : p[i] = q[i]
      BY <2>1, <2>3
    <3> QED BY <2>1, <2>3, <3>1, SeqEqual
  <2> QED BY <1>8, <2>1, <2>2, <2>4
<1>13. of \in O /\ of \in Seq(Keywords) /\ Len(of) < 3 /\ Nests(O, of)
  <2>1. of \in O
    BY <1>4, <1>6, <1>8, <1>12, ParentIs
  <2> QED BY <1>6, <1>11, <2>1 DEF Nests
<1>14. Keys(of, M) \subseteq paths
  BY <1>3, <1>12 DEF Keys
<1>15. PICK s \in Seq(L) : s = <<"name", "parent_id">>
  <2>1. {"name", "parent_id"} \subseteq L
    BY <1>2
  <2>2. <<"name", "parent_id">> \in Seq(L)
    BY <2>1
  <2> QED BY <2>2
<1>16. PICK t \in Seq(K) : t = <<"type", "id", "trace_id">>
  <2>1. {"type", "id", "trace_id"} \subseteq K
    BY <1>1
  <2>2. <<"type", "id", "trace_id">> \in Seq(K)
    BY <2>1
  <2> QED BY <2>2
<1>17. PICK u \in Seq(M) : u = <<"started">>
  <2>1. {"started"} \subseteq M
    BY <1>3
  <2>2. <<"started">> \in Seq(M)
    BY <2>1
  <2> QED BY <2>2
<1>18. Rules(at, s, FALSE) \in Seq(X)
  BY <1>5, <1>6, <1>10, EventRules
<1>19. Rules(at, t, TRUE) \in Seq(X)
  BY <1>5, <1>6, <1>8, <1>9, <1>10, EventRules
<1>20. Rules(of, u, TRUE) \in Seq(X)
  BY <1>5, <1>6, <1>13, <1>14, EventRules
<1>21. (Rules(at, s, FALSE) \o Rules(at, t, TRUE)) \o Rules(of, u, TRUE) \in Seq(X)
  <2>1. PICK f \in Seq(X) : f = Rules(at, s, FALSE) \o Rules(at, t, TRUE)
    BY <1>18, <1>19, JoinIs
  <2> QED BY <1>20, <2>1, JoinIs
<1>22. Suits(((Rules(at, s, FALSE) \o Rules(at, t, TRUE)) \o Rules(of, u, TRUE))
               \o CONTEXT_MODEL, b, O, Keywords, Seq(Keywords) \cup {<<"N/A">>})
  BY <1>4, <1>5, <1>7, <1>21, EventSuits
<1> QED BY <1>4, <1>10, <1>11, <1>15, <1>16, <1>17, <1>22 DEF TRANSACTION_MODEL

(* of errors, with the exception and the transaction, *)
LEMMA ErrorSuits ==
    ASSUME NEW paths \in Captured.error, NEW b \in Captures(paths)
    PROVE  Suits(ERROR_MODEL, b, Objects(paths), Keywords, Seq(Keywords) \cup {<<"N/A">>})
<1>1. PICK K : K = {"id"}
  OBVIOUS
<1>2. PICK L : L = {"trace_id", "transaction_id", "parent_id", "culprit"}
  OBVIOUS
<1>3. PICK M : M = {"type"}
  OBVIOUS
<1>4. PICK O : O = Objects(paths)
  OBVIOUS
<1>5. PICK X : X = Before \cap Fitting(O, paths)
  OBVIOUS
<1>6. /\ K \in SUBSET Words /\ L \in SUBSET Words /\ M \in SUBSET Words
      /\ Words \subseteq Keywords /\ "id" \in K
      /\ "exception" \in Keywords /\ "transaction" \in Keywords
  BY <1>1, <1>2, <1>3 DEF Words, Keywords
<1>7. EventPaths(paths, Keys(<<>>, K))
  BY <1>1, ErrorPaths
<1>8. Keys(<<>>, K) \subseteq paths /\ paths # {}
  BY <1>6, <1>7 DEF EventPaths, Keys
<1>9. <<>> \in O
  BY <1>4, <1>7, <1>8, RootIs DEF EventPaths, Rooted
<1>10. \A at \in {<<>>, <<"exception">>, <<"transaction">>} :
          at \in Seq(Keywords) /\ Len(at) < 3 /\ Nests(O, at)
  <2>1. ASSUME NEW k \in Keywords
        PROVE  <<k>> \in Seq(Keywords) /\ Len(<<k>>) < 3 /\ Nests(O, <<k>>)
    <3>1. PICK at \in Seq(Keywords) : at = <<k>> /\ Len(at) = 1
      <4>1. <<k>> \in Seq(Keywords) /\ Len(<<k>>) = 1
        OBVIOUS
      <4> QED BY <4>1
    <3>2. Len(at) < 3 /\ Nests(O, at)
      BY <3>1 DEF Nests
    <3> QED BY <3>1, <3>2
  <2>2. <<>> \in Seq(Keywords) /\ Len(<<>>) < 3 /\ Nests(O, <<>>)
    BY DEF Nests
  <2> QED BY <1>6, <2>1, <2>2
<1>11. PICK at \in Seq(Keywords) : at = <<>> /\ Len(at) < 3 /\ Nests(O, at)
  BY <1>10
<1>12. PICK ex \in Seq(Keywords) : ex = <<"exception">> /\ Len(ex) < 3 /\ Nests(O, ex)
  BY <1>10
<1>13. PICK tr \in Seq(Keywords) : tr = <<"transaction">> /\ Len(tr) < 3 /\ Nests(O, tr)
  BY <1>10
<1>14. PICK s \in Seq(K) : s = <<"id">>
  <2>1. {"id"} \subseteq K
    BY <1>1
  <2>2. <<"id">> \in Seq(K)
    BY <2>1
  <2> QED BY <2>2
<1>15. PICK t \in Seq(L) : t = <<"trace_id", "transaction_id", "parent_id", "culprit">>
  <2>1. {"trace_id", "transaction_id", "parent_id", "culprit"} \subseteq L
    BY <1>2
  <2>2. <<"trace_id", "transaction_id", "parent_id", "culprit">> \in Seq(L)
    BY <2>1
  <2> QED BY <2>2
<1>16. PICK u \in Seq(M) : u = <<"type">>
  <2>1. {"type"} \subseteq M
    BY <1>3
  <2>2. <<"type">> \in Seq(M)
    BY <2>1
  <2> QED BY <2>2
<1>17. Rules(at, s, TRUE) \in Seq(X)
  BY <1>5, <1>6, <1>8, <1>9, <1>11, EventRules
<1>18. Rules(at, t, FALSE) \in Seq(X)
  BY <1>5, <1>6, <1>11, EventRules
<1>19. Rules(ex, u, FALSE) \in Seq(X)
  BY <1>5, <1>6, <1>12, EventRules
<1>20. Rules(tr, u, FALSE) \in Seq(X)
  BY <1>5, <1>6, <1>13, EventRules
<1>21. PICK v : v = ((Rules(at, s, TRUE) \o Rules(at, t, FALSE)) \o Rules(ex, u, FALSE))
                       \o Rules(tr, u, FALSE)
  OBVIOUS
<1>22. v \in Seq(X)
  <2>1. PICK f \in Seq(X) : f = Rules(at, s, TRUE) \o Rules(at, t, FALSE)
    BY <1>17, <1>18, JoinIs
  <2>2. PICK g \in Seq(X) : g = f \o Rules(ex, u, FALSE)
    BY <1>19, JoinIs
  <2>3. v = g \o Rules(tr, u, FALSE)
    BY <1>21, <2>1, <2>2
  <2> QED BY <1>20, <2>3, JoinIs
<1>23. Suits(v \o CONTEXT_MODEL, b, O, Keywords, Seq(Keywords) \cup {<<"N/A">>})
  BY <1>4, <1>5, <1>7, <1>22, EventSuits
<1> QED BY <1>4, <1>11, <1>12, <1>13, <1>14, <1>15, <1>16, <1>21, <1>23 DEF ERROR_MODEL

(* and of the metadata, whose rules are about no context *)
LEMMA MetadataSuits ==
    ASSUME NEW paths \in Captured.metadata, NEW b \in Captures(paths)
    PROVE  Suits(METADATA_MODEL, b, Objects(paths), Keywords,
                 Seq(Keywords) \cup {<<"N/A">>})
<1>1. PICK O : O = Objects(paths)
  OBVIOUS
<1>2. PICK X : X = Before \cap Fitting(O, paths)
  OBVIOUS
<1>3. PICK N : N = {"name"}
  OBVIOUS
<1>4. PICK V : V = {"version"}
  OBVIOUS
<1>5. /\ N \in SUBSET Words /\ V \in SUBSET Words /\ {"environment"} \in SUBSET Keywords
      /\ {"*"} \in SUBSET Keywords /\ Words \subseteq Keywords
      /\ {"service", "agent", "labels", "name", "version"} \subseteq Words
  BY <1>3, <1>4 DEF Words, Keywords
<1>6. /\ paths \in SUBSET Seq(Words) /\ \A p \in paths : Len(p) > 1
      /\ \A p \in paths : p[1] \in {"service", "labels"}
      /\ Keys(<<"service">>, {"name", "version", "environment"}) \subseteq paths
      /\ Keys(<<"service", "agent">>, {"name", "version"}) \subseteq paths
  BY MetadataPaths
<1>7. \A p \in paths : Len(p) > 0
  BY <1>6
<1>8. \A q \in O : \E p \in paths : Len(p) > Len(q) /\ \A i \in 1..Len(q) : p[i] = q[i]
  BY <1>1, <1>6, <1>7, ObjectsAre
<1>9. PICK at \in Seq(Words) : at = <<"service">> /\ Len(at) = 1
  <2>1. <<"service">> \in Seq(Words) /\ Len(<<"service">>) = 1
    BY <1>5
  <2> QED BY <2>1
<1>10. PICK ag \in Seq(Words) : ag = <<"service", "agent">> /\ Len(ag) = 2 /\ ag[2] = "agent"
  <2>1. <<"service", "agent">> \in Seq(Words) /\ Len(<<"service", "agent">>) = 2
    BY <1>5
  <2> QED BY <2>1
<1>11. PICK lb \in Seq(Words) : lb = <<"labels">> /\ Len(lb) = 1
  <2>1. <<"labels">> \in Seq(Words) /\ Len(<<"labels">>) = 1
    BY <1>5
  <2> QED BY <2>1
<1>12. /\ Keys(at, N) \subseteq paths /\ Keys(ag, V) \subseteq paths
  BY <1>3, <1>4, <1>6, <1>9, <1>10 DEF Keys
<1>13. at \in O /\ ag \in O
  <2>1. Append(at, "name") \in paths /\ Append(ag, "version") \in paths
    BY <1>3, <1>4, <1>12 DEF Keys
  <2> QED BY <1>1, <1>5, <1>6, <1>7, <2>1, ParentIs
<1>14. Nests(O, at) /\ Nests(O, lb)
  BY <1>9, <1>11 DEF Nests
<1>15. Nests(O, ag)
  <2>1. <<"agent">> \notin O
    <3> SUFFICES ASSUME <<"agent">> \in O PROVE FALSE
      OBVIOUS
    <3>1. PICK p \in paths : Len(p) > Len(<<"agent">>)
                             /\ \A i \in 1..Len(<<"agent">>) : p[i] = <<"agent">>[i]
      BY <1>8
    <3>2. Len(<<"agent">>) = 1 /\ <<"agent">>[1] = "agent"
      OBVIOUS
    <3>3. p[1] = "agent"
      BY <3>1, <3>2
    <3> QED BY <1>6, <3>3
  <2>2. \A k \in 2..Len(ag) : k = 2
    BY <1>10
  <2> QED BY <1>10, <2>1, <2>2 DEF Nests
<1>16. HttpResponse \notin O
  <2> SUFFICES ASSUME HttpResponse \in O PROVE FALSE
    OBVIOUS
  <2>1. PICK p \in paths : /\ Len(p) > Len(HttpResponse)
                           /\ \A i \in 1..Len(HttpResponse) : p[i] = HttpResponse[i]
    BY <1>8
  <2>2. p[1] = "context"
    BY <2>1, ContextAt
  <2> QED BY <1>6, <2>2
<1>17. /\ at \in Seq(Keywords) /\ Len(at) < 3 /\ ag \in Seq(Keywords) /\ Len(ag) < 3
       /\ lb \in Seq(Keywords) /\ Len(lb) < 3
       /\ N \in SUBSET Keywords /\ V \in SUBSET Keywords
  BY <1>5, <1>9, <1>10, <1>11
<1>18. PICK n \in Seq(N) : n = <<"name">>
  <2>1. {"name"} \subseteq N
    BY <1>3
  <2>2. <<"name">> \in Seq(N)
    BY <2>1
  <2> QED BY <2>2
<1>19. PICK v \in Seq(V) : v = <<"version">>
  <2>1. {"version"} \subseteq V
    BY <1>4
  <2>2. <<"version">> \in Seq(V)
    BY <2>1
  <2> QED BY <2>2
<1>20. PICK e \in Seq({"environment"}) : e = <<"environment">>
  <2>1. {"environment"} \subseteq {"environment"}
    OBVIOUS
  <2>2. <<"environment">> \in Seq({"environment"})
    BY <2>1
  <2> QED BY <2>2
<1>21. PICK l \in Seq({"*"}) : l = <<"*">>
  <2>1. {"*"} \subseteq {"*"}
    OBVIOUS
  <2>2. <<"*">> \in Seq({"*"})
    BY <2>1
  <2> QED BY <2>2
<1>22. Rules(at, n, TRUE) \in Seq(X)
  BY <1>2, <1>5, <1>12, <1>13, <1>14, <1>17, EventRules
<1>23. Rules(at, v, FALSE) \in Seq(X)
  BY <1>2, <1>14, <1>17, EventRules
<1>24. Rules(ag, v, TRUE) \in Seq(X)
  BY <1>2, <1>5, <1>12, <1>13, <1>15, <1>17, EventRules
<1>25. Rules(at, e, FALSE) \in Seq(X)
  BY <1>2, <1>5, <1>14, <1>17, EventRules
<1>26. Rules(lb, l, FALSE) \in Seq(X)
  BY <1>2, <1>5, <1>14, <1>17, EventRules
<1>27. PICK m : m = (((Rules(at, n, TRUE) \o Rules(at, v, FALSE)) \o Rules(ag, v, TRUE))
                        \o Rules(at, e, FALSE)) \o Rules(lb, l, FALSE)
  OBVIOUS
<1>28. m \in Seq(X)
  <2>1. PICK f \in Seq(X) : f = Rules(at, n, TRUE) \o Rules(at, v, FALSE)
    BY <1>22, <1>23, JoinIs
  <2>2. PICK g \in Seq(X) : g = f \o Rules(ag, v, TRUE)
    BY <1>24, JoinIs
  <2>3. PICK h \in Seq(X) : h = g \o Rules(at, e, FALSE)
    BY <1>25, JoinIs
  <2>4. m = h \o Rules(lb, l, FALSE)
    BY <1>27, <2>1, <2>2, <2>3
  <2> QED BY <1>26, <2>4, JoinIs
<1>29. m \in Seq(Before) /\ m \in Seq(Fitting(Objects(paths), paths))
  BY <1>1, <1>2, <1>28
<1>30. InOrder(m)
  <2>1. m \in Seq(RuleOf(Keywords)) /\ \A i \in 1..Len(m) : m[i] \in NotAll
    BY <1>29 DEF Before, NotAll
  <2> QED BY <2>1 DEF InOrder
<1>31. Suits(m, b, O, Keywords, Seq(Keywords) \cup {<<"N/A">>})
  BY <1>1, <1>6, <1>7, <1>16, <1>29, <1>30, ModelSuits
<1> QED BY <1>1, <1>9, <1>10, <1>11, <1>18, <1>19, <1>20, <1>21, <1>27, <1>31
        DEF METADATA_MODEL

-----------------------------------------------------------------------------
(* The theorems                                                            *)

(* Every model suits what is captured of its sort. *)
LEMMA CapturedSuits ==
    ASSUME NEW k \in DOMAIN Captured, NEW paths \in Captured[k], NEW b \in Captures(paths)
    PROVE  Suits(Model[k], b, Objects(paths), Keywords, Seq(Keywords) \cup {<<"N/A">>})
<1>1. PICK P : P = Seq(Keywords) \cup {<<"N/A">>}
  OBVIOUS
<1>2. k \in {"span", "transaction", "error", "metadata"}
  BY DEF Captured
<1>3. Suits(Model[k], b, Objects(paths), Keywords, P)
  <2>1. CASE k = "span"
    <3>1. paths \in Captured.span /\ Model[k] = SPAN_MODEL
      BY <2>1 DEF Model
    <3> QED BY <1>1, <3>1, SpanSuits
  <2>2. CASE k = "transaction"
    <3>1. paths \in Captured.transaction /\ Model[k] = TRANSACTION_MODEL
      BY <2>2 DEF Model
    <3> QED BY <1>1, <3>1, TransactionSuits
  <2>3. CASE k = "error"
    <3>1. paths \in Captured.error /\ Model[k] = ERROR_MODEL
      BY <2>3 DEF Model
    <3> QED BY <1>1, <3>1, ErrorSuits
  <2>4. CASE k = "metadata"
    <3>1. paths \in Captured.metadata /\ Model[k] = METADATA_MODEL
      BY <2>4 DEF Model
    <3> QED BY <1>1, <3>1, MetadataSuits
  <2> QED BY <1>2, <2>1, <2>2, <2>3, <2>4
<1> QED BY <1>1, <1>3

(* Truncation does what the models say of every event, whatever its values  *)
(* are: of any length, empty, undefined, or of another type, several at     *)
(* once (truncateModel, and the four models of truncate.js).                *)
THEOREM TruncationFitsAnyValues ==
    ASSUME NEW k \in DOMAIN Captured, NEW paths \in Captured[k], NEW b \in Captures(paths)
    PROVE  Fits(k, b, truncateModel(Model[k], b))
<1>1. PICK P : P = Seq(Keywords) \cup {<<"N/A">>}
  OBVIOUS
<1>2. Suits(Model[k], b, Objects(paths), Keywords, P)
  BY <1>1, CapturedSuits
<1> QED BY <1>2, AppliedFits

(* The paths of every event *)
LEMMA CapturedPaths ==
    ASSUME NEW k \in DOMAIN Captured, NEW paths \in Captured[k]
    PROVE  paths \subseteq Seq(Words) /\ \A p \in paths : Len(p) > 0
<1>1. k \in {"span", "transaction", "error", "metadata"}
  BY DEF Captured
<1>2. CASE k = "span"
  BY <1>2, SpanPaths DEF EventPaths, Rooted
<1>3. CASE k = "transaction"
  BY <1>3, TransactionPaths DEF EventPaths, Rooted
<1>4. CASE k = "error"
  BY <1>4, ErrorPaths DEF EventPaths, Rooted
<1>5. CASE k = "metadata"
  <2>1. paths \in Captured.metadata
    BY <1>5
  <2>2. paths \subseteq Seq(Words) /\ \A p \in paths : Len(p) > 1
    BY <2>1, MetadataPaths
  <2> QED BY <2>2
<1> QED BY <1>1, <1>2, <1>3, <1>4, <1>5

(* The path whose value a path has *)
LEMMA SameIs ==
    ASSUME NEW q \in Seq(Words), Len(q) > 0, NEW isChild \in BOOLEAN
    PROVE  SameAs(q, isChild) \in Seq(Words)
<1>1. /\ {"transaction_id", "marks", "navigationTiming"} \subseteq Words
      /\ DOMAIN CompressedMarks \subseteq Words /\ "responseStart" \in DOMAIN CompressedMarks
  BY DEF Words, CompressedMarks
<1>2. <<"transaction_id">> \in Seq(Words)
  BY <1>1
<1>3. \A k \in Words : <<"marks", "navigationTiming", k>> \in Seq(Words)
  BY <1>1
<1>4. Timing("responseStart") \in Seq(Words)
  BY <1>1, <1>3 DEF Timing
<1>5. ASSUME Last(q) \in DOMAIN CompressedMarks PROVE Timing(Last(q)) \in Seq(Words)
  BY <1>1, <1>3, <1>5 DEF Timing
<1> QED BY <1>2, <1>4, <1>5 DEF SameAs

(* What the model captures are objects of this sort.                        *)
LEMMA ObjectCaptured ==
    ASSUME NEW k \in DOMAIN Captured, NEW paths \in Captured[k], NEW isChild \in BOOLEAN,
           NEW p \in paths, NEW odd \in Odd(p)
    PROVE  Object(paths, p, odd, isChild) \in Captures(paths)
<1>1. PICK P : P = Seq(Keywords) \cup {<<"N/A">>}
  OBVIOUS
<1>2. paths \in SUBSET Seq(Words) /\ \A q \in paths : Len(q) > 0
  BY CapturedPaths
<1>3. Words \subseteq Keywords
  BY DEF Keywords
<1>4. Seq(Words) \subseteq Seq(Keywords)
  BY <1>3
<1>5. ASSUME NEW q \in Seq(Words), NEW is \in Kinds, NEW n \in Nat
      PROVE  Value(q, is, n) \in ValueOf(P) /\ Value(q, is, n).of # <<"N/A">>
  <2>1. q \in P /\ q # <<"N/A">>
    BY <1>1, <1>4, NoPlaceholder
  <2> QED BY <2>1 DEF Value, ValueOf
<1>6. odd \in ValueOf(P) /\ odd.of # <<"N/A">>
  <2>1. p \in Seq(Words)
    BY <1>2
  <2>2. odd = Value(p, "undefined", 0) \/ odd = Value(p, "number", 0)
        \/ \E n \in Lengths : odd = Value(p, "string", n)
    BY DEF Odd, Undefined
  <2>3. \A n \in Lengths : n \in Nat
    BY PayloadAssumption
  <2>4. {"undefined", "number", "string"} \subseteq Kinds /\ 0 \in Nat
    BY DEF Kinds
  <2> QED BY <1>5, <2>1, <2>2, <2>3, <2>4
<1> DEFINE Put(q) == LET s == SameAs(q, isChild)
                     IN  IF s = p THEN odd
                         ELSE Value(s, IF IsNumber(s) THEN "number" ELSE "string", 1)
<1>7. ASSUME NEW q \in paths PROVE Put(q) \in ValueOf(P) /\ Put(q).of # <<"N/A">>
  <2>1. PICK s \in Seq(Words) : s = SameAs(q, isChild)
    BY <1>2, SameIs
  <2>2. CASE s = p
    BY <1>6, <2>1, <2>2
  <2>3. CASE s # p
    <3>1. PICK is \in Kinds : is = IF IsNumber(s) THEN "number" ELSE "string"
      BY DEF Kinds
    <3>2. Put(q) = Value(s, is, 1)
      BY <2>1, <2>3, <3>1
    <3>3. 1 \in Nat
      OBVIOUS
    <3> QED BY <1>5, <3>2, <3>3
  <2> QED BY <2>2, <2>3
<1>8. PICK v : v = [q \in paths |-> Put(q)]
  OBVIOUS
<1>9. v \in [paths -> ValueOf(P)] /\ \A q \in paths : v[q].of # <<"N/A">>
  <2> HIDE DEF Put
  <2> QED BY <1>7, <1>8
<1>10. paths \in SUBSET Seq(Keywords)
  BY <1>2, <1>4
<1>11. PICK b : b = [objects |-> Objects(paths), values |-> v]
  OBVIOUS
<1>12. b.objects = Objects(paths) /\ b.values = v /\ DOMAIN b.values = paths
  BY <1>9, <1>11
<1>13. b \in ObjectOf(Objects(paths), Keywords, P)
  <2>1. v \in UNION {[D -> ValueOf(P)] : D \in SUBSET Seq(Keywords)}
    BY <1>9, <1>10
  <2> QED BY <1>11, <2>1 DEF ObjectOf
<1>14. b \in Captures(paths)
  BY <1>1, <1>9, <1>12, <1>13 DEF Captures
<1>15. Object(paths, p, odd, isChild) = b
  BY <1>8, <1>11 DEF Object, Objects
<1> QED BY <1>14, <1>15

(* In every state what was queued is what the models say.                   *)
THEOREM TruncationAlwaysFits == Spec => []TruncationFits
<1> DEFINE Inv == kind \in DOMAIN Captured /\ TruncationFits
<1>1. Init => Inv
  BY DEF Init, TruncationFits
<1>2. Inv /\ [Next]_vars => Inv'
  <2> SUFFICES ASSUME Inv, [Next]_vars PROVE Inv'
    OBVIOUS
  <2>1. CASE Capture
    <3>1. /\ \E paths \in Captured[kind], isChild \in BOOLEAN :
               \E p \in paths \ Fixed : \E odd \in Odd(p) :
                  captured' = Object(paths, p, odd, isChild)
          /\ data' = truncateModel(Model[kind], captured') /\ kind' = kind
      BY <2>1 DEF Capture
    <3>2. PICK paths \in Captured[kind], isChild \in BOOLEAN :
               \E p \in paths \ Fixed : \E odd \in Odd(p) :
                  captured' = Object(paths, p, odd, isChild)
      BY <3>1
    <3>3. PICK p \in paths \ Fixed : \E odd \in Odd(p) :
                  captured' = Object(paths, p, odd, isChild)
      BY <3>2
    <3>4. PICK odd \in Odd(p) : captured' = Object(paths, p, odd, isChild)
      BY <3>3
    <3>5. PICK b \in Captures(paths) : b = captured'
      BY <3>4, ObjectCaptured
    <3>6. Fits(kind, b, truncateModel(Model[kind], b))
      BY TruncationFitsAnyValues
    <3>7. Fits(kind', captured', data')
      BY <3>1, <3>5, <3>6
    <3> QED BY <3>1, <3>7 DEF TruncationFits
  <2>2. CASE Send
    <3>1. UNCHANGED <<kind, data, captured>> /\ stage # "none"
      BY <2>2 DEF Send
    <3> QED BY <3>1 DEF TruncationFits
  <2>3. CASE UNCHANGED vars
    BY <2>3 DEF vars, TruncationFits
  <2> QED BY <2>1, <2>2, <2>3 DEF Next
<1>3. Inv => TruncationFits
  OBVIOUS
<1> HIDE DEF Inv
<1> QED BY <1>1, <1>2, <1>3, PTL DEF Spec

-----------------------------------------------------------------------------
(* The names of the intake                                                 *)

(* Pairs of a path and a name that is the one of the intake; a set of names *)
(* that has one for each of these paths                                     *)
Reads(names) == \A n \in names : V3(n[1]) = n[2]
Covers(names, paths) == \A p \in paths : <<p, V3(p)>> \in names

(* The short keys *)
Shorts == {V3Key(k) : k \in Words}

(* Path by path the names are translated key by key.                        *)
LEMMA V3Is ==
    ASSUME NEW s \in Seq(Words), NEW T, NEW t \in Seq(T), Len(t) = Len(s),
           \A i \in 1..Len(s) : V3Key(s[i]) = t[i]
    PROVE  V3(s) = t
<1>1. PICK n \in Nat : n = Len(s) /\ DOMAIN s = 1..n /\ DOMAIN t = 1..n
  OBVIOUS
<1>2. t = [i \in 1..n |-> t[i]]
  BY <1>1
<1>3. V3(s) = [i \in 1..n |-> V3Key(s[i])]
  BY <1>1 DEF V3
<1> QED BY <1>1, <1>2, <1>3

(* A path has as many short keys as keys.                                   *)
LEMMA V3In ==
    ASSUME NEW s \in Seq(Words)
    PROVE  V3(s) \in Seq(Shorts) /\ Len(V3(s)) = Len(s)
<1>1. PICK n \in Nat : n = Len(s) /\ DOMAIN s = 1..n /\ \A i \in 1..n : s[i] \in Words
  OBVIOUS
<1>2. V3(s) = [i \in 1..n |-> V3Key(s[i])]
  BY <1>1 DEF V3
<1>3. \A i \in 1..n : V3Key(s[i]) \in Shorts
  BY <1>1 DEF Shorts
<1> QED BY <1>1, <1>2, <1>3

(* The name of a key of an object continues that of the object.             *)
LEMMA V3Appended ==
    ASSUME NEW at \in Seq(Words), NEW k \in Words
    PROVE  V3(Append(at, k)) = Append(V3(at), V3Key(k))
<1>1. PICK s \in Seq(Words) : s = Append(at, k)
  <2>1. Append(at, k) \in Seq(Words)
    OBVIOUS
  <2> QED BY <2>1
<1>2. PICK a \in Seq(Shorts) : a = V3(at) /\ Len(a) = Len(at)
  BY V3In
<1>3. PICK x \in Shorts : x = V3Key(k)
  BY DEF Shorts
<1>4. PICK t \in Seq(Shorts) : t = Append(a, x)
  <2>1. Append(a, x) \in Seq(Shorts)
    OBVIOUS
  <2> QED BY <2>1
<1>5. PICK n \in Nat : n = Len(at) /\ DOMAIN at = 1..n
  OBVIOUS
<1>6. \A i \in 1..n : a[i] = V3Key(at[i])
  BY <1>2, <1>5 DEF V3
<1>7. /\ Len(s) = n + 1 /\ s[n + 1] = k /\ \A i \in 1..n : s[i] = at[i]
      /\ Len(t) = n + 1 /\ t[n + 1] = x /\ \A i \in 1..n : t[i] = a[i]
  BY <1>1, <1>2, <1>4, <1>5
<1>8. \A i \in 1..Len(s) : V3Key(s[i]) = t[i]
  <2>1. \A i \in 1..Len(s) : i \in 1..n \/ i = n + 1
    BY <1>7
  <2> QED BY <1>3, <1>6, <1>7, <2>1
<1>9. V3(s) = t
  BY <1>7, <1>8, V3Is
<1> QED BY <1>1, <1>2, <1>3, <1>4, <1>9

(* The keys of one object are renamed as the intake does.                   *)
LEMMA RenamedReads ==
    ASSUME NEW at \in Seq(Words), NEW to, V3(at) = to,
           NEW names, DOMAIN names \subseteq Words, \A k \in DOMAIN names : V3Key(k) = names[k]
    PROVE  /\ Reads(Renamed(at, to, names))
           /\ Covers(Renamed(at, to, names), Keys(at, DOMAIN names))
<1>1. \A k \in DOMAIN names : V3(Append(at, k)) = Append(to, names[k])
  BY V3Appended
<1>2. ASSUME NEW n \in Renamed(at, to, names) PROVE V3(n[1]) = n[2]
  <2>1. PICK k \in DOMAIN names : n = <<Append(at, k), Append(to, names[k])>>
    BY DEF Renamed
  <2> QED BY <1>1, <2>1
<1>3. ASSUME NEW p \in Keys(at, DOMAIN names) PROVE <<p, V3(p)>> \in Renamed(at, to, names)
  <2>1. PICK k \in DOMAIN names : p = Append(at, k)
    BY DEF Keys
  <2>2. V3(p) = Append(to, names[k])
    BY <1>1, <2>1
  <2> QED BY <2>1, <2>2 DEF Renamed
<1> QED BY <1>2, <1>3 DEF Reads, Covers

(* The two objects that are three keys deep                                 *)
LEMMA ContextWords == Service \in Seq(Words) /\ HttpResponse \in Seq(Words)
<1>1. /\ Service \in Seq(Keywords) /\ Len(Service) = 3 /\ Service[1] = "context"
      /\ Service[2] = "destination" /\ Service[3] = "service"
      /\ HttpResponse \in Seq(Keywords) /\ Len(HttpResponse) = 3
      /\ HttpResponse[1] = "context" /\ HttpResponse[2] = "http"
      /\ HttpResponse[3] = "response"
  BY ContextAt
<1>2. {"context", "destination", "service", "http", "response"} \subseteq Words
  BY DEF Words
<1>3. ASSUME NEW s \in Seq(Keywords), \A i \in 1..Len(s) : s[i] \in Words
      PROVE  s \in Seq(Words)
  BY <1>3
<1> QED BY <1>1, <1>2, <1>3

(* Where the context is *)
LEMMA ContextV3 ==
    /\ V3(Context("http")) = <<"c", "h">>
    /\ V3(HttpResponse) = <<"c", "h", "r">>
    /\ V3(Context("page")) = <<"c", "p">>
    /\ V3(Context("response")) = <<"c", "r">>
    /\ V3(Context("destination")) = <<"c", "dt">>
    /\ V3(Service) = <<"c", "dt", "se">>
    /\ V3(Context("user")) = <<"c", "u">>
    /\ V3(Context("custom")) = <<"c", "cu">>
<1>1. /\ V3Key("context") = "c" /\ V3Key("http") = "h" /\ V3Key("response") = "r"
      /\ V3Key("page") = "p" /\ V3Key("destination") = "dt" /\ V3Key("service") = "se"
      /\ V3Key("user") = "u" /\ V3Key("custom") = "cu"
  BY DEF V3Key, V3_MAPPING
<1>2. \A a, b : V3(<<a, b>>) = <<V3Key(a), V3Key(b)>>
  BY DEF V3
<1>3. \A a, b, c : V3(<<a, b, c>>) = <<V3Key(a), V3Key(b), V3Key(c)>>
  BY DEF V3
<1>4. {"c", "h", "r", "dt", "se"} \subseteq Shorts
  <2>1. {"context", "http", "response", "destination", "service"} \subseteq Words
    BY DEF Words
  <2> QED BY <1>1, <2>1 DEF Shorts
<1>5. V3(HttpResponse) = <<"c", "h", "r">>
  <2>1. PICK t \in Seq(Shorts) : /\ t = <<"c", "h", "r">> /\ Len(t) = 3
                                /\ t[1] = "c" /\ t[2] = "h" /\ t[3] = "r"
    <3>1. <<"c", "h", "r">> \in Seq(Shorts)
      BY <1>4
    <3> QED BY <3>1
  <2>2. /\ HttpResponse \in Seq(Words) /\ Len(HttpResponse) = 3
        /\ V3Key(HttpResponse[1]) = "c" /\ V3Key(HttpResponse[2]) = "h"
        /\ V3Key(HttpResponse[3]) = "r"
    BY <1>1, ContextWords, ContextAt
  <2>3. \A i \in 1..3 : V3Key(HttpResponse[i]) = t[i]
    BY <2>1, <2>2
  <2>4. PICK s \in Seq(Words) : s = HttpResponse
    BY <2>2
  <2>5. Len(t) = Len(s) /\ \A i \in 1..Len(s) : V3Key(s[i]) = t[i]
    BY <2>1, <2>2, <2>3, <2>4
  <2>6. V3(s) = t
    BY <2>5, V3Is
  <2> QED BY <2>1, <2>4, <2>6
<1>6. V3(Service) = <<"c", "dt", "se">>
  <2>1. PICK t \in Seq(Shorts) : /\ t = <<"c", "dt", "se">> /\ Len(t) = 3
                                /\ t[1] = "c" /\ t[2] = "dt" /\ t[3] = "se"
    <3>1. <<"c", "dt", "se">> \in Seq(Shorts)
      BY <1>4
    <3> QED BY <3>1
  <2>2. /\ Service \in Seq(Words) /\ Len(Service) = 3
        /\ V3Key(Service[1]) = "c" /\ V3Key(Service[2]) = "dt" /\ V3Key(Service[3]) = "se"
    BY <1>1, ContextWords, ContextAt
  <2>3. \A i \in 1..3 : V3Key(Service[i]) = t[i]
    BY <2>1, <2>2
  <2>4. PICK s \in Seq(Words) : s = Service
    BY <2>2
  <2>5. Len(t) = Len(s) /\ \A i \in 1..Len(s) : V3Key(s[i]) = t[i]
    BY <2>1, <2>2, <2>3, <2>4
  <2>6. V3(s) = t
    BY <2>5, V3Is
  <2> QED BY <2>1, <2>4, <2>6
<1> QED BY <1>1, <1>2, <1>5, <1>6 DEF Context

(* A short sequence, one longer *)
LEMMA AppendIs ==
    ASSUME NEW a, NEW b, NEW c
    PROVE  Append(<<a>>, b) = <<a, b>> /\ Append(<<a, b>>, c) = <<a, b, c>>
<1>1. PICK S : S = {a, b, c}
  OBVIOUS
<1>2. a \in S /\ b \in S /\ c \in S
  BY <1>1
<1>3. Append(<<a>>, b) = <<a, b>>
  <2>1. PICK s \in Seq(S) : s = <<a, b>> /\ Len(s) = 2 /\ s[1] = a /\ s[2] = b
    <3>1. <<a, b>> \in Seq(S)
      BY <1>2
    <3> QED BY <3>1
  <2>2. PICK o \in Seq(S) : o = <<a>> /\ Len(o) = 1 /\ o[1] = a
    <3>1. <<a>> \in Seq(S)
      BY <1>2
    <3> QED BY <3>1
  <2>3. PICK t \in Seq(S) : t = Append(o, b)
    <3>1. Append(o, b) \in Seq(S)
      BY <1>2
    <3> QED BY <3>1
  <2>4. Len(t) = 2 /\ t[1] = a /\ t[2] = b
    BY <1>2, <2>2, <2>3
  <2>5. \A i \in 1..Len(s) : s[i] = t[i]
    BY <2>1, <2>4
  <2>6. s = t
    BY <2>1, <2>4, <2>5, SeqEqual
  <2> QED BY <2>1, <2>2, <2>3, <2>6
<1>4. Append(<<a, b>>, c) = <<a, b, c>>
  <2>1. PICK s \in Seq(S) : s = <<a, b, c>> /\ Len(s) = 3 /\ s[1] = a /\ s[2] = b /\ s[3] = c
    <3>1. <<a, b, c>> \in Seq(S)
      BY <1>2
    <3> QED BY <3>1
  <2>2. PICK o \in Seq(S) : o = <<a, b>> /\ Len(o) = 2 /\ o[1] = a /\ o[2] = b
    <3>1. <<a, b>> \in Seq(S)
      BY <1>2
    <3> QED BY <3>1
  <2>3. PICK t \in Seq(S) : t = Append(o, c)
    <3>1. Append(o, c) \in Seq(S)
      BY <1>2
    <3> QED BY <3>1
  <2>4. Len(t) = 3 /\ t[1] = a /\ t[2] = b /\ t[3] = c
    BY <1>2, <2>2, <2>3
  <2>5. \A i \in 1..Len(s) : s[i] = t[i]
    BY <2>1, <2>4
  <2>6. s = t
    BY <2>1, <2>4, <2>5, SeqEqual
  <2> QED BY <2>1, <2>2, <2>3, <2>6
<1> QED BY <1>3, <1>4

(* The keys the intake shortens *)
LEMMA MappingIs == \A k \in DOMAIN V3_MAPPING : V3Key(k) = V3_MAPPING[k]
BY DEF V3Key

(* and keys it does not *)
LEMMA SameNames ==
    \A k \in {"id", "key", "label", "cls", "fid", "tbt", "count", "sum", "max"} : V3Key(k) = k
<1>1. {"id", "key", "label", "cls", "fid", "tbt", "count", "sum", "max"}
         \cap DOMAIN V3_MAPPING = {}
  BY DEF V3_MAPPING
<1>2. \A s \in V3_SAMPLES :
         s[1] \notin {"id", "key", "label", "cls", "fid", "tbt", "count", "sum", "max"}
  BY DEF V3_SAMPLES
<1> QED BY <1>1, <1>2 DEF V3Key

(* The sizes of a response                                                  *)
LEMMA ResponseNames ==
    ASSUME NEW at \in {HttpResponse, Context("response")}, NEW to, V3(at) = to
    PROVE  Reads(compressResponse(at, to)) /\ Covers(compressResponse(at, to), Keys(at, Sizes))
<1>1. PICK N : N = [transfer_size |-> "ts", encoded_body_size |-> "ebs",
                    decoded_body_size |-> "dbs"]
  OBVIOUS
<1>2. DOMAIN N = Sizes
  BY <1>1 DEF Sizes
<1>3. \A k \in DOMAIN N : V3Key(k) = N[k]
  BY <1>1 DEF V3Key, V3_MAPPING
<1>4. at \in Seq(Words)
  <2>1. "context" \in Words /\ "response" \in Words
    BY DEF Words
  <2>2. Context("response") \in Seq(Words)
    BY <2>1 DEF Context
  <2> QED BY <2>2, ContextWords
<1>5. compressResponse(at, to) = Renamed(at, to, N)
  BY <1>1 DEF compressResponse
<1>6. DOMAIN N \subseteq Words
  BY <1>2, SizesAre
<1> QED BY <1>2, <1>3, <1>4, <1>5, <1>6, RenamedReads

(* The names of contexts *)
LEMMA ContextNames ==
    /\ Reads(compressContext)
    /\ \A keys \in SUBSET {"url", "method", "status_code"} :
          Covers(compressContext, Keys(Context("http"), keys))
    /\ Covers(compressContext, Keys(HttpResponse, Sizes))
    /\ Covers(compressContext, Keys(Context("response"), Sizes))
    /\ Covers(compressContext, getPageContext)
    /\ Covers(compressContext, getDestination)
    /\ Covers(compressContext, User)
    /\ Covers(compressContext, Custom)
<1>1. \A k \in {"http", "page", "destination", "user"} : Context(k) \in Seq(Words)
  <2>1. {"context", "http", "page", "destination", "user"} \subseteq Words
    BY DEF Words
  <2> QED BY <2>1 DEF Context
<1>2. PICK http : http = [url |-> "url", method |-> "mt", status_code |-> "sc"]
  OBVIOUS
<1>3. PICK page : page = [referer |-> "rf", url |-> "url"]
  OBVIOUS
<1>4. PICK dest : dest = [address |-> "ad", port |-> "po"]
  OBVIOUS
<1>5. PICK service : service = [name |-> "n", type |-> "t", resource |-> "rc"]
  OBVIOUS
<1>6. PICK user : user = [id |-> "id", username |-> "un", email |-> "em"]
  OBVIOUS
<1>7. PICK H : H = Renamed(Context("http"), <<"c", "h">>, http)
  OBVIOUS
<1>8. PICK R : R = compressResponse(HttpResponse, <<"c", "h", "r">>)
  OBVIOUS
<1>9. PICK P : P = Renamed(Context("page"), <<"c", "p">>, page)
  OBVIOUS
<1>10. PICK Q : Q = compressResponse(Context("response"), <<"c", "r">>)
  OBVIOUS
<1>11. PICK D : D = Renamed(Context("destination"), <<"c", "dt">>, dest)
  OBVIOUS
<1>12. PICK S : S = Renamed(Service, <<"c", "dt", "se">>, service)
  OBVIOUS
<1>13. PICK U : U = Renamed(Context("user"), <<"c", "u">>, user)
  OBVIOUS
<1>14. PICK C : C = {<<p, <<"c", "cu", "key">> >> : p \in Custom}
  OBVIOUS
<1>15. compressContext = H \cup R \cup P \cup Q \cup D \cup S \cup U \cup C
  BY <1>2, <1>3, <1>4, <1>5, <1>6, <1>7, <1>8, <1>9, <1>10, <1>11, <1>12, <1>13, <1>14
     DEF compressContext, compressHTTP, Service, HttpResponse
<1>16. Reads(H) /\ Covers(H, Keys(Context("http"), {"url", "method", "status_code"}))
  <2>1. DOMAIN http = {"url", "method", "status_code"} /\ DOMAIN http \subseteq Words
    BY <1>2 DEF Words
  <2>2. \A k \in DOMAIN http : V3Key(k) = http[k]
    BY <1>2 DEF V3Key, V3_MAPPING
  <2> QED BY <1>1, <1>7, <2>1, <2>2, ContextV3, RenamedReads
<1>17. Reads(P) /\ Covers(P, Keys(Context("page"), {"referer", "url"}))
  <2>1. DOMAIN page = {"referer", "url"} /\ DOMAIN page \subseteq Words
    BY <1>3 DEF Words
  <2>2. \A k \in DOMAIN page : V3Key(k) = page[k]
    BY <1>3 DEF V3Key, V3_MAPPING
  <2> QED BY <1>1, <1>9, <2>1, <2>2, ContextV3, RenamedReads
<1>18. Reads(D) /\ Covers(D, Keys(Context("destination"), {"address", "port"}))
  <2>1. DOMAIN dest = {"address", "port"} /\ DOMAIN dest \subseteq Words
    BY <1>4 DEF Words
  <2>2. \A k \in DOMAIN dest : V3Key(k) = dest[k]
    BY <1>4 DEF V3Key, V3_MAPPING
  <2> QED BY <1>1, <1>11, <2>1, <2>2, ContextV3, RenamedReads
<1>19. Reads(S) /\ Covers(S, Keys(Service, {"name", "type", "resource"}))
  <2>1. DOMAIN service = {"name", "type", "resource"} /\ DOMAIN service \subseteq Words
    BY <1>5 DEF Words
  <2>2. \A k \in DOMAIN service : V3Key(k) = service[k]
    BY <1>5 DEF V3Key, V3_MAPPING
  <2> QED BY <1>12, <2>1, <2>2, ContextWords, ContextV3, RenamedReads
<1>20. Reads(U) /\ Covers(U, Keys(Context("user"), {"id", "username", "email"}))
  <2>1. DOMAIN user = {"id", "username", "email"} /\ DOMAIN user \subseteq Words
    BY <1>6 DEF Words
  <2>2. V3Key("username") = "un" /\ V3Key("email") = "em" /\ V3Key("id") = "id"
    BY SameNames DEF V3Key, V3_MAPPING
  <2>3. \A k \in DOMAIN user : V3Key(k) = user[k]
    BY <1>6, <2>2
  <2> QED BY <1>1, <1>13, <2>1, <2>3, ContextV3, RenamedReads
<1>21. Reads(R) /\ Covers(R, Keys(HttpResponse, Sizes))
       /\ Reads(Q) /\ Covers(Q, Keys(Context("response"), Sizes))
  BY <1>8, <1>10, ContextV3, ResponseNames
<1>22. Reads(C) /\ Covers(C, Custom)
  <2>1. V3Key("context") = "c" /\ V3Key("custom") = "cu" /\ V3Key("key") = "key"
    BY SameNames DEF V3Key, V3_MAPPING
  <2>2. \A p \in Custom : V3(p) = <<"c", "cu", "key">>
    <3>1. {"context", "custom", "key"} \subseteq Words
      BY DEF Words
    <3>2. Context("custom") \in Seq(Words)
      BY <3>1 DEF Context
    <3>3. V3(Append(Context("custom"), "key")) = Append(V3(Context("custom")), V3Key("key"))
      BY <3>1, <3>2, V3Appended
    <3>4. V3(Append(Context("custom"), "key")) = Append(<<"c", "cu">>, "key")
      BY <2>1, <3>3, ContextV3
    <3>5. Append(<<"c", "cu">>, "key") = <<"c", "cu", "key">>
      BY AppendIs
    <3> QED BY <3>4, <3>5 DEF Custom, Keys
  <2> QED BY <1>14, <2>2 DEF Reads, Covers
<1>23. Reads(compressContext)
  BY <1>15, <1>16, <1>17, <1>18, <1>19, <1>20, <1>21, <1>22 DEF Reads
<1>24. /\ Covers(compressContext, Keys(Context("http"), {"url", "method", "status_code"}))
       /\ Covers(compressContext, Keys(HttpResponse, Sizes))
       /\ Covers(compressContext, Keys(Context("response"), Sizes))
       /\ Covers(compressContext, Keys(Context("page"), {"referer", "url"}))
       /\ Covers(compressContext, Keys(Context("destination"), {"address", "port"}))
       /\ Covers(compressContext, Keys(Service, {"name", "type", "resource"}))
       /\ Covers(compressContext, Keys(Context("user"), {"id", "username", "email"}))
       /\ Covers(compressContext, Custom)
  BY <1>15, <1>16, <1>17, <1>18, <1>19, <1>20, <1>21, <1>22 DEF Covers
<1>25. ASSUME NEW keys \in SUBSET {"url", "method", "status_code"}
       PROVE  Covers(compressContext, Keys(Context("http"), keys))
  BY <1>24 DEF Covers, Keys
<1>26. /\ getPageContext = Keys(Context("page"), {"referer", "url"})
       /\ getDestination = Keys(Context("destination"), {"address", "port"})
                             \cup Keys(Service, {"name", "type", "resource"})
       /\ User = Keys(Context("user"), {"id", "username", "email"})
  <2>1. /\ {"name", "resource", "type"} = {"name", "type", "resource"}
        /\ {"id", "email", "username"} = {"id", "username", "email"}
    OBVIOUS
  <2> QED BY <2>1 DEF getPageContext, getDestination, User, Service
<1> QED BY <1>23, <1>24, <1>25, <1>26 DEF Covers

(* The paths the compressed object leaves out, whatever is there            *)
PathLeftOut(k, p) ==
    \/ \E w \in {"tags", "headers"} : w \in Range(p)
    \/ Len(p) > 1 /\ SubSeq(p, 1, 2) \in {<<"marks", "custom">>, <<"exception", "type">>}
    \/ k = "span" /\ p \in Keys(<<>>, {"trace_id", "transaction_id", "parent_id"})

(* The marks of the agent that are read from those of the navigation        *)
Copies == {<<AgentMark("timeToFirstByte"), Timing("responseStart")>>,
           <<AgentMark("domInteractive"), Timing("domInteractive")>>,
           <<AgentMark("domComplete"), Timing("domComplete")>>}

(* Every name of a path is that of the intake or of the mark that is a copy *)
NamesRight(k, paths) ==
    \A n \in Names[k] : n[1] \in paths =>
       \/ V3(n[1]) = n[2]
       \/ \E c \in Copies : c[1] \in paths /\ n = <<c[2], V3(c[1])>>

(* and every path has one, but those that are left out.                     *)
PathsNamed(k, paths) ==
    \A p \in paths :
       \/ <<p, V3(p)>> \in Names[k]
       \/ \E c \in Copies : c[1] = p /\ c[2] \in paths /\ <<c[2], V3(p)>> \in Names[k]
       \/ PathLeftOut(k, p)

(* Paths of up to four keys *)
LEMMA V3Short ==
    /\ V3(<<>>) = <<>>
    /\ \A a : V3(<<a>>) = <<V3Key(a)>>
    /\ \A a, b : V3(<<a, b>>) = <<V3Key(a), V3Key(b)>>
    /\ \A a, b, c : V3(<<a, b, c>>) = <<V3Key(a), V3Key(b), V3Key(c)>>
    /\ \A a, b, c, d : V3(<<a, b, c, d>>) = <<V3Key(a), V3Key(b), V3Key(c), V3Key(d)>>
<1>1. V3(<<>>) = <<>>
  BY DEF V3
<1>2. \A a : V3(<<a>>) = <<V3Key(a)>>
  BY DEF V3
<1>3. \A a, b : V3(<<a, b>>) = <<V3Key(a), V3Key(b)>>
  BY DEF V3
<1>4. \A a, b, c : V3(<<a, b, c>>) = <<V3Key(a), V3Key(b), V3Key(c)>>
  BY DEF V3
<1>5. \A a, b, c, d : V3(<<a, b, c, d>>) = <<V3Key(a), V3Key(b), V3Key(c), V3Key(d)>>
  BY DEF V3
<1> QED BY <1>1, <1>2, <1>3, <1>4, <1>5

(* Server timing is the only value of a response without a name.            *)
LEMMA ResponseNamed ==
    ASSUME NEW at \in {HttpResponse, Context("response")}, NEW r \in getResponseContext(at),
           NEW p \in r
    PROVE  <<p, V3(p)>> \in compressContext \/ "headers" \in Range(p)
<1>1. CASE p \in Keys(at, Sizes)
  BY <1>1, ContextNames DEF Covers
<1>2. CASE p = at \o <<"headers", "server-timing">>
  <2>1. {"context", "response", "headers", "server-timing"} \subseteq Words
    BY DEF Words
  <2>2. Context("response") \in Seq(Words)
    BY <2>1 DEF Context
  <2>3. PICK s \in Seq(Words) : s = at
    BY <2>2, ContextWords
  <2>4. PICK t \in Seq(Words) : /\ t = <<"headers", "server-timing">>
                                /\ Len(t) = 2 /\ t[1] = "headers"
    <3>1. <<"headers", "server-timing">> \in Seq(Words)
      BY <2>1
    <3> QED BY <3>1
  <2>5. PICK q \in Seq(Words) : q = s \o t
    BY JoinIs
  <2>6. PICK n \in Nat : n = Len(s)
    OBVIOUS
  <2>7. Len(q) = n + 2 /\ q[n + 1] = "headers"
    BY <2>4, <2>5, <2>6
  <2>8. n + 1 \in DOMAIN q
    BY <2>7
  <2> QED BY <1>2, <2>3, <2>4, <2>5, <2>7, <2>8 DEF Range
<1> QED BY <1>1, <1>2 DEF getResponseContext

(* Labels have no name.                                                     *)
LEMMA LabelsLeftOut == \A p \in Labels : "tags" \in Range(p)
<1> SUFFICES ASSUME NEW p \in Labels PROVE "tags" \in Range(p)
  OBVIOUS
<1>1. p = Append(<<"context", "tags">>, "label")
  BY DEF Labels, Keys, Context
<1>2. p = <<"context", "tags", "label">>
  BY <1>1, AppendIs
<1>3. 2 \in DOMAIN p /\ p[2] = "tags"
  BY <1>2
<1> QED BY <1>3 DEF Range

(* The context of spans, and that of transactions and errors                *)
LEMMA ContextNamed ==
    ASSUME NEW c, c \in addSpanContext \cup addTransactionContext, NEW p \in c
    PROVE  <<p, V3(p)>> \in compressContext \/ \E w \in {"tags", "headers"} : w \in Range(p)
<1>1. CASE c \in addSpanContext
  <2>1. CASE p \in getDestination
    BY <2>1, ContextNames DEF Covers
  <2>2. CASE \E keys \in SUBSET {"url", "method", "status_code"} :
                p \in Keys(Context("http"), keys)
    BY <2>2, ContextNames DEF Covers
  <2>3. CASE \E r \in getResponseContext(HttpResponse) : p \in r
    <3>1. PICK r \in getResponseContext(HttpResponse) : p \in r
      BY <2>3
    <3> QED BY <3>1, ResponseNamed
  <2>4. \/ p \in getDestination
        \/ p \in Keys(Context("http"), {"method", "url", "status_code"})
        \/ p \in Keys(Context("http"), {"url"})
        \/ \E r \in getResponseContext(HttpResponse) : p \in r
    BY <1>1 DEF addSpanContext, HttpResponse
  <2>5. /\ {"method", "url", "status_code"} \in SUBSET {"url", "method", "status_code"}
        /\ {"url"} \in SUBSET {"url", "method", "status_code"}
    OBVIOUS
  <2> QED BY <2>1, <2>2, <2>3, <2>4, <2>5
<1>2. CASE c \in addTransactionContext
  <2>1. PICK r \in {{}} \cup getResponseContext(Context("response")),
             a \in SUBSET {Labels, User, Custom} : c = getPageContext \cup r \cup UNION a
    <3>1. c \in {getPageContext \cup x \cup UNION y :
                    x \in {{}} \cup getResponseContext(Context("response")),
                    y \in SUBSET {Labels, User, Custom}}
      BY <1>2 DEF addTransactionContext
    <3> QED BY <3>1
  <2>2. CASE p \in getPageContext
    BY <2>2, ContextNames DEF Covers
  <2>3. CASE p \in r
    BY <2>3, ResponseNamed
  <2>4. CASE p \in UNION a
    <3>1. p \in Labels \/ p \in User \/ p \in Custom
      BY <2>4
    <3> QED BY <3>1, ContextNames, LabelsLeftOut DEF Covers
  <2> QED BY <2>1, <2>2, <2>3, <2>4
<1> QED BY <1>1, <1>2

(* Spans                                                                    *)
LEMMA SpanNamed ==
    ASSUME NEW paths \in Captured.span
    PROVE  NamesRight("span", paths) /\ PathsNamed("span", paths)
<1>1. PICK N : N = [id |-> "id", name |-> "n", type |-> "t", start |-> "s",
                    duration |-> "d", outcome |-> "o", sample_rate |-> "sr",
                    parent_id |-> "pid", sync |-> "sy", subtype |-> "su", action |-> "ac"]
  OBVIOUS
<1>2. DOMAIN N = SpanKeys \ {"trace_id", "transaction_id"} /\ DOMAIN N \subseteq Words
  BY <1>1 DEF SpanKeys, Words
<1>3. \A k \in DOMAIN N : V3Key(k) = N[k]
  <2>1. V3Key("id") = "id"
    BY SameNames
  <2>2. \A k \in DOMAIN N \ {"id"} : k \in DOMAIN V3_MAPPING /\ V3_MAPPING[k] = N[k]
    BY <1>1 DEF V3_MAPPING
  <2> QED BY <1>1, <2>1, <2>2, MappingIs
<1>4. Names["span"] = Renamed(<<>>, <<>>, N) \cup compressContext
  BY <1>1 DEF Names, compressSpan
<1>5. Reads(Renamed(<<>>, <<>>, N)) /\ Covers(Renamed(<<>>, <<>>, N), Keys(<<>>, DOMAIN N))
  <2>1. <<>> \in Seq(Words)
    OBVIOUS
  <2> QED BY <1>2, <1>3, <2>1, V3Short, RenamedReads
<1>6. NamesRight("span", paths)
  BY <1>4, <1>5, ContextNames DEF NamesRight, Reads
<1>7. PathsNamed("span", paths)
  <2> SUFFICES ASSUME NEW p \in paths
               PROVE  <<p, V3(p)>> \in Names["span"] \/ PathLeftOut("span", p)
    BY DEF PathsNamed
  <2>1. PICK c \in addSpanContext, l \in {{}, Labels} :
           paths = Keys(<<>>, SpanKeys) \cup c \cup l
    <3>1. paths \in {Keys(<<>>, SpanKeys) \cup c \cup l :
                        c \in addSpanContext, l \in {{}, Labels}}
      BY DEF Captured
    <3> QED BY <3>1
  <2>2. CASE p \in Keys(<<>>, SpanKeys)
    <3>1. p \in Keys(<<>>, DOMAIN N) \/ p \in Keys(<<>>, {"trace_id", "transaction_id"})
      BY <1>2, <2>2 DEF Keys
    <3>2. p \in Keys(<<>>, {"trace_id", "transaction_id"}) => PathLeftOut("span", p)
      BY DEF Keys, PathLeftOut
    <3> QED BY <1>4, <1>5, <3>1, <3>2 DEF Covers
  <2>3. CASE p \in c
    BY <1>4, <2>3, ContextNamed DEF PathLeftOut
  <2>4. CASE p \in Labels
    BY <2>4, LabelsLeftOut DEF PathLeftOut
  <2> QED BY <2>1, <2>2, <2>3, <2>4
<1> QED BY <1>6, <1>7

(* The marks of a page load *)
LEMMA MarksNamed ==
    /\ \A n \in compressMarks : V3(n[1]) = n[2] \/ \E c \in Copies : n = <<c[2], V3(c[1])>>
    /\ \A k \in DOMAIN CompressedMarks : <<Timing(k), V3(Timing(k))>> \in compressMarks
    /\ \A k \in Paints : <<AgentMark(k), V3(AgentMark(k))>> \in compressMarks
    /\ \A c \in Copies : <<c[2], V3(c[1])>> \in compressMarks
<1>1. /\ V3Key("marks") = "k" /\ V3Key("navigationTiming") = "nt" /\ V3Key("agent") = "a"
      /\ V3Key("timeToFirstByte") = "fb" /\ V3Key("domInteractive") = "di"
      /\ V3Key("domComplete") = "dc" /\ V3Key("firstContentfulPaint") = "fp"
      /\ V3Key("largestContentfulPaint") = "lp"
  BY DEF V3Key, V3_MAPPING
<1>2. \A k \in DOMAIN CompressedMarks : V3Key(k) = CompressedMarks[k]
  <2>1. \A k \in DOMAIN CompressedMarks :
           k \in DOMAIN V3_MAPPING /\ V3_MAPPING[k] = CompressedMarks[k]
    BY DEF CompressedMarks, V3_MAPPING
  <2> QED BY <2>1, MappingIs
<1>3. \A k \in DOMAIN CompressedMarks : V3(Timing(k)) = <<"k", "nt", CompressedMarks[k]>>
  BY <1>1, <1>2, V3Short DEF Timing
<1>4. /\ V3(AgentMark("timeToFirstByte")) = <<"k", "a", "fb">>
      /\ V3(AgentMark("domInteractive")) = <<"k", "a", "di">>
      /\ V3(AgentMark("domComplete")) = <<"k", "a", "dc">>
      /\ V3(AgentMark("firstContentfulPaint")) = <<"k", "a", "fp">>
      /\ V3(AgentMark("largestContentfulPaint")) = <<"k", "a", "lp">>
  BY <1>1, V3Short DEF AgentMark
<1>5. ASSUME NEW n \in compressMarks
      PROVE  V3(n[1]) = n[2] \/ \E c \in Copies : n = <<c[2], V3(c[1])>>
  <2>1. CASE \E k \in DOMAIN CompressedMarks :
                n = <<Timing(k), <<"k", "nt", CompressedMarks[k]>> >>
    BY <1>3, <2>1
  <2>2. CASE n \in {<<Timing("responseStart"), <<"k", "a", "fb">> >>,
                    <<Timing("domInteractive"), <<"k", "a", "di">> >>,
                    <<Timing("domComplete"), <<"k", "a", "dc">> >>}
    BY <1>4, <2>2 DEF Copies
  <2>3. CASE n \in {<<AgentMark("firstContentfulPaint"), <<"k", "a", "fp">> >>,
                    <<AgentMark("largestContentfulPaint"), <<"k", "a", "lp">> >>}
    BY <1>4, <2>3
  <2> QED BY <2>1, <2>2, <2>3 DEF compressMarks
<1>6. \A k \in DOMAIN CompressedMarks : <<Timing(k), V3(Timing(k))>> \in compressMarks
  BY <1>3 DEF compressMarks
<1>7. \A k \in Paints : <<AgentMark(k), V3(AgentMark(k))>> \in compressMarks
  BY <1>4 DEF compressMarks, Paints
<1>8. \A c \in Copies : <<c[2], V3(c[1])>> \in compressMarks
  BY <1>4 DEF compressMarks, Copies
<1> QED BY <1>5, <1>6, <1>7, <1>8

(* What the application marked *)
LEMMA OwnMarkLeftOut ==
    ASSUME NEW k
    PROVE  PathLeftOut(k, <<"marks", "custom", "mark">>)
<1>1. PICK p \in Seq({"marks", "custom", "mark"}) :
         p = <<"marks", "custom", "mark">> /\ Len(p) = 3 /\ p[1] = "marks" /\ p[2] = "custom"
  <2>1. <<"marks", "custom", "mark">> \in Seq({"marks", "custom", "mark"})
    OBVIOUS
  <2> QED BY <2>1
<1>2. PICK q \in Seq({"marks", "custom", "mark"}) : q = <<"marks", "custom">> /\ Len(q) = 2
                                  /\ q[1] = "marks" /\ q[2] = "custom"
  <2>1. <<"marks", "custom">> \in Seq({"marks", "custom", "mark"})
    OBVIOUS
  <2> QED BY <2>1
<1>3. PICK r : r = SubSeq(p, 1, 2)
  OBVIOUS
<1>4. r \in Seq({"marks", "custom", "mark"}) /\ Len(r) = 2 /\ r[1] = "marks" /\ r[2] = "custom"
  BY <1>1, <1>3
<1>5. \A i \in 1..Len(r) : r[i] = q[i]
  BY <1>2, <1>4
<1>6. r = q
  BY <1>2, <1>4, <1>5, SeqEqual
<1>7. PathLeftOut(k, p)
  <2>1. Len(p) > 1
    BY <1>1
  <2>2. SubSeq(p, 1, 2) = q
    BY <1>3, <1>6
  <2>3. q = <<"marks", "custom">>
    BY <1>2
  <2> QED BY <2>1, <2>2, <2>3 DEF PathLeftOut
<1> QED BY <1>1, <1>7

(* The names of the experience and of the session *)
ExperienceNames ==
    Renamed(<<"experience">>, <<"exp">>, [cls |-> "cls", fid |-> "fid", tbt |-> "tbt"])
      \cup Renamed(<<"experience", "longtask">>, <<"exp", "lt">>,
                   [count |-> "count", sum |-> "sum", max |-> "max"])
      \cup Renamed(<<"session">>, <<"ses">>, [id |-> "id", sequence |-> "seq"])

(* The experience and the session are renamed as the intake does.           *)
LEMMA ExperienceNamed ==
    Reads(ExperienceNames) /\ Covers(ExperienceNames, Experience \cup Session)
<1>1. /\ V3(<<"experience">>) = <<"exp">> /\ V3(<<"session">>) = <<"ses">>
      /\ V3(<<"experience", "longtask">>) = <<"exp", "lt">>
  <2>1. V3Key("experience") = "exp" /\ V3Key("session") = "ses" /\ V3Key("longtask") = "lt"
    BY DEF V3Key, V3_MAPPING
  <2> QED BY <2>1, V3Short
<1>2. /\ <<"experience">> \in Seq(Words) /\ <<"session">> \in Seq(Words)
      /\ <<"experience", "longtask">> \in Seq(Words)
  <2>1. {"experience", "session", "longtask"} \subseteq Words
    BY DEF Words
  <2>2. <<"experience">> \in Seq(Words)
    BY <2>1
  <2>3. <<"session">> \in Seq(Words)
    BY <2>1
  <2>4. <<"experience", "longtask">> \in Seq(Words)
    BY <2>1
  <2> QED BY <2>2, <2>3, <2>4
<1>3. PICK e : e = [cls |-> "cls", fid |-> "fid", tbt |-> "tbt"]
  OBVIOUS
<1>4. PICK l : l = [count |-> "count", sum |-> "sum", max |-> "max"]
  OBVIOUS
<1>5. PICK s : s = [id |-> "id", sequence |-> "seq"]
  OBVIOUS
<1>6. /\ DOMAIN e = {"cls", "fid", "tbt"} /\ DOMAIN e \subseteq Words
      /\ DOMAIN l = {"count", "sum", "max"} /\ DOMAIN l \subseteq Words
      /\ DOMAIN s = {"id", "sequence"} /\ DOMAIN s \subseteq Words
  BY <1>3, <1>4, <1>5 DEF Words
<1>7. /\ \A k \in DOMAIN e : V3Key(k) = e[k]
      /\ \A k \in DOMAIN l : V3Key(k) = l[k]
  BY <1>3, <1>4, SameNames
<1>8. \A k \in DOMAIN s : V3Key(k) = s[k]
  <2>1. V3Key("id") = "id"
    BY SameNames
  <2>2. V3Key("sequence") = "seq"
    BY DEF V3Key, V3_MAPPING
  <2> QED BY <1>5, <2>1, <2>2
<1>9. PICK E : E = Renamed(<<"experience">>, <<"exp">>, e)
  OBVIOUS
<1>10. PICK L : L = Renamed(<<"experience", "longtask">>, <<"exp", "lt">>, l)
  OBVIOUS
<1>11. PICK S : S = Renamed(<<"session">>, <<"ses">>, s)
  OBVIOUS
<1>12. Reads(E) /\ Covers(E, Keys(<<"experience">>, {"cls", "fid", "tbt"}))
  BY <1>1, <1>2, <1>6, <1>7, <1>9, RenamedReads
<1>13. Reads(L) /\ Covers(L, Keys(<<"experience", "longtask">>, {"count", "sum", "max"}))
  BY <1>1, <1>2, <1>6, <1>7, <1>10, RenamedReads
<1>14. Reads(S) /\ Covers(S, Keys(<<"session">>, {"id", "sequence"}))
  BY <1>1, <1>2, <1>6, <1>8, <1>11, RenamedReads
<1>15. ExperienceNames = E \cup L \cup S
  BY <1>3, <1>4, <1>5, <1>9, <1>10, <1>11 DEF ExperienceNames
<1>16. Reads(E \cup L \cup S) /\ Covers(E \cup L \cup S, Experience \cup Session)
  BY <1>12, <1>13, <1>14 DEF Reads, Covers, Experience, Session
<1> QED BY <1>15, <1>16

(* So are the metricsets: each sample is one of the intake's.               *)
LEMMA MetricsNamed ==
    /\ Reads(compressMetricsets)
    /\ \A b \in Breakdown : Covers(compressMetricsets, b)
<1>1. /\ V3Key("breakdown") = "me" /\ V3Key("span") = "y" /\ V3Key("type") = "t"
      /\ V3Key("samples") = "sa" /\ V3Key("value") = "v"
  BY DEF V3Key, V3_MAPPING
<1>2. PICK S : S = {<<"span.self_time.count", "ysc">>, <<"span.self_time.sum.us", "yss">>,
                    <<"transaction.duration.count", "xdc">>,
                    <<"transaction.duration.sum.us", "xds">>,
                    <<"transaction.breakdown.count", "xbc">>}
  OBVIOUS
<1>3. S = V3_SAMPLES
  BY <1>2 DEF V3_SAMPLES
<1>4. \A s \in S : V3Key(s[1]) = s[2]
  <2>1. \A s \in S : s[1] \notin DOMAIN V3_MAPPING
    BY <1>2 DEF V3_MAPPING
  <2>2. \A s, t \in S : s[1] = t[1] => s = t
    BY <1>2
  <2> QED BY <1>3, <2>1, <2>2 DEF V3Key
<1>5. \A s \in S : V3(Sample(s[1])) = <<"me", "sa", s[2], "v">>
  BY <1>1, <1>4, V3Short DEF Sample
<1>6. V3(<<"breakdown", "span", "type">>) = <<"me", "y", "t">>
  BY <1>1, V3Short
<1>7. compressMetricsets = {<<<<"breakdown", "span", "type">>, <<"me", "y", "t">> >>}
        \cup {<<Sample(s[1]), <<"me", "sa", s[2], "v">> >> : s \in S}
  BY <1>2 DEF compressMetricsets
<1>8. Reads(compressMetricsets)
  BY <1>5, <1>6, <1>7 DEF Reads
<1>9. ASSUME NEW b \in Breakdown, NEW p \in b PROVE <<p, V3(p)>> \in compressMetricsets
  <2>1. p = <<"breakdown", "span", "type">> \/ \E s \in S : p = Sample(s[1])
    BY <1>2 DEF Breakdown
  <2> QED BY <1>5, <1>6, <1>7, <2>1
<1> QED BY <1>8, <1>9 DEF Covers

(* Nothing in a metricset is a mark.                                        *)
LEMMA BreakdownStart ==
    ASSUME NEW b \in Breakdown, NEW p \in b
    PROVE  p[1] = "breakdown"
BY DEF Breakdown, Sample

(* The marks of the navigation and their copies are there together.         *)
LEMMA CopiesTogether ==
    ASSUME NEW m \in Marks, NEW d \in Copies
    PROVE  d[1] \in m <=> d[2] \in m
<1>1. PICK t : t = {Timing(k) : k \in DOMAIN CompressedMarks}
  OBVIOUS
<1>2. PICK a : a = {AgentMark(k) : k \in Paints \cup {"timeToFirstByte", "domInteractive",
                                                     "domComplete"}}
  OBVIOUS
<1>3. PICK o : o = {<<"marks", "custom", "mark">>}
  OBVIOUS
<1>4. PICK page : page = t \cup a \cup Experience \cup Session
  OBVIOUS
<1>5. m \in {{}, page, o, page \cup o}
  BY <1>1, <1>2, <1>3, <1>4 DEF Marks
<1>6. d[1] \in page /\ d[2] \in page
  BY <1>1, <1>2, <1>4 DEF Copies, CompressedMarks
<1>7. d[1] \notin o /\ d[2] \notin o
  <2>1. d[1][2] = "agent" /\ d[2][2] = "navigationTiming"
    BY DEF Copies, AgentMark, Timing
  <2> QED BY <1>3, <2>1
<1> QED BY <1>5, <1>6, <1>7

(* Transactions: marks of the navigation have two names, the rest one.      *)
LEMMA TransactionNamed ==
    ASSUME NEW paths \in Captured.transaction
    PROVE  NamesRight("transaction", paths) /\ PathsNamed("transaction", paths)
<1>1. PICK N : N = [id |-> "id", trace_id |-> "tid", name |-> "n", type |-> "t",
                    duration |-> "d", sampled |-> "sm", sample_rate |-> "sr",
                    outcome |-> "o"]
  OBVIOUS
<1>2. DOMAIN N = TransactionKeys /\ DOMAIN N \subseteq Words
  BY <1>1 DEF TransactionKeys, Words
<1>3. \A k \in DOMAIN N : V3Key(k) = N[k]
  <2>1. V3Key("id") = "id"
    BY SameNames
  <2>2. \A k \in DOMAIN N \ {"id"} : k \in DOMAIN V3_MAPPING /\ V3_MAPPING[k] = N[k]
    BY <1>1 DEF V3_MAPPING
  <2> QED BY <1>1, <2>1, <2>2, MappingIs
<1>4. PICK R : R = Renamed(<<>>, <<>>, N)
  OBVIOUS
<1>5. Reads(R) /\ Covers(R, Keys(<<>>, TransactionKeys))
  <2>1. <<>> \in Seq(Words)
    OBVIOUS
  <2> QED BY <1>2, <1>3, <1>4, <2>1, V3Short, RenamedReads
<1>6. V3(<<"span_count", "started">>) = <<"yc", "sd">>
  <2>1. V3Key("span_count") = "yc" /\ V3Key("started") = "sd"
    BY DEF V3Key, V3_MAPPING
  <2> QED BY <2>1, V3Short
<1>7. Names["transaction"] = R \cup {<<<<"span_count", "started">>, <<"yc", "sd">> >>}
         \cup ExperienceNames \cup compressContext \cup compressMarks \cup compressMetricsets
  BY <1>1, <1>4 DEF Names, compressTransaction, ExperienceNames
<1>8. PICK c \in addTransactionContext, m \in Marks, b \in Breakdown :
         paths = Keys(<<>>, TransactionKeys) \cup {<<"span_count", "started">>}
                   \cup c \cup m \cup b
  <2>1. paths \in {Keys(<<>>, TransactionKeys) \cup {<<"span_count", "started">>}
                     \cup x \cup y \cup z :
                     x \in addTransactionContext, y \in Marks, z \in Breakdown}
    BY DEF Captured, createTransactionDataModel
  <2> QED BY <2>1
\* Marks of the navigation and those of the agent are there together
<1>9. \A d \in Copies : d[1] \in m <=> d[2] \in m
  BY CopiesTogether
<1>10. ASSUME NEW d \in Copies PROVE d[1] \in paths <=> d[2] \in paths
  <2>1. d[1][1] = "marks" /\ d[2][1] = "marks" /\ Len(d[1]) = 3 /\ Len(d[2]) = 3
    BY DEF Copies, Timing, AgentMark
  <2>2. ASSUME NEW q \in paths \ m, Len(q) = 3 PROVE q[1] # "marks"
    <3>1. CASE q \in Keys(<<>>, TransactionKeys)
      <4>1. Len(q) = 1
        BY <3>1, RootKeyIs DEF Keys
      <4> QED BY <2>2, <4>1
    <3>2. CASE q = <<"span_count", "started">>
      BY <2>2, <3>2
    <3>3. CASE q \in c
      BY <3>3, TransactionContexts DEF InContext
    <3>4. CASE q \in b
      BY <3>4, BreakdownStart
    <3> QED BY <1>8, <2>2, <3>1, <3>2, <3>3, <3>4
  <2> QED BY <1>8, <1>9, <2>1, <2>2
<1>11. NamesRight("transaction", paths)
  <2> SUFFICES ASSUME NEW n \in Names["transaction"], n[1] \in paths
               PROVE  \/ V3(n[1]) = n[2]
                      \/ \E d \in Copies : d[1] \in paths /\ n = <<d[2], V3(d[1])>>
    BY DEF NamesRight
  <2>1. CASE n \in compressMarks
    <3>1. CASE \E d \in Copies : n = <<d[2], V3(d[1])>>
      <4>1. PICK d \in Copies : n = <<d[2], V3(d[1])>>
        BY <3>1
      <4>2. d[2] \in paths
        BY <4>1
      <4> QED BY <1>10, <4>1, <4>2
    <3> QED BY <2>1, <3>1, MarksNamed
  <2>2. CASE n \notin compressMarks
    BY <1>5, <1>6, <1>7, <2>2, ExperienceNamed, ContextNames, MetricsNamed DEF Reads
  <2> QED BY <2>1, <2>2
<1>12. ASSUME NEW p \in paths
       PROVE  \/ <<p, V3(p)>> \in Names["transaction"]
              \/ \E d \in Copies : /\ d[1] = p /\ d[2] \in paths
                                   /\ <<d[2], V3(p)>> \in Names["transaction"]
              \/ PathLeftOut("transaction", p)
  <2>1. CASE p \in Keys(<<>>, TransactionKeys) \cup {<<"span_count", "started">>}
    BY <1>5, <1>6, <1>7, <2>1 DEF Covers
  <2>2. CASE p \in c
    BY <1>7, <2>2, ContextNamed DEF PathLeftOut
  <2>3. CASE p \in b
    BY <1>7, <2>3, MetricsNamed DEF Covers
  <2>4. CASE p \in m
    <3>1. CASE p \in Experience \cup Session
      BY <1>7, <3>1, ExperienceNamed DEF Covers
    <3>2. CASE p \in {Timing(k) : k \in DOMAIN CompressedMarks}
      BY <1>7, <3>2, MarksNamed
    <3>3. CASE p \in {AgentMark(k) : k \in Paints}
      BY <1>7, <3>3, MarksNamed
    <3>4. CASE p \in {AgentMark(k) : k \in {"timeToFirstByte", "domInteractive", "domComplete"}}
      <4>1. PICK d \in Copies : d[1] = p
        BY <3>4 DEF Copies
      <4>2. d[2] \in paths /\ <<d[2], V3(p)>> \in compressMarks
        BY <1>10, <4>1, MarksNamed
      <4> QED BY <1>7, <4>1, <4>2
    <3>5. CASE p = <<"marks", "custom", "mark">>
      BY <3>5, OwnMarkLeftOut
    <3>6. \/ p \in Experience \cup Session
          \/ p \in {Timing(k) : k \in DOMAIN CompressedMarks}
          \/ p \in {AgentMark(k) : k \in Paints}
          \/ p \in {AgentMark(k) : k \in {"timeToFirstByte", "domInteractive", "domComplete"}}
          \/ p = <<"marks", "custom", "mark">>
      BY <2>4 DEF Marks
    <3> QED BY <3>1, <3>2, <3>3, <3>4, <3>5, <3>6
  <2> QED BY <1>8, <2>1, <2>2, <2>3, <2>4
<1> QED BY <1>11, <1>12 DEF PathsNamed

(* The type of an exception, whose name is looked for in the wrong object    *)
LEMMA TypeLeftOut ==
    ASSUME NEW k
    PROVE  PathLeftOut(k, <<"exception", "type">>)
<1>1. PICK p \in Seq({"exception", "type"}) : p = <<"exception", "type">> /\ Len(p) = 2
                                  /\ p[1] = "exception" /\ p[2] = "type"
  <2>1. <<"exception", "type">> \in Seq({"exception", "type"})
    OBVIOUS
  <2> QED BY <2>1
<1>2. PICK r : r = SubSeq(p, 1, 2)
  OBVIOUS
<1>3. r \in Seq({"exception", "type"}) /\ Len(r) = 2 /\ r[1] = "exception" /\ r[2] = "type"
  BY <1>1, <1>2
<1>4. \A i \in 1..Len(r) : r[i] = p[i]
  BY <1>1, <1>3
<1>5. r = p
  BY <1>1, <1>3, <1>4, SeqEqual
<1>6. PathLeftOut(k, p)
  <2>1. Len(p) > 1
    BY <1>1
  <2>2. SubSeq(p, 1, 2) = p
    BY <1>2, <1>5
  <2>3. p = <<"exception", "type">>
    BY <1>1
  <2> QED BY <2>1, <2>2, <2>3 DEF PathLeftOut
<1> QED BY <1>1, <1>6

(* Errors *)
LEMMA ErrorNamed ==
    ASSUME NEW paths \in Captured.error
    PROVE  NamesRight("error", paths) /\ PathsNamed("error", paths)
<1>1. PICK N : N = [id |-> "id", culprit |-> "cl", trace_id |-> "tid",
                    parent_id |-> "pid", transaction_id |-> "xid"]
  OBVIOUS
<1>2. PICK T : T = [type |-> "t", sampled |-> "sm"]
  OBVIOUS
<1>3. PICK F : F = [abs_path |-> "ap", filename |-> "f", function |-> "fn",
                    lineno |-> "li", colno |-> "co"]
  OBVIOUS
<1>4. /\ DOMAIN N = {"id", "culprit", "trace_id", "parent_id", "transaction_id"}
      /\ DOMAIN T = {"type", "sampled"}
      /\ DOMAIN F = {"abs_path", "filename", "function", "lineno", "colno"}
      /\ DOMAIN N \subseteq Words /\ DOMAIN T \subseteq Words /\ DOMAIN F \subseteq Words
  BY <1>1, <1>2, <1>3 DEF Words
<1>5. \A k \in DOMAIN N : V3Key(k) = N[k]
  <2>1. V3Key("id") = "id"
    BY SameNames
  <2>2. \A k \in DOMAIN N \ {"id"} : k \in DOMAIN V3_MAPPING /\ V3_MAPPING[k] = N[k]
    BY <1>1 DEF V3_MAPPING
  <2> QED BY <1>1, <2>1, <2>2, MappingIs
<1>6. /\ \A k \in DOMAIN T : V3Key(k) = T[k]
      /\ \A k \in DOMAIN F : V3Key(k) = F[k]
  <2>1. /\ \A k \in DOMAIN T : k \in DOMAIN V3_MAPPING /\ V3_MAPPING[k] = T[k]
        /\ \A k \in DOMAIN F : k \in DOMAIN V3_MAPPING /\ V3_MAPPING[k] = F[k]
    BY <1>2, <1>3 DEF V3_MAPPING
  <2> QED BY <2>1, MappingIs
<1>7. PICK R : R = Renamed(<<>>, <<>>, N)
  OBVIOUS
<1>8. PICK X : X = Renamed(<<"transaction">>, <<"x">>, T)
  OBVIOUS
<1>9. PICK S : S = Renamed(<<"exception", "stacktrace">>, <<"ex", "st">>, F)
  OBVIOUS
<1>10. /\ V3Key("exception") = "ex" /\ V3Key("message") = "mg" /\ V3Key("transaction") = "x"
       /\ V3Key("stacktrace") = "st"
  BY DEF V3Key, V3_MAPPING
<1>11. Reads(R) /\ Covers(R, Keys(<<>>, DOMAIN N))
  <2>1. <<>> \in Seq(Words)
    OBVIOUS
  <2> QED BY <1>4, <1>5, <1>7, <2>1, V3Short, RenamedReads
<1>12. Reads(X) /\ Covers(X, Keys(<<"transaction">>, {"type", "sampled"}))
  <2>1. "transaction" \in Words
    BY DEF Words
  <2>2. <<"transaction">> \in Seq(Words)
    BY <2>1
  <2>3. V3(<<"transaction">>) = <<"x">>
    BY <1>10, V3Short
  <2> QED BY <1>4, <1>6, <1>8, <2>2, <2>3, RenamedReads
<1>13. Reads(S) /\ Covers(S, Frame)
  <2>1. {"exception", "stacktrace"} \subseteq Words
    BY DEF Words
  <2>2. <<"exception", "stacktrace">> \in Seq(Words)
    BY <2>1
  <2>3. V3(<<"exception", "stacktrace">>) = <<"ex", "st">>
    BY <1>10, V3Short
  <2>4. Frame = Keys(<<"exception", "stacktrace">>, DOMAIN F)
    BY <1>4 DEF Frame
  <2> QED BY <1>4, <1>6, <1>9, <2>2, <2>3, <2>4, RenamedReads
<1>14. V3(<<"exception", "message">>) = <<"ex", "mg">>
  BY <1>10, V3Short
<1>15. PICK M : M = <<<<"exception", "message">>, <<"ex", "mg">> >>
  OBVIOUS
<1>16. PICK Y : Y = <<<<"type">>, <<"ex", "t">> >>
  OBVIOUS
<1>17. Names["error"] = R \cup X \cup {M, Y} \cup S \cup compressContext
  BY <1>1, <1>2, <1>3, <1>7, <1>8, <1>9, <1>15, <1>16 DEF Names, compressError
<1>18. PICK c \in addTransactionContext,
            t \in {{}, Keys(<<>>, {"trace_id", "parent_id", "transaction_id"})
                         \cup Keys(<<"transaction">>, {"type", "sampled"})} :
          paths = Keys(<<>>, {"id", "culprit"}) \cup Keys(<<"exception">>, {"message", "type"})
                    \cup Frame \cup c \cup t
  <2>1. paths \in {Keys(<<>>, {"id", "culprit"}) \cup Keys(<<"exception">>, {"message", "type"})
                     \cup Frame \cup x \cup y :
                     x \in addTransactionContext,
                     y \in {{}, Keys(<<>>, {"trace_id", "parent_id", "transaction_id"})
                                  \cup Keys(<<"transaction">>, {"type", "sampled"})}}
    BY DEF Captured, createErrorDataModel
  <2> QED BY <2>1
<1>19. /\ Keys(<<"exception">>, {"message", "type"})
            = {<<"exception", "message">>, <<"exception", "type">>}
       /\ Keys(<<"transaction">>, {"type", "sampled"})
            = {<<"transaction", "type">>, <<"transaction", "sampled">>}
       /\ \A p \in Frame : p[1] = "exception"
  BY AppendIs DEF Keys, Frame
<1>20. <<"type">> \notin paths
  <2>1. <<"type">>[1] = "type"
    OBVIOUS
  <2>2. ASSUME NEW p \in paths PROVE p[1] # "type"
    <3>1. CASE p \in Keys(<<>>, DOMAIN N)
      BY <1>4, <3>1, RootKeyIs DEF Keys
    <3>2. CASE p \in Keys(<<"exception">>, {"message", "type"}) \cup Frame
                       \cup Keys(<<"transaction">>, {"type", "sampled"})
      BY <1>19, <3>2
    <3>3. CASE p \in c
      BY <3>3, TransactionContexts DEF InContext
    <3> QED BY <1>4, <1>18, <3>1, <3>2, <3>3 DEF Keys
  <2> QED BY <2>1, <2>2
<1>21. NamesRight("error", paths)
  <2> SUFFICES ASSUME NEW n \in Names["error"], n[1] \in paths PROVE V3(n[1]) = n[2]
    BY DEF NamesRight
  <2>1. n # Y
    BY <1>16, <1>20
  <2> QED BY <1>11, <1>12, <1>13, <1>14, <1>15, <1>17, <2>1, ContextNames DEF Reads
<1>22. ASSUME NEW p \in paths
       PROVE  <<p, V3(p)>> \in Names["error"] \/ PathLeftOut("error", p)
  <2>1. CASE p \in Keys(<<>>, DOMAIN N)
    BY <1>11, <1>17, <2>1 DEF Covers
  <2>2. CASE p \in Keys(<<"transaction">>, {"type", "sampled"})
    BY <1>12, <1>17, <2>2 DEF Covers
  <2>3. CASE p \in Frame
    BY <1>13, <1>17, <2>3 DEF Covers
  <2>4. CASE p = <<"exception", "message">>
    BY <1>14, <1>15, <1>17, <2>4
  <2>5. CASE p = <<"exception", "type">>
    BY <2>5, TypeLeftOut
  <2>6. CASE p \in c
    BY <1>17, <2>6, ContextNamed DEF PathLeftOut
  <2> QED BY <1>4, <1>18, <1>19, <2>1, <2>2, <2>3, <2>4, <2>5, <2>6 DEF Keys
<1> QED BY <1>21, <1>22 DEF PathsNamed

(* The metadata *)
LEMMA MetadataNamed ==
    ASSUME NEW paths \in Captured.metadata
    PROVE  NamesRight("metadata", paths) /\ PathsNamed("metadata", paths)
<1>1. PICK N : N = [name |-> "n", version |-> "ve", environment |-> "en"]
  OBVIOUS
<1>2. PICK A : A = [name |-> "n", version |-> "ve"]
  OBVIOUS
<1>3. /\ DOMAIN N = {"name", "version", "environment"} /\ DOMAIN A = {"name", "version"}
      /\ DOMAIN N \subseteq Words /\ DOMAIN A \subseteq Words
  BY <1>1, <1>2 DEF Words
<1>4. /\ \A k \in DOMAIN N : V3Key(k) = N[k]
      /\ \A k \in DOMAIN A : V3Key(k) = A[k]
  <2>1. /\ \A k \in DOMAIN N : k \in DOMAIN V3_MAPPING /\ V3_MAPPING[k] = N[k]
        /\ \A k \in DOMAIN A : k \in DOMAIN V3_MAPPING /\ V3_MAPPING[k] = A[k]
    BY <1>1, <1>2 DEF V3_MAPPING
  <2> QED BY <2>1, MappingIs
<1>5. PICK S : S = Renamed(<<"service">>, <<"se">>, N)
  OBVIOUS
<1>6. PICK G : G = Renamed(<<"service", "agent">>, <<"se", "a">>, A)
  OBVIOUS
<1>7. /\ V3Key("service") = "se" /\ V3Key("agent") = "a" /\ V3Key("language") = "la"
      /\ V3Key("name") = "n" /\ V3Key("labels") = "l" /\ V3Key("label") = "label"
  <2>1. V3Key("label") = "label"
    BY SameNames
  <2> QED BY <2>1 DEF V3Key, V3_MAPPING
<1>8. {"service", "agent"} \subseteq Words
  BY DEF Words
<1>9. Reads(S) /\ Covers(S, Keys(<<"service">>, {"name", "version", "environment"}))
  <2>1. <<"service">> \in Seq(Words)
    BY <1>8
  <2>2. V3(<<"service">>) = <<"se">>
    BY <1>7, V3Short
  <2> QED BY <1>3, <1>4, <1>5, <2>1, <2>2, RenamedReads
<1>10. Reads(G) /\ Covers(G, Keys(<<"service", "agent">>, {"name", "version"}))
  <2>1. <<"service", "agent">> \in Seq(Words)
    BY <1>8
  <2>2. V3(<<"service", "agent">>) = <<"se", "a">>
    BY <1>7, V3Short
  <2> QED BY <1>3, <1>4, <1>6, <2>1, <2>2, RenamedReads
<1>11. /\ V3(<<"service", "language", "name">>) = <<"se", "la", "n">>
       /\ V3(<<"labels", "label">>) = <<"l", "label">>
  BY <1>7, V3Short
<1>12. PICK L : L = {<<<<"service", "language", "name">>, <<"se", "la", "n">> >>,
                     <<<<"labels", "label">>, <<"l", "label">> >>}
  OBVIOUS
<1>13. Names["metadata"] = S \cup G \cup L
  BY <1>1, <1>2, <1>5, <1>6, <1>12 DEF Names, compressMetadata
<1>14. Reads(L) /\ Covers(L, {<<"service", "language", "name">>, <<"labels", "label">>})
  BY <1>11, <1>12 DEF Reads, Covers
<1>15. paths = Keys(<<"service">>, {"name", "version", "environment"})
                 \cup Keys(<<"service", "agent">>, {"name", "version"})
                 \cup {<<"service", "language", "name">>, <<"labels", "label">>}
  BY DEF Captured, createMetaData
<1>16. NamesRight("metadata", paths)
  BY <1>9, <1>10, <1>13, <1>14 DEF Reads, NamesRight
<1>17. ASSUME NEW p \in paths PROVE <<p, V3(p)>> \in Names["metadata"]
  BY <1>9, <1>10, <1>13, <1>14, <1>15 DEF Covers
<1> QED BY <1>16, <1>17 DEF PathsNamed

(* So the names fit all that is captured.                                   *)
LEMMA CapturedNamed ==
    ASSUME NEW k \in DOMAIN Captured, NEW paths \in Captured[k]
    PROVE  NamesRight(k, paths) /\ PathsNamed(k, paths)
<1>1. k \in {"span", "transaction", "error", "metadata"}
  BY DEF Captured
<1>2. CASE k = "span"
  BY <1>2, SpanNamed
<1>3. CASE k = "transaction"
  BY <1>3, TransactionNamed
<1>4. CASE k = "error"
  BY <1>4, ErrorNamed
<1>5. CASE k = "metadata"
  BY <1>5, MetadataNamed
<1> QED BY <1>1, <1>2, <1>3, <1>4, <1>5

(* Rules that require nothing of an object two keys deep                    *)
Elsewhere == {r \in RuleOf(Keywords) : r.required => Len(r.at) # 2}

(* The model of transactions requires nothing of the marks.                 *)
LEMMA TransactionRules == TRANSACTION_MODEL \in Seq(Elsewhere)
<1>1. CONTEXT_MODEL \in Seq(Elsewhere)
  <2>1. InOrder(CONTEXT_MODEL) /\ CONTEXT_MODEL \in Seq(Fitting({}, {}))
    BY ContextModel
  <2>2. PICK m : m = CONTEXT_MODEL
    OBVIOUS
  <2>3. m \in Seq(RuleOf(Keywords)) /\ m \in Seq(Fitting({}, {}))
        /\ \A i \in 1..Len(m) : m[i] \in NotAll \/ m[i] \in All
    BY <2>1, <2>2 DEF InOrder
  <2>4. ASSUME NEW i \in 1..Len(m) PROVE m[i] \in Elsewhere
    <3>1. PICK r : r = m[i]
      OBVIOUS
    <3>2. r \in RuleOf(Keywords) /\ r \in Fitting({}, {}) /\ (r \in NotAll \/ r \in All)
      BY <2>3, <3>1
    <3>3. ~(r.required /\ r.key # "*")
      BY <3>2 DEF Fitting
    <3>4. CASE r \in NotAll
      <4>1. ~r.required
        BY <3>3, <3>4 DEF NotAll
      <4> QED BY <3>1, <3>2, <4>1 DEF Elsewhere
    <3>5. CASE r \in All
      <4>1. r.at = Service /\ Len(Service) = 3
        BY <3>5, ContextAt DEF All
      <4>2. Len(r.at) # 2
        BY <4>1
      <4> QED BY <3>1, <3>2, <4>2 DEF Elsewhere
    <3> QED BY <3>2, <3>4, <3>5
  <2>5. m \in Seq(Elsewhere)
    BY <2>3, <2>4
  <2> QED BY <2>2, <2>5
<1>2. PICK K : K = {"name", "parent_id", "type", "id", "trace_id", "started"}
  OBVIOUS
<1>3. K \subseteq Keywords /\ "span_count" \in Keywords
  BY <1>2 DEF Words, Keywords
<1>4. PICK s \in Seq(Keywords) : s = <<"name", "parent_id">>
  <2>1. {"name", "parent_id"} \subseteq Keywords
    BY <1>2, <1>3
  <2>2. <<"name", "parent_id">> \in Seq(Keywords)
    BY <2>1
  <2> QED BY <2>2
<1>5. PICK t \in Seq(Keywords) : t = <<"type", "id", "trace_id">>
  <2>1. {"type", "id", "trace_id"} \subseteq Keywords
    BY <1>2, <1>3
  <2>2. <<"type", "id", "trace_id">> \in Seq(Keywords)
    BY <2>1
  <2> QED BY <2>2
<1>6. PICK u \in Seq(Keywords) : u = <<"started">>
  <2>1. {"started"} \subseteq Keywords
    BY <1>2, <1>3
  <2>2. <<"started">> \in Seq(Keywords)
    BY <2>1
  <2> QED BY <2>2
<1>7. PICK at \in Seq(Keywords) : at = <<>> /\ Len(at) = 0
  <2>1. <<>> \in Seq(Keywords) /\ Len(<<>>) = 0
    OBVIOUS
  <2> QED BY <2>1
<1>8. PICK of \in Seq(Keywords) : of = <<"span_count">> /\ Len(of) = 1
  <2>1. <<"span_count">> \in Seq(Keywords) /\ Len(<<"span_count">>) = 1
    BY <1>3
  <2> QED BY <2>1
<1>9. ASSUME NEW a \in Seq(Keywords), Len(a) # 2, NEW keys \in Seq(Keywords),
             NEW required \in BOOLEAN
      PROVE  Rules(a, keys, required) \in Seq(Elsewhere)
  <2>1. ASSUME NEW k \in Keywords
        PROVE  [at |-> a, key |-> k, required |-> required] \in Elsewhere
    <3>1. PICK r : r = [at |-> a, key |-> k, required |-> required]
      OBVIOUS
    <3>2. r \in RuleOf(Keywords) /\ r.at = a
      BY <3>1 DEF RuleOf
    <3> QED BY <1>9, <3>1, <3>2 DEF Elsewhere
  <2> QED BY <2>1, RulesIn
<1>10. Len(at) # 2 /\ Len(of) # 2 /\ TRUE \in BOOLEAN /\ FALSE \in BOOLEAN
  BY <1>7, <1>8
<1>11. PICK f \in Seq(Elsewhere) : f = Rules(at, s, FALSE) \o Rules(at, t, TRUE)
  <2>1. Rules(at, s, FALSE) \in Seq(Elsewhere) /\ Rules(at, t, TRUE) \in Seq(Elsewhere)
    BY <1>9, <1>10
  <2> QED BY <2>1, JoinIs
<1>12. PICK g \in Seq(Elsewhere) : g = f \o Rules(of, u, TRUE)
  <2>1. Rules(of, u, TRUE) \in Seq(Elsewhere)
    BY <1>9, <1>10
  <2> QED BY <2>1, JoinIs
<1>13. g \o CONTEXT_MODEL \in Seq(Elsewhere)
  BY <1>1, JoinIs
<1> QED BY <1>4, <1>5, <1>6, <1>7, <1>8, <1>11, <1>12, <1>13 DEF TRANSACTION_MODEL

(* Only transactions have marks.                                            *)
LEMMA MarksOfTransactions ==
    ASSUME NEW k \in DOMAIN Captured, NEW paths \in Captured[k], NEW p \in paths,
           Len(p) > 1, p[1] = "marks"
    PROVE  k = "transaction"
<1>1. k \in {"span", "transaction", "error", "metadata"}
  BY DEF Captured
<1>2. \A n : p \notin Keys(<<>>, n)
  <2> SUFFICES ASSUME NEW n, p \in Keys(<<>>, n) PROVE FALSE
    OBVIOUS
  <2>1. PICK w \in n : p = Append(<<>>, w)
    BY DEF Keys
  <2> QED BY <2>1, RootKeyIs
<1>3. CASE k = "span"
  <2>1. PICK c \in addSpanContext, l \in {{}, Labels} :
           paths = Keys(<<>>, SpanKeys) \cup c \cup l
    <3>1. paths \in {Keys(<<>>, SpanKeys) \cup c \cup l :
                        c \in addSpanContext, l \in {{}, Labels}}
      BY <1>3 DEF Captured
    <3> QED BY <3>1
  <2>2. InContext(c) /\ InContext(Labels)
    BY SpanContexts, ApplicationPaths
  <2> QED BY <1>2, <2>1, <2>2 DEF InContext
<1>4. CASE k = "error"
  <2>1. paths \in Captured.error
    BY <1>4
  <2>2. PICK c \in addTransactionContext,
             t \in {{}, Keys(<<>>, {"trace_id", "parent_id", "transaction_id"})
                          \cup Keys(<<"transaction">>, {"type", "sampled"})} :
           paths = Keys(<<>>, {"id", "culprit"}) \cup Keys(<<"exception">>, {"message", "type"})
                     \cup Frame \cup c \cup t
    <3>1. paths \in {Keys(<<>>, {"id", "culprit"})
                       \cup Keys(<<"exception">>, {"message", "type"}) \cup Frame \cup x \cup y :
                       x \in addTransactionContext,
                       y \in {{}, Keys(<<>>, {"trace_id", "parent_id", "transaction_id"})
                                    \cup Keys(<<"transaction">>, {"type", "sampled"})}}
      BY <2>1 DEF Captured, createErrorDataModel
    <3> QED BY <3>1
  <2>3. \A q \in Frame \cup Keys(<<"exception">>, {"message", "type"})
              \cup Keys(<<"transaction">>, {"type", "sampled"}) :
           q[1] \in {"exception", "transaction"}
    BY AppendIs DEF Keys, Frame
  <2>4. InContext(c)
    BY TransactionContexts
  <2> QED BY <1>2, <2>2, <2>3, <2>4 DEF InContext
<1>5. CASE k = "metadata"
  <2>1. paths \in Captured.metadata
    BY <1>5
  <2> QED BY <2>1, MetadataPaths
<1> QED BY <1>1, <1>3, <1>4, <1>5

(* The marks and their copies                                               *)
LEMMA CopiesAre ==
    ASSUME NEW c \in Copies
    PROVE  /\ Len(c[1]) = 3 /\ c[1][1] = "marks" /\ Len(c[2]) = 3 /\ c[2][1] = "marks"
           /\ c[2] \notin OnlyTruthy /\ c[2] # <<"parent_id">>
           /\ IsNumber(c[1]) /\ IsNumber(c[2])
           /\ \A isChild \in BOOLEAN :
                 SameAs(c[1], isChild) = c[2] /\ SameAs(c[2], isChild) = c[2]
<1>1. PICK k \in {"responseStart", "domInteractive", "domComplete"} :
         /\ c[2] = Timing(k)
         /\ c[1] = AgentMark(IF k = "responseStart" THEN "timeToFirstByte" ELSE k)
  BY DEF Copies
<1>2. /\ c[2] = <<"marks", "navigationTiming", k>>
      /\ c[1] = <<"marks", "agent", IF k = "responseStart" THEN "timeToFirstByte" ELSE k>>
  BY <1>1 DEF Timing, AgentMark
<1>3. /\ Len(c[2]) = 3 /\ c[2][1] = "marks" /\ c[2][2] = "navigationTiming" /\ c[2][3] = k
      /\ Len(c[1]) = 3 /\ c[1][1] = "marks" /\ c[1][2] = "agent"
      /\ k # "responseStart" => c[1][3] = k
  BY <1>2
<1>4. IsNumber(c[1]) /\ IsNumber(c[2])
  BY <1>3 DEF IsNumber
<1>5. c[2] \notin OnlyTruthy /\ c[2] # <<"parent_id">>
  <2>1. \A a, b : Append(Context(a), b)[1] = "context"
    BY AppendIs DEF Context
  <2>2. \A a : <<a>>[1] = a
    OBVIOUS
  <2>3. \A a : AgentMark(a)[2] = "agent"
    BY DEF AgentMark
  <2>4. Context("http") \o <<"method">> # c[2] /\ Context("http") \o <<"status_code">> # c[2]
    <3>1. ASSUME NEW w, NEW q, q = <<"context", "http">> \o <<w>> PROVE q[1] = "context"
      <4>1. PICK S : S = {"context", "http", w}
        OBVIOUS
      <4>2. PICK a \in Seq(S) : a = <<"context", "http">> /\ Len(a) = 2 /\ a[1] = "context"
        <5>1. {"context", "http"} \subseteq S
          BY <4>1
        <5>2. <<"context", "http">> \in Seq(S)
          BY <5>1
        <5> QED BY <5>2
      <4>3. PICK b \in Seq(S) : b = <<w>>
        <5>1. w \in S
          BY <4>1
        <5>2. <<w>> \in Seq(S)
          BY <5>1
        <5> QED BY <5>2
      <4>4. q = a \o b
        BY <3>1, <4>2, <4>3
      <4> QED BY <4>2, <4>4, JoinIs
    <3>2. c[2][1] # "context"
      BY <1>3
    <3> QED BY <3>1, <3>2 DEF Context
  <2> QED BY <1>3, <2>2, <2>3, <2>4 DEF OnlyTruthy
<1>6. k \in DOMAIN CompressedMarks
  BY DEF CompressedMarks
<1>7. Last(c[2]) = k /\ (k # "responseStart" => Last(c[1]) = k)
  BY <1>3 DEF Last
<1>8. c[2] # AgentMark("timeToFirstByte") /\ c[1] # <<"parent_id">>
  <2>1. AgentMark("timeToFirstByte")[2] = "agent" /\ <<"parent_id">>[1] = "parent_id"
    BY DEF AgentMark
  <2> QED BY <1>3, <2>1
<1>9. ASSUME NEW isChild \in BOOLEAN PROVE SameAs(c[2], isChild) = c[2]
  BY <1>1, <1>3, <1>5, <1>6, <1>7, <1>8 DEF SameAs
<1>10. ASSUME NEW isChild \in BOOLEAN PROVE SameAs(c[1], isChild) = c[2]
  <2>1. CASE k = "responseStart"
    BY <1>1, <1>8, <2>1 DEF SameAs
  <2>2. CASE k # "responseStart"
    <3>1. c[1] # AgentMark("timeToFirstByte")
      <4>1. AgentMark("timeToFirstByte")[3] = "timeToFirstByte"
        BY DEF AgentMark
      <4> QED BY <1>3, <2>2, <4>1
    <3> QED BY <1>1, <1>3, <1>6, <1>7, <1>8, <2>2, <3>1 DEF SameAs
  <2> QED BY <2>1, <2>2
<1> QED BY <1>3, <1>4, <1>5, <1>9, <1>10

-----------------------------------------------------------------------------
(* What is posted reads back                                               *)

(* A mark and its copy are both there, with the same value, unless neither  *)
(* is or both are undefined.                                                *)
Alike(d, paths) ==
    \A c \in Copies :
       {c[1], c[2]} \subseteq paths /\ (\/ ValueAt(d, c[1]).is # "undefined"
                                        \/ ValueAt(d, c[2]).is # "undefined") =>
          /\ {c[1], c[2]} \subseteq DOMAIN d.values
          /\ d.values[c[1]] = d.values[c[2]]

(* What is under a name was at a path of that name.                         *)
LEMMA WireIsData ==
    ASSUME NEW paths, NamesRight(kind, paths), DOMAIN data.values \subseteq paths,
           Alike(data, paths), NEW q \in DOMAIN Compressed
    PROVE  \E p \in DOMAIN data.values : V3(p) = q /\ data.values[p] = Compressed[q]
<1>1. PICK names : names = {n \in Names[kind] : Copied(n[1])}
  OBVIOUS
<1>2. PICK Of : Of = [w \in {n[2] : n \in names} |->
                         ValueAt(data, (CHOOSE n \in names : n[2] = w)[1])]
  OBVIOUS
<1>3. Compressed = Of
  BY <1>1, <1>2 DEF Compressed
<1>4. q \in {n[2] : n \in names}
  BY <1>2, <1>3
<1>5. PICK n \in names : n[2] = q /\ Of[q] = ValueAt(data, n[1])
  <2>1. PICK n : n = CHOOSE x \in names : x[2] = q
    OBVIOUS
  <2>2. n \in names /\ n[2] = q
    BY <1>4, <2>1
  <2>3. Of[q] = ValueAt(data, n[1])
    BY <1>2, <1>4, <2>1
  <2> QED BY <2>2, <2>3
<1>6. n \in Names[kind] /\ ValueAt(data, n[1]).is # "undefined"
  BY <1>1 DEF Copied
<1>7. n[1] \in DOMAIN data.values /\ ValueAt(data, n[1]) = data.values[n[1]]
  <2>1. n[1] \notin DOMAIN data.values => ValueAt(data, n[1]).is = "undefined"
    BY DEF ValueAt, Undefined, Value
  <2> QED BY <1>6, <2>1 DEF ValueAt
<1>8. n[1] \in paths
  BY <1>7
<1>9. CASE V3(n[1]) = n[2]
  BY <1>3, <1>5, <1>7, <1>9
<1>10. CASE \E c \in Copies : c[1] \in paths /\ n = <<c[2], V3(c[1])>>
  <2>1. PICK c \in Copies : c[1] \in paths /\ n = <<c[2], V3(c[1])>>
    BY <1>10
  <2>2. n[1] = c[2] /\ n[2] = V3(c[1])
    BY <2>1
  <2>3. /\ {c[1], c[2]} \subseteq DOMAIN data.values
        /\ data.values[c[1]] = data.values[c[2]]
    BY <1>6, <1>8, <2>1, <2>2 DEF Alike
  <2> QED BY <1>3, <1>5, <1>7, <2>2, <2>3
<1> QED BY <1>6, <1>8, <1>9, <1>10 DEF NamesRight

(* What is left out is what the code leaves out.                            *)
LEMMA DataIsOnWire ==
    ASSUME NEW paths, PathsNamed(kind, paths), DOMAIN data.values \subseteq paths,
           Alike(data, paths), NEW p \in DOMAIN data.values
    PROVE  LeftOut(p) \/ V3(p) \in DOMAIN Compressed
<1> SUFFICES ASSUME ~LeftOut(p) PROVE V3(p) \in DOMAIN Compressed
  OBVIOUS
<1>1. PICK names : names = {n \in Names[kind] : Copied(n[1])}
  OBVIOUS
<1>2. DOMAIN Compressed = {n[2] : n \in names}
  BY <1>1 DEF Compressed
<1>3. /\ data.values[p].is # "undefined" /\ p \in paths /\ ValueAt(data, p) = data.values[p]
      /\ p \in OnlyTruthy => Truthy(data.values[p])
      /\ ~PathLeftOut(kind, p)
  BY DEF LeftOut, PathLeftOut, ValueAt
<1>4. ~(kind = "span" /\ p = <<"parent_id">>)
  <2>1. Append(<<>>, "parent_id") = <<"parent_id">>
    BY AppendIs
  <2>2. <<"parent_id">> \in Keys(<<>>, {"trace_id", "transaction_id", "parent_id"})
    BY <2>1 DEF Keys
  <2> QED BY <1>3, <2>2 DEF PathLeftOut
<1>5. CASE <<p, V3(p)>> \in Names[kind]
  <2>1. Copied(p)
    BY <1>3, <1>4 DEF Copied
  <2>2. PICK n : n = <<p, V3(p)>>
    OBVIOUS
  <2>3. n \in names /\ n[2] = V3(p)
    BY <1>1, <1>5, <2>1, <2>2
  <2> QED BY <1>2, <2>3
<1>6. CASE \E c \in Copies : c[1] = p /\ c[2] \in paths /\ <<c[2], V3(p)>> \in Names[kind]
  <2>1. PICK c \in Copies : c[1] = p /\ c[2] \in paths /\ <<c[2], V3(p)>> \in Names[kind]
    BY <1>6
  <2>2. c[2] \in DOMAIN data.values /\ data.values[p] = data.values[c[2]]
    BY <1>3, <2>1 DEF Alike
  <2>3. ValueAt(data, c[2]).is # "undefined"
    BY <1>3, <2>2 DEF ValueAt
  <2>4. c[2] \notin OnlyTruthy /\ c[2] # <<"parent_id">>
    BY CopiesAre
  <2>5. Copied(c[2])
    BY <2>3, <2>4 DEF Copied
  <2>6. PICK n : n = <<c[2], V3(p)>>
    OBVIOUS
  <2>7. n \in names /\ n[2] = V3(p)
    BY <1>1, <2>1, <2>5, <2>6
  <2> QED BY <1>2, <2>7
<1> QED BY <1>3, <1>5, <1>6 DEF PathsNamed

(* A mark and its copy are one number, or both undefined,                   *)
MarksRepeat(b, paths) ==
    \A c \in Copies : {c[1], c[2]} \subseteq paths =>
       b.values[c[1]] = b.values[c[2]] /\ b.values[c[1]].is \in {"number", "undefined"}

(* when they are captured (getPageLoadMarks).                               *)
LEMMA ObjectRepeats ==
    ASSUME NEW paths, NEW isChild \in BOOLEAN, NEW p, NEW odd \in Odd(p)
    PROVE  MarksRepeat(Object(paths, p, odd, isChild), paths)
<1> SUFFICES ASSUME NEW c \in Copies, {c[1], c[2]} \subseteq paths,
                    NEW b, b = Object(paths, p, odd, isChild)
             PROVE  b.values[c[1]] = b.values[c[2]]
                    /\ b.values[c[1]].is \in {"number", "undefined"}
  BY DEF MarksRepeat
<1>1. PICK v : v = IF c[2] = p THEN odd
                   ELSE Value(c[2], IF IsNumber(c[2]) THEN "number" ELSE "string", 1)
  OBVIOUS
<1>2. SameAs(c[1], isChild) = c[2] /\ SameAs(c[2], isChild) = c[2] /\ IsNumber(c[2])
  BY CopiesAre
<1>3. b.values[c[1]] = v /\ b.values[c[2]] = v
  BY <1>1, <1>2 DEF Object
<1>4. c[2] = p => odd = Undefined(p) \/ odd = Value(p, "number", 0)
  BY <1>2 DEF Odd
<1>5. v.is = "number" \/ v.is = "undefined"
  BY <1>1, <1>2, <1>4 DEF Undefined, Value
<1> QED BY <1>3, <1>5

(* Truncation leaves a mark and its copy alike, for it changes no number,   *)
(* and no mark is required.                                                 *)
LEMMA TruncatedAlike ==
    ASSUME NEW k \in DOMAIN Captured, NEW paths \in Captured[k], NEW b \in Captures(paths),
           MarksRepeat(b, paths), NEW d, d = truncateModel(Model[k], b)
    PROVE  DOMAIN d.values \subseteq paths /\ Alike(d, paths)
<1>1. DOMAIN b.values = paths
  BY DEF Captures
<1>2. DOMAIN d.values \subseteq paths
  <2>1. Suits(Model[k], b, Objects(paths), Keywords, Seq(Keywords) \cup {<<"N/A">>})
    BY CapturedSuits
  <2>2. Applied(Model[k], b, Objects(paths), Keywords, Seq(Keywords) \cup {<<"N/A">>},
                truncateModel(Model[k], b), Len(Model[k]))
    BY <2>1, ModelApplied
  <2> QED BY <1>1, <2>2 DEF Applied, Kept
<1>3. Fits(k, b, d)
  BY TruncationFitsAnyValues
<1>4. ASSUME NEW c \in Copies, {c[1], c[2]} \subseteq paths,
             \/ ValueAt(d, c[1]).is # "undefined" \/ ValueAt(d, c[2]).is # "undefined"
      PROVE  {c[1], c[2]} \subseteq DOMAIN d.values /\ d.values[c[1]] = d.values[c[2]]
  <2>1. PICK v : v = b.values[c[1]]
    OBVIOUS
  <2>2. b.values[c[1]] = v /\ b.values[c[2]] = v /\ (v.is = "number" \/ v.is = "undefined")
    BY <1>4, <2>1 DEF MarksRepeat
  <2>3. Shorten(v) = v
    BY <2>2 DEF Shorten
  <2>4. k = "transaction"
    <3>1. Len(c[1]) > 1 /\ c[1][1] = "marks" /\ c[1] \in paths
      BY <1>4, CopiesAre
    <3> QED BY <3>1, MarksOfTransactions
  <2>5. ASSUME NEW q \in {c[1], c[2]}, q \in DOMAIN d.values PROVE d.values[q] = v
    <3>1. q \in Seq(Words) /\ Len(q) = 3
      BY <1>4, CopiesAre, CapturedPaths
    <3>2. Len(Front(q)) = 2
      BY <3>1 DEF Front
    <3>3. ASSUME NEW r \in Range(Model[k]), r.required, \/ q = Append(r.at, r.key)
                                                        \/ Front(q) = r.at
          PROVE  FALSE
      <4>1. PICK m \in Seq(Elsewhere) : m = Model[k]
        BY <2>4, TransactionRules DEF Model
      <4>2. PICK i \in 1..Len(m) : r = m[i]
        BY <4>1 DEF Range
      <4>3. r \in RuleOf(Keywords) /\ Len(r.at) # 2
        BY <3>3, <4>2 DEF Elsewhere
      <4>4. PICK a \in Seq(Keywords) : a = r.at
        BY <4>3 DEF RuleOf
      <4>5. Len(Append(a, r.key)) = Len(a) + 1
        BY <4>3 DEF RuleOf
      <4>6. q # Append(a, r.key)
        <5> SUFFICES ASSUME q = Append(a, r.key) PROVE FALSE
          OBVIOUS
        <5>1. PICK n \in Nat : n = Len(a)
          OBVIOUS
        <5>2. n + 1 = 3
          BY <3>1, <4>5, <5>1
        <5>3. Len(a) = 2
          BY <5>1, <5>2
        <5> QED BY <4>3, <4>4, <5>3
      <4> QED BY <3>2, <3>3, <4>3, <4>4, <4>6
    <3>4. q \notin Named(k, TRUE) /\ q \notin Starred(k, b, TRUE)
      BY <3>3 DEF Named, Starred
    <3>5. d.values[q] # Shorten(Placeholder)
      BY <1>3, <2>5, <3>4 DEF Fits
    <3>6. d.values[q] \in {b.values[q], Shorten(b.values[q])}
      BY <1>3, <2>5, <3>5 DEF Fits
    <3> QED BY <2>2, <2>3, <3>6
  <2>6. v.is = "number"
    <3>1. ASSUME NEW q \in {c[1], c[2]}, ValueAt(d, q).is # "undefined"
          PROVE  v.is # "undefined"
      <4>1. q \in DOMAIN d.values
        BY <3>1 DEF ValueAt, Undefined, Value
      <4> QED BY <2>5, <3>1, <4>1 DEF ValueAt
    <3> QED BY <1>4, <2>2, <3>1
  <2>7. ASSUME NEW q \in {c[1], c[2]} PROVE q \in DOMAIN d.values
    <3>1. q \in DOMAIN b.values /\ ~isEmpty(b.values[q])
      BY <1>1, <1>4, <2>2, <2>6 DEF isEmpty
    <3> QED BY <1>3, <3>1 DEF Fits
  <2> QED BY <2>5, <2>7
<1> QED BY <1>2, <1>4 DEF Alike

(* What is posted of any event can be read back, whatever its values are,   *)
(* several of them odd at once (sendEvents with apiVersion 3).              *)
THEOREM WireReadsBackAnyValues ==
    ASSUME kind \in DOMAIN Captured, NEW paths \in Captured[kind], NEW b \in Captures(paths),
           MarksRepeat(b, paths), data = truncateModel(Model[kind], b)
    PROVE  /\ \A q \in DOMAIN Compressed : \E p \in DOMAIN data.values :
                 V3(p) = q /\ data.values[p] = Compressed[q]
           /\ \A p \in DOMAIN data.values : LeftOut(p) \/ V3(p) \in DOMAIN Compressed
<1>1. DOMAIN data.values \subseteq paths /\ Alike(data, paths)
  BY TruncatedAlike
<1>2. NamesRight(kind, paths) /\ PathsNamed(kind, paths)
  BY CapturedNamed
<1> QED BY <1>1, <1>2, WireIsData, DataIsOnWire

(* What is posted can be read back: of every sort of event, whatever one of *)
(* its values is (compressTransaction, compressError, compressMetadata).    *)
THEOREM WireAlwaysReadsBack == Spec => []WireReadsBack
<1> DEFINE Readable == \E paths \in Captured[kind] :
                          DOMAIN data.values \subseteq paths /\ Alike(data, paths)
           Inv == /\ kind \in DOMAIN Captured
                  /\ stage # "none" => Readable
                  /\ stage = "sent" => wire = Compressed
<1>1. Init => Inv
  BY DEF Init
<1>2. Inv /\ [Next]_vars => Inv'
  <2> SUFFICES ASSUME Inv, [Next]_vars PROVE Inv'
    OBVIOUS
  <2>1. CASE Capture
    <3>1. /\ \E paths \in Captured[kind], isChild \in BOOLEAN :
               \E p \in paths \ Fixed : \E odd \in Odd(p) :
                  captured' = Object(paths, p, odd, isChild)
          /\ data' = truncateModel(Model[kind], captured') /\ kind' = kind /\ stage' # "sent"
      BY <2>1 DEF Capture
    <3>2. PICK paths \in Captured[kind], isChild \in BOOLEAN :
               \E p \in paths \ Fixed : \E odd \in Odd(p) :
                  captured' = Object(paths, p, odd, isChild)
      BY <3>1
    <3>3. PICK p \in paths \ Fixed : \E odd \in Odd(p) :
                  captured' = Object(paths, p, odd, isChild)
      BY <3>2
    <3>4. PICK odd \in Odd(p) : captured' = Object(paths, p, odd, isChild)
      BY <3>3
    <3>5. PICK d : d = data'
      OBVIOUS
    <3>6. DOMAIN d.values \subseteq paths /\ Alike(d, paths)
      <4>1. PICK b \in Captures(paths) : b = captured' /\ MarksRepeat(b, paths)
        BY <3>4, ObjectCaptured, ObjectRepeats
      <4> QED BY <3>1, <3>5, <4>1, TruncatedAlike
    <3>7. Readable'
      BY <3>1, <3>5, <3>6 DEF Alike, ValueAt
    <3> QED BY <3>1, <3>7
  <2>2. CASE Send
    <3>1. kind' = kind /\ data' = data
      BY <2>2 DEF Send
    <3>2. stage # "none" /\ (stage' = "sent" => wire' = Compressed)
      BY <2>2 DEF Send
    <3>3. Readable'
      BY <3>1, <3>2 DEF Alike, ValueAt
    <3>4. Compressed' = Compressed
      BY <3>1 DEF Compressed, Copied, ValueAt
    <3> QED BY <3>1, <3>2, <3>3, <3>4
  <2>3. CASE UNCHANGED vars
    <3>1. UNCHANGED <<kind, stage, data, captured, wire>>
      BY <2>3 DEF vars
    <3>2. Readable' = Readable
      BY <3>1 DEF Alike, ValueAt
    <3>3. Compressed' = Compressed
      BY <3>1 DEF Compressed, Copied, ValueAt
    <3> QED BY <3>1, <3>2, <3>3
  <2> QED BY <2>1, <2>2, <2>3 DEF Next
<1>3. Inv => WireReadsBack
  <2> SUFFICES ASSUME Inv, stage = "sent"
               PROVE  /\ \A q \in DOMAIN wire : \E p \in DOMAIN data.values :
                            V3(p) = q /\ data.values[p] = wire[q]
                      /\ \A p \in DOMAIN data.values : LeftOut(p) \/ V3(p) \in DOMAIN wire
    BY DEF WireReadsBack
  <2>1. PICK paths \in Captured[kind] : DOMAIN data.values \subseteq paths /\ Alike(data, paths)
    OBVIOUS
  <2>2. NamesRight(kind, paths) /\ PathsNamed(kind, paths) /\ wire = Compressed
    BY CapturedNamed
  <2> QED BY <2>1, <2>2, WireIsData, DataIsOnWire
<1> HIDE DEF Inv
<1> QED BY <1>1, <1>2, <1>3, PTL DEF Spec
=============================================================================
