---------------------------- MODULE Layer1Proofs ----------------------------
(***************************************************************************)
(* Facts about the operators of Layer1, for every list of records and every *)
(* cluster: what the helpers of buildCluster return, and what a match needs. *)
(***************************************************************************)
EXTENDS Layer1, FiniteSetTheorems, WellFoundedInduction, TLAPS

\* A non-empty set of naturals has a least element: what the CHOOSEs of
\* FirstKnown and Earliest rely on.
LEMMA LeastNatural ==
    ASSUME NEW S \in SUBSET Nat, S # {}
    PROVE  \E x \in S : \A y \in S : x <= y
<1>1. IsWellFoundedOn(OpToRel(<, Nat), Nat)
  BY NatLessThanWellFounded
<1>2. PICK x \in S : \A y \in S : ~ (<<y, x>> \in OpToRel(<, Nat))
  BY <1>1, WFMin
<1>3. \A y \in S : ~ (y < x)
  BY <1>2 DEF OpToRel
<1>. QED  BY <1>3

\* A non-empty set of naturals below a bound has a greatest element.
LEMMA GreatestBounded ==
    ASSUME NEW H \in Nat, NEW S \in SUBSET (0..H), S # {}
    PROVE  \E x \in S : \A y \in S : y <= x
<1>. DEFINE T == {H - x : x \in S}
<1>1. T \in SUBSET Nat /\ T # {}
  <2>1. \A x \in S : x \in 0..H
    OBVIOUS
  <2>2. \A x \in S : H - x \in Nat
    BY <2>1
  <2>. QED  BY <2>2
<1>2. PICK t \in T : \A u \in T : t <= u
  BY <1>1, LeastNatural
<1>3. PICK x \in S : t = H - x
  BY <1>2
<1>4. \A y \in S : H - x <= H - y
  BY <1>2, <1>3
<1>. QED  BY <1>4

\* Induction, stated of a set: what contains 0 and every successor has all.
LEMMA AllNaturals ==
    ASSUME NEW S, 0 \in S, \A n \in S \cap Nat : n + 1 \in S
    PROVE  \A n \in Nat : n \in S
<1>1. SUFFICES ASSUME Nat \ S # {} PROVE FALSE
  OBVIOUS
<1>2. PICK least \in Nat \ S : \A n \in Nat \ S : least <= n
  BY <1>1, LeastNatural
<1>3. least - 1 \in Nat /\ ~ (least <= least - 1)
  BY <1>2
<1>4. least - 1 \in S
  BY <1>2, <1>3
<1>5. (least - 1) + 1 \in S
  BY <1>3, <1>4
<1>. QED  BY <1>2, <1>5

\* The window is a positive number of whole hours.
LEMMA WindowIsPositive ==
    ASSUME NEW H \in Nat, NEW times \in SUBSET (0..H), times # {}
    PROVE  WindowHours(times) \in Nat \ {0}
<1>1. Latest(times) \in times
  BY GreatestBounded DEF Latest
<1>2. Earliest(times) \in times
  <2>1. times \in SUBSET Nat
    OBVIOUS
  <2>. QED  BY <2>1, LeastNatural DEF Earliest
<1>3. Latest(times) \in Int /\ Earliest(times) \in Int
  <2>1. \A t \in times : t \in 0..H
    OBVIOUS
  <2>2. \A t \in times : t \in Int
    BY <2>1
  <2>. QED  BY <1>1, <1>2, <2>2
<1>. DEFINE hours == (Latest(times) - Earliest(times) + 59) \div 60
<1>4. hours \in Int
  BY <1>3
<1>. HIDE DEF hours
<1>5. (IF hours < 1 THEN 1 ELSE hours) \in Nat \ {0}
  BY <1>4
<1>. QED  BY <1>5 DEF WindowHours, hours

\* It covers the distance of any two dates, and no shorter one does.
LEMMA WindowCovers ==
    ASSUME NEW H \in Nat, NEW times \in SUBSET (0..H), times # {}
    PROVE  /\ \A t, u \in times : t - u <= 60 * WindowHours(times)
           /\ \/ WindowHours(times) = 1
              \/ \E t, u \in times : t - u > 60 * (WindowHours(times) - 1)
<1>. DEFINE last  == Latest(times)
            first == Earliest(times)
            hours == (last - first + 59) \div 60
<1>1. \A t \in times : t \in Int /\ t \in Nat
  <2>1. \A t \in times : t \in 0..H
    OBVIOUS
  <2>. QED  BY <2>1
<1>2. last \in times /\ \A t \in times : t <= last
  BY GreatestBounded DEF Latest
<1>3. first \in times /\ \A t \in times : first <= t
  <2>1. times \in SUBSET Nat
    OBVIOUS
  <2>. QED  BY <2>1, LeastNatural DEF Earliest
<1>4. WindowHours(times) = IF hours < 1 THEN 1 ELSE hours
  BY DEF WindowHours
<1>. HIDE DEF last, first
<1>5. last \in Int /\ first \in Int
  BY <1>1, <1>2, <1>3
<1>6. hours \in Int /\ last - first <= 60 * hours /\ 60 * (hours - 1) < last - first
  BY <1>5
<1>. HIDE DEF hours
<1>7. last - first <= 60 * WindowHours(times)
  BY <1>4, <1>5, <1>6
<1>8. \A t, u \in times : t - u <= last - first
  BY <1>1, <1>2, <1>3
<1>9. WindowHours(times) \in Int
  BY <1>4, <1>6
<1>10. \A t, u \in times : t - u <= 60 * WindowHours(times)
  BY <1>1, <1>5, <1>7, <1>8, <1>9
<1>11. CASE hours < 1
  BY <1>4, <1>10, <1>11
<1>12. CASE ~ (hours < 1)
  BY <1>2, <1>3, <1>4, <1>6, <1>10, <1>12
<1>. QED  BY <1>11, <1>12

\* A burst score is a fraction between 0 and 1, or not known.
LEMMA BurstIsFraction ==
    ASSUME NEW H \in Nat, NEW times \in SUBSET (0..H), NEW count \in Nat
    PROVE  LET b == BurstScore(count, times)
           IN  \/ b = NoValue
               \/ /\ b \in [num : Nat, den : Nat \ {0}]
                  /\ b.num <= b.den
<1>1. CASE times = {}
  BY <1>1 DEF BurstScore
<1>2. CASE times # {}
  <2>1. WindowHours(times) \in Nat \ {0}
    BY <1>2, WindowIsPositive
  <2>. QED  BY <1>2, <2>1 DEF BurstScore
<1>. QED  BY <1>1, <1>2

\* FirstKnown returns the field of one of the group, or nothing.
LEMMA FirstKnownIsSome ==
    ASSUME NEW records, NEW group \in SUBSET Nat, NEW field
    PROVE  \/ FirstKnown(records, group, field) = NoValue
           \/ \E i \in group : FirstKnown(records, group, field) = records[i][field]
<1>. DEFINE S == {i \in group : records[i][field] # NoValue}
<1>1. CASE S = {}
  BY <1>1 DEF FirstKnown
<1>2. CASE S # {}
  <2>1. \E i \in S : \A j \in S : i <= j
    BY <1>2, LeastNatural
  <2>2. (CHOOSE i \in S : \A j \in S : i <= j) \in S
    BY <2>1
  <2>. QED  BY <1>2, <2>2 DEF FirstKnown
<1>. QED  BY <1>1, <1>2

-----------------------------------------------------------------------------
(* Match *)

IsBurst(b) == b = NoValue \/ (b \in [num : Nat, den : Nat \ {0}] /\ b.num <= b.den)

\* The fixed points of a set of fields are a number between 0 and 75.
LEMMA FixedPointsValue ==
    ASSUME NEW fields
    PROVE  FixedPoints(fields) =
             (IF "hosting_ip" \in fields THEN 30 ELSE 0)
               + (IF "nameserver" \in fields THEN 25 ELSE 0)
               + (IF "registrar" \in fields THEN 10 ELSE 0)
               + (IF "tld" \in fields THEN 10 ELSE 0)
BY DEF FixedPoints, Points, Weight

\* A cluster that qualifies has 60 points at least, where the burst gives at
\* most 25 and only if it is cited.
LEMMA QualifiesBound ==
    ASSUME NEW fp, NEW c, IsBurst(c.burst), Qualifies(fp, c)
    PROVE  FixedPoints(MatchedFields(fp, c))
             + (IF Bursting(c) THEN 25 ELSE 0) >= 60
<1>. DEFINE p == FixedPoints(MatchedFields(fp, c))
<1>1. p \in Nat
  BY FixedPointsValue
<1>. HIDE DEF p
<1>2. CASE Bursting(c)
  <2>1. c.burst.num \in Nat /\ c.burst.den \in Nat \ {0} /\ c.burst.num <= c.burst.den
    BY <1>2 DEF IsBurst, Bursting
  <2>. DEFINE n == c.burst.num
              m == c.burst.den
  <2>2. p * m + 25 * n >= 60 * m
    BY <1>2 DEF Qualifies, Reaches, Score, MatchThreshold, Weight, p
  <2>3. n \in Nat /\ m \in Nat /\ m > 0 /\ n <= m
    BY <2>1
  <2>. HIDE DEF n, m
  <2>4. p * m + 25 * m >= 60 * m
    BY <1>1, <2>2, <2>3
  <2>5. p + 25 >= 60
    <3>1. SUFFICES ASSUME p + 25 <= 59 PROVE FALSE
      BY <1>1
    <3>2. (p + 25) * m <= 59 * m
      BY <1>1, <2>3, <3>1
    <3>. QED  BY <1>1, <2>3, <2>4, <3>2
  <2>. QED  BY <1>2, <2>5 DEF p
<1>3. CASE ~ Bursting(c)
  BY <1>1, <1>3 DEF Qualifies, Reaches, Score, MatchThreshold, p
<1>. QED  BY <1>2, <1>3

\* A match shares the host or the nameserver with the cluster.
THEOREM MatchNeedsHostOrName ==
    ASSUME NEW fp, NEW c, IsBurst(c.burst), Qualifies(fp, c)
    PROVE  Same(fp.ip, c.ip) \/ Same(fp.ns, c.ns)
<1>. DEFINE fields == MatchedFields(fp, c)
<1>1. FixedPoints(fields) + (IF Bursting(c) THEN 25 ELSE 0) >= 60
  BY QualifiesBound
<1>2. "hosting_ip" \in fields \/ "nameserver" \in fields
  BY <1>1, FixedPointsValue
<1>. QED  BY <1>2 DEF MatchedFields

\* No two fields cover what a match cites.
THEOREM MatchCitesThree ==
    ASSUME NEW fp, NEW c, IsBurst(c.burst), Qualifies(fp, c),
           NEW f, NEW g
    PROVE  ~ (MatchedFields(fp, c) \subseteq {f, g})
<1>. DEFINE fields == MatchedFields(fp, c)
<1>1. FixedPoints(fields) + (IF Bursting(c) THEN 25 ELSE 0) >= 60
  BY QualifiesBound
<1>2. "registration_burst" \in fields <=> Bursting(c)
  BY DEF MatchedFields, Weight
<1>. HIDE DEF fields
<1>3. SUFFICES ASSUME fields \subseteq {f, g} PROVE FALSE
  BY DEF fields
<1>. QED  BY <1>1, <1>2, <1>3, FixedPointsValue

-----------------------------------------------------------------------------
(* The loop of Match *)

\* What the loop holds after cluster n, given the function of what it held
\* before each.
Keeps(fp, clusters, f, n) ==
    IF n = 0 THEN 0
    ELSE IF /\ Qualifies(fp, clusters[n])
            /\ \/ f[n - 1] = 0
               \/ Exceeds(Score(fp, clusters[n]), Score(fp, clusters[f[n - 1]]))
         THEN n ELSE f[n - 1]

IsLoop(fp, clusters, f, N) == f = [n \in 0..N |-> Keeps(fp, clusters, f, n)]

\* However far it runs, the loop is a function.
LEMMA LoopExists ==
    ASSUME NEW fp, NEW clusters
    PROVE  \A N \in Nat : \E f : IsLoop(fp, clusters, f, N)
<1>. DEFINE S == {N \in Nat : \E f : IsLoop(fp, clusters, f, N)}
<1>1. 0 \in S
  <2>. DEFINE f == [n \in 0..0 |-> 0]
  <2>1. f = [n \in 0..0 |-> Keeps(fp, clusters, f, n)]
    BY DEF Keeps
  <2>. HIDE DEF f
  <2>2. IsLoop(fp, clusters, f, 0)
    BY <2>1 DEF IsLoop
  <2>. QED  BY <2>2
<1>2. ASSUME NEW N \in Nat, NEW f, IsLoop(fp, clusters, f, N)
      PROVE  \E g : IsLoop(fp, clusters, g, N + 1)
  <2>. DEFINE g == [n \in 0..N + 1 |->
                      IF n = N + 1 THEN Keeps(fp, clusters, f, n) ELSE f[n]]
  <2>1. \A n \in 0..N : f[n] = Keeps(fp, clusters, f, n)
    BY <1>2 DEF IsLoop
  <2>2. \A n \in 0..N : g[n] = f[n]
    BY <1>2
  <2>3. \A n \in 0..N + 1 : n = 0 \/ n - 1 \in 0..N
    BY <1>2
  <2>4. \A n \in 0..N + 1 : n = N + 1 \/ n \in 0..N
    BY <1>2
  <2>5. \A n \in 0..N + 1 :
           g[n] = IF n = N + 1 THEN Keeps(fp, clusters, f, n) ELSE f[n]
    OBVIOUS
  <2>6. g = [n \in 0..N + 1 |-> g[n]]
    OBVIOUS
  <2>. HIDE DEF g
  <2>7. \A n \in 0..N + 1 : Keeps(fp, clusters, g, n) = Keeps(fp, clusters, f, n)
    BY <2>2, <2>3 DEF Keeps
  <2>8. \A n \in 0..N + 1 : g[n] = Keeps(fp, clusters, g, n)
    BY <2>1, <2>4, <2>5, <2>7
  <2>9. g = [n \in 0..N + 1 |-> Keeps(fp, clusters, g, n)]
    BY <2>6, <2>8
  <2>. QED  BY <2>9 DEF IsLoop
<1>3. \A N \in S \cap Nat : N + 1 \in S
  BY <1>2
<1>. HIDE DEF S
<1>4. \A N \in Nat : N \in S
  BY <1>1, <1>3, AllNaturals
<1>. QED  BY <1>4 DEF S

\* Match ends with what its loop holds after the last cluster.
LEMMA MatchIsLoop ==
    ASSUME NEW fp, NEW clusters, Len(clusters) \in Nat
    PROVE  \E f : /\ IsLoop(fp, clusters, f, Len(clusters))
                  /\ Match(fp, clusters) = f[Len(clusters)]
<1>. DEFINE f == CHOOSE f : IsLoop(fp, clusters, f, Len(clusters))
<1>1. IsLoop(fp, clusters, f, Len(clusters))
  BY LoopExists
<1>2. Match(fp, clusters) = f[Len(clusters)]
  BY Zenon DEF Match, IsLoop, Keeps
<1>. QED  BY <1>1, <1>2

\* A fraction of hundredths, as Score returns it.
Fraction == [num : Nat, den : Nat \ {0}]

LEMMA ScoreIsFraction ==
    ASSUME NEW fp, NEW c, IsBurst(c.burst)
    PROVE  Score(fp, c) \in Fraction
<1>. DEFINE p == FixedPoints(MatchedFields(fp, c))
<1>1. p \in Nat
  BY FixedPointsValue
<1>. HIDE DEF p
<1>2. CASE Bursting(c)
  <2>1. c.burst.num \in Nat /\ c.burst.den \in Nat \ {0}
    BY <1>2 DEF IsBurst, Bursting
  <2>2. p * c.burst.den + 25 * c.burst.num \in Nat
    BY <1>1, <2>1
  <2>. QED  BY <1>2, <2>1, <2>2 DEF Score, Weight, Fraction, p
<1>3. CASE ~ Bursting(c)
  BY <1>1, <1>3 DEF Score, Fraction, p
<1>. QED  BY <1>2, <1>3

LEMMA TimesMonotonic ==
    \A x, y, z \in Nat : x <= y => x * z <= y * z
OBVIOUS

\* Not to be exceeded is transitive over a strictly better score.
LEMMA ExceedsTransitive ==
    ASSUME NEW s \in Fraction, NEW t \in Fraction, NEW u \in Fraction,
           ~ Exceeds(s, t), Exceeds(u, t)
    PROVE  ~ Exceeds(s, u)
<1>. DEFINE a == s.num
            A == s.den
            b == t.num
            B == t.den
            c == u.num
            C == u.den
<1>1. /\ a \in Nat /\ b \in Nat /\ c \in Nat
      /\ A \in Nat /\ B \in Nat /\ C \in Nat /\ B > 0
      /\ a * B <= b * A /\ b * C <= c * B
  BY DEF Fraction, Exceeds
<1>2. SUFFICES a * C <= c * A
  BY <1>1 DEF Exceeds
<1>. HIDE DEF a, A, b, B, c, C
<1>3. (a * B) * C <= (b * A) * C
  BY <1>1, TimesMonotonic
<1>4. (b * C) * A <= (c * B) * A
  BY <1>1, TimesMonotonic
<1>5. /\ (a * B) * C = (a * C) * B
      /\ (b * A) * C = (b * C) * A
      /\ (c * B) * A = (c * A) * B
  BY <1>1
<1>6. (a * C) * B <= (c * A) * B
  BY <1>1, <1>3, <1>4, <1>5
<1>. DEFINE x == a * C
            y == c * A
<1>7. x \in Nat /\ y \in Nat
  BY <1>1
<1>8. x * B <= y * B
  BY <1>6
<1>. HIDE DEF x, y
<1>9. x <= y
  <2>1. SUFFICES ASSUME y + 1 <= x PROVE FALSE
    BY <1>7
  <2>2. (y + 1) * B <= x * B
    BY <1>1, <1>7, <2>1, TimesMonotonic
  <2>3. (y + 1) * B = y * B + B
    BY <1>1, <1>7
  <2>. QED  BY <1>1, <1>7, <1>8, <2>2, <2>3
<1>. QED  BY <1>9 DEF x, y

\* A score below the threshold exceeds none that reaches it.
LEMMA BelowExceedsNone ==
    ASSUME NEW s \in Fraction, NEW t \in Fraction, NEW k \in Nat,
           ~ Reaches(s, k), Reaches(t, k)
    PROVE  ~ Exceeds(s, t)
<1>. DEFINE a == s.num
            A == s.den
            b == t.num
            B == t.den
<1>1. /\ a \in Nat /\ b \in Nat /\ A \in Nat /\ B \in Nat
      /\ a <= k * A /\ k * B <= b
  BY DEF Fraction, Reaches
<1>2. SUFFICES a * B <= b * A
  BY <1>1 DEF Exceeds
<1>. HIDE DEF a, A, b, B
<1>3. a * B <= (k * A) * B /\ (k * B) * A <= b * A
  BY <1>1, TimesMonotonic
<1>4. (k * A) * B = (k * B) * A
  BY <1>1
<1>. QED  BY <1>1, <1>3, <1>4

\* What the loop holds after n clusters is the best of them.
BestOf(fp, clusters, m, n) ==
    IF m = 0 THEN \A i \in 1..n : ~ Qualifies(fp, clusters[i])
    ELSE /\ m \in 1..n
         /\ Qualifies(fp, clusters[m])
         /\ \A i \in 1..n : ~ Exceeds(Score(fp, clusters[i]), Score(fp, clusters[m]))

\* Match ends with one of the clusters with the highest score over the
\* threshold, in whatever order they come, and with nil only if none is over it.
THEOREM MatchIsBest ==
    ASSUME NEW fp, NEW clusters, Len(clusters) \in Nat,
           DOMAIN clusters = 1..Len(clusters),
           \A i \in DOMAIN clusters : IsBurst(clusters[i].burst)
    PROVE  BestOf(fp, clusters, Match(fp, clusters), Len(clusters))
<1>. DEFINE N == Len(clusters)
            score(i) == Score(fp, clusters[i])
<1>1. PICK f : IsLoop(fp, clusters, f, N) /\ Match(fp, clusters) = f[N]
  BY MatchIsLoop
<1>2. \A n \in 0..N : f[n] = Keeps(fp, clusters, f, n)
  BY <1>1 DEF IsLoop
<1>3. \A i \in 1..N : score(i) \in Fraction
  BY ScoreIsFraction
<1>. DEFINE S == {n \in Nat : n <= N => BestOf(fp, clusters, f[n], n)}
<1>4. 0 \in S
  <2>1. f[0] = 0
    BY <1>2 DEF Keeps
  <2>. QED  BY <2>1 DEF BestOf
<1>5. ASSUME NEW n \in Nat, n + 1 <= N, BestOf(fp, clusters, f[n], n)
      PROVE  BestOf(fp, clusters, f[n + 1], n + 1)
  <2>. DEFINE k == n + 1
              m == f[n]
  <2>1. /\ k \in 1..N /\ k # 0 /\ k - 1 = n
        /\ \A i \in 1..k : i = k \/ i \in 1..n
        /\ \A i \in 1..n : i \in 1..N /\ i \in 1..k /\ i # 0
        /\ k \in 1..k
    BY <1>5
  <2>2. f[k] = IF /\ Qualifies(fp, clusters[k])
                  /\ m = 0 \/ Exceeds(score(k), score(m))
               THEN k ELSE m
    BY <1>2, <2>1 DEF Keeps
  <2>. HIDE DEF k, m, score, N
  <2>3. CASE Qualifies(fp, clusters[k]) /\ m = 0
    <3>1. f[k] = k
      BY <2>2, <2>3
    <3>2. \A i \in 1..n : ~ Qualifies(fp, clusters[i])
      BY <1>5, <2>3 DEF BestOf, m
    <3>3. \A i \in 1..n : ~ Exceeds(score(i), score(k))
      BY <1>3, <2>1, <2>3, <3>2, BelowExceedsNone DEF Qualifies, score, MatchThreshold
    <3>4. ~ Exceeds(score(k), score(k))
      BY <1>3, <2>1 DEF Exceeds, Fraction
    <3>. QED  BY <2>1, <2>3, <3>1, <3>3, <3>4 DEF BestOf, k, score
  <2>4. CASE Qualifies(fp, clusters[k]) /\ m # 0 /\ Exceeds(score(k), score(m))
    <3>1. f[k] = k
      BY <2>2, <2>4
    <3>2. m \in 1..n /\ \A i \in 1..n : ~ Exceeds(score(i), score(m))
      BY <1>5, <2>4 DEF BestOf, m, score
    <3>3. \A i \in 1..n : ~ Exceeds(score(i), score(k))
      BY <1>3, <2>1, <2>4, <3>2, ExceedsTransitive
    <3>4. ~ Exceeds(score(k), score(k))
      BY <1>3, <2>1 DEF Exceeds, Fraction
    <3>. QED  BY <2>1, <2>4, <3>1, <3>3, <3>4 DEF BestOf, k, score
  <2>5. CASE ~ Qualifies(fp, clusters[k]) /\ m = 0
    <3>1. f[k] = 0
      BY <2>2, <2>5
    <3>2. \A i \in 1..n : ~ Qualifies(fp, clusters[i])
      BY <1>5, <2>5 DEF BestOf, m
    <3>. QED  BY <2>1, <2>5, <3>1, <3>2 DEF BestOf, k
  <2>6. CASE m # 0 /\ ~ (Qualifies(fp, clusters[k]) /\ Exceeds(score(k), score(m)))
    <3>1. f[k] = m
      BY <2>2, <2>6
    <3>2. /\ m \in 1..n /\ Qualifies(fp, clusters[m])
          /\ \A i \in 1..n : ~ Exceeds(score(i), score(m))
      BY <1>5, <2>6 DEF BestOf, m, score
    <3>3. ~ Exceeds(score(k), score(m))
      <4>1. CASE Qualifies(fp, clusters[k])
        BY <2>6, <4>1
      <4>2. CASE ~ Qualifies(fp, clusters[k])
        BY <1>3, <2>1, <3>2, <4>2, BelowExceedsNone
           DEF Qualifies, score, MatchThreshold
      <4>. QED  BY <4>1, <4>2
    <3>. QED  BY <2>1, <2>6, <3>1, <3>2, <3>3 DEF BestOf, k, score
  <2>. QED  BY <2>3, <2>4, <2>5, <2>6
<1>6. \A n \in S \cap Nat : n + 1 \in S
  BY <1>5
<1>. HIDE DEF S
<1>7. \A n \in Nat : n \in S
  BY <1>4, <1>6, AllNaturals
<1>8. N \in S
  BY <1>7
<1>. QED  BY <1>1, <1>8 DEF S
=============================================================================
