---------------------------- MODULE PartsProofs -----------------------------
(***************************************************************************)
(* Theorems about the four parts that MCParts checks: the start-up files,  *)
(* the router, the suggestion for an unknown command, the echo connection. *)
(***************************************************************************)
EXTENDS ConfigFiles, Router, AutoCorrect, EchoConnection,
        FiniteSetTheorems, WellFoundedInduction, TLAPS

-----------------------------------------------------------------------------
(* Induction over the naturals, from the well-foundedness of <, and what   *)
(* it says of a function that is defined by a first value and a step.      *)

LEMMA Least == ASSUME NEW T, T \subseteq Nat, T # {} PROVE \E x \in T : \A y \in T : x <= y
<1> DEFINE R == {p \in Nat \X Nat : p[1] < p[2]}
<1>1. IsWellFoundedOn(R, Nat)
  <2> SUFFICES ASSUME NEW f \in [Nat -> Nat], \A n \in Nat : <<f[n+1], f[n]>> \in R PROVE FALSE
    BY DEF IsWellFoundedOn
  <2> QED
    BY NatLessThanWellFounded DEF IsWellFoundedOn, OpToRel
<1> HIDE DEF R
<1>2. PICK x \in T : \A y \in T : ~(<<y, x>> \in R)
  BY <1>1, WFMin
<1>3. \A y \in T : x <= y
  <2> SUFFICES ASSUME NEW y \in T, y < x PROVE FALSE
    OBVIOUS
  <2>1. <<y, x>> \in R
    BY DEF R
  <2> QED
    BY <1>2, <2>1
<1>4. QED
  BY <1>3

LEMMA Induct ==
  ASSUME NEW S, 0 \in S, \A n \in Nat : n \in S => n + 1 \in S PROVE \A n \in Nat : n \in S
<1> DEFINE T == Nat \ S
<1> SUFFICES ASSUME T # {} PROVE FALSE
  OBVIOUS
<1>1. PICK x \in T : \A y \in T : x <= y
  BY Least
<1>2. x # 0 /\ x - 1 \in Nat /\ x - 1 \notin T
  BY <1>1
<1>3. QED
  BY <1>2

(* g has on 0 .. n the first value v0 and the step F. *)
Recurs(V, v0, F, n, g) ==
  /\ g \in [0 .. n -> V]
  /\ g[0] = v0 /\ \A k \in 1 .. n : g[k] = F[<<k, g[k - 1]>>]

LEMMA RecursionExists ==
  ASSUME NEW V, NEW v0 \in V, NEW F \in [Nat \X V -> V], NEW m \in Nat
  PROVE  \E g : Recurs(V, v0, F, m, g)
<1> DEFINE Goes(g, n) == g[0] = v0 /\ \A k \in 1 .. n : g[k] = F[<<k, g[k - 1]>>]
           S == {n \in Nat : \E g \in [0 .. n -> V] : Goes(g, n)}
<1>1. 0 \in S
  <2> DEFINE g == [i \in 0 .. 0 |-> v0]
  <2>1. g \in [0 .. 0 -> V] /\ Goes(g, 0)
    OBVIOUS
  <2> QED
    BY <2>1
<1>2. ASSUME NEW n \in Nat, n \in S PROVE n + 1 \in S
  <2>1. PICK h \in [0 .. n -> V] : Goes(h, n)
    BY <1>2
  <2> DEFINE v == F[<<n + 1, h[n]>>]
             g == [i \in 0 .. n + 1 |-> IF i = n + 1 THEN v ELSE h[i]]
  <2>2. v \in V
    OBVIOUS
  <2> HIDE DEF v
  <2>3. g \in [0 .. n + 1 -> V]
    BY <2>2
  <2>4. g[0] = v0 /\ \A i \in 0 .. n : g[i] = h[i]
    BY <2>1
  <2>5. ASSUME NEW k \in 1 .. n + 1 PROVE g[k] = F[<<k, g[k - 1]>>]
    <3>1. CASE k = n + 1
      <4>1. g[k] = v /\ g[k - 1] = h[n]
        BY <3>1
      <4> QED
        BY <3>1, <4>1 DEF v
    <3>2. CASE k # n + 1
      <4>1. k \in 1 .. n /\ g[k] = h[k] /\ g[k - 1] = h[k - 1]
        BY <3>2, <2>4
      <4> QED
        BY <2>1, <4>1
    <3> QED
      BY <3>1, <3>2
  <2> HIDE DEF g
  <2>6. Goes(g, n + 1)
    BY <2>4, <2>5
  <2> QED
    BY <2>3, <2>6
<1> HIDE DEF S
<1>3. \A n \in Nat : n \in S
  BY <1>1, <1>2, Induct
<1>4. PICK g \in [0 .. m -> V] : Goes(g, m)
  BY <1>3 DEF S
<1>5. QED
  BY <1>4 DEF Recurs

LEMMA Agree ==
  ASSUME NEW n \in Nat, NEW f, NEW g, f[0] = g[0],
         \A k \in 1 .. n : f[k - 1] = g[k - 1] => f[k] = g[k]
  PROVE  \A k \in 0 .. n : f[k] = g[k]
<1> DEFINE S == {k \in Nat : k <= n => f[k] = g[k]}
<1>1. 0 \in S
  OBVIOUS
<1>2. ASSUME NEW k \in Nat, k \in S PROVE k + 1 \in S
  BY <1>2
<1> HIDE DEF S
<1>3. \A k \in Nat : k \in S
  BY <1>1, <1>2, Induct
<1> QED
  BY <1>3 DEF S

LEMMA CountNext ==
  ASSUME NEW S, \A j \in S : j \in Nat, NEW i \in Nat
  PROVE  /\ CountTo(S, i) \in Nat
         /\ CountTo(S, i + 1) = CountTo(S, i) + IF i + 1 \in S THEN 1 ELSE 0
<1> DEFINE A == {j \in S : j <= i}
           B == {j \in S : j <= i + 1}
<1>1. IsFiniteSet(A)
  <2>1. A \subseteq 0 .. i
    OBVIOUS
  <2>2. IsFiniteSet(0 .. i)
    BY FS_Interval
  <2> QED
    BY <2>1, <2>2, FS_Subset
<1>2. Cardinality(A) \in Nat
  BY <1>1, FS_CardinalityType
<1>3. CASE i + 1 \in S
  <2>1. B = A \cup {i + 1} /\ i + 1 \notin A
    BY <1>3
  <2> QED
    BY <1>1, <1>2, <1>3, <2>1, FS_AddElement DEF CountTo
<1>4. CASE i + 1 \notin S
  <2>1. B = A
    BY <1>4
  <2>2. CountTo(S, i + 1) = CountTo(S, i)
    BY <2>1 DEF CountTo
  <2> QED
    BY <1>2, <1>4, <2>2 DEF CountTo
<1> QED
  BY <1>3, <1>4
LEMMA CountNone ==
  ASSUME NEW S, \A j \in S : j \in Nat /\ j > 0 PROVE CountTo(S, 0) = 0
<1>1. {j \in S : j <= 0} = {}
  OBVIOUS
<1>2. QED
  BY <1>1, FS_EmptySet DEF CountTo

LEMMA CountZero ==
  ASSUME NEW S, \A j \in S : j \in Nat, NEW i \in Nat, CountTo(S, i) = 0
  PROVE  \A j \in S : ~(j <= i)
<1> DEFINE A == {j \in S : j <= i}
<1>1. A \subseteq 0 .. i /\ IsFiniteSet(0 .. i)
  BY FS_Interval
<1>2. IsFiniteSet(A)
  BY <1>1, FS_Subset
<1>3. A = {}
  BY <1>2, FS_EmptySet DEF CountTo
<1>4. QED
  BY <1>3

LEMMA CountMono ==
  ASSUME NEW S, \A j \in S : j \in Nat, NEW i \in Nat, NEW k \in Nat, i <= k
  PROVE  CountTo(S, i) <= CountTo(S, k)
<1> DEFINE A == {j \in S : j <= i}
           B == {j \in S : j <= k}
<1>1. A \subseteq B /\ B \subseteq 0 .. k /\ IsFiniteSet(0 .. k)
  BY FS_Interval
<1>2. IsFiniteSet(B)
  BY <1>1, FS_Subset
<1>3. Cardinality(A) <= Cardinality(B)
  BY <1>1, <1>2, FS_Subset
<1>4. QED
  BY <1>3 DEF CountTo

-----------------------------------------------------------------------------
(* AutoCorrect. *)

LEMMA LetterDistanceType == \A x, y : findLetterDistance(x, y) \in Nat
<1>1. \A x \in Letters : Place[x] \in 1 .. 26
  BY DEF Place, Letters
<1>2. \A x \in Letters : lookupGrid[x] \in [1 .. 26 -> Nat]
  <2>1. Letters = {"a", "b", "c", "d", "e", "f", "g", "h", "i", "j", "k", "l", "m",
                   "n", "o", "p", "q", "r", "s", "t", "u", "v", "w", "x", "y", "z"}
    BY DEF Letters, Alphabet
  <2>2. QED
    BY <2>1 DEF lookupGrid
<1>3. QED
  BY <1>1, <1>2 DEF findLetterDistance, kMaxDistance

(* The loop of fixHelper, round by round. *)
RoundState == [i : Nat, j : Nat, total : Nat]
FirstRound == [i |-> 1, j |-> 1, total |-> 0]

LEMMA CompareForms ==
  ASSUME NEW input, NEW word, NEW s, ~(s.i > Len(input) \/ s.j > Len(word))
  PROVE  LET t == CompareLetters(input, word, s)
             d == findLetterDistance(input[s.i], word[s.j])
         IN  \/ t = [i |-> s.i + 1, j |-> s.j + 1, total |-> s.total + 0]
             \/ /\ t = [i |-> s.i + 2, j |-> s.j + 2, total |-> s.total + 1]
                /\ s.i < Len(input) /\ s.j < Len(word)
             \/ t = [i |-> s.i + 0, j |-> s.j + 1, total |-> s.total + 2]
             \/ t = [i |-> s.i + 1, j |-> s.j + 0, total |-> s.total + 2]
             \/ t = [i |-> s.i + 1, j |-> s.j + 1, total |-> s.total + d]
  BY DEF CompareLetters, Swapped, kSwapCost, kGapCost

LEMMA CompareType ==
  ASSUME NEW input, NEW word, NEW s \in RoundState
  PROVE  CompareLetters(input, word, s) \in RoundState
<1> DEFINE t == CompareLetters(input, word, s)
           d == findLetterDistance(input[s.i], word[s.j])
<1>1. d \in Nat
  BY LetterDistanceType
<1>2. CASE s.i > Len(input) \/ s.j > Len(word)
  BY <1>2 DEF CompareLetters
<1>3. CASE ~(s.i > Len(input) \/ s.j > Len(word))
  <2>1. \E di, dj, x \in Nat : t = [i |-> s.i + di, j |-> s.j + dj, total |-> s.total + x]
    <3>1. 0 \in Nat /\ 1 \in Nat /\ 2 \in Nat
      OBVIOUS
    <3> HIDE DEF t, d
    <3>2. QED
      BY <1>1, <1>3, <3>1, CompareForms, Zenon DEF t, d
  <2>2. QED
    BY <2>1 DEF RoundState
<1>4. QED
  BY <1>2, <1>3

LEMMA RoundsDef ==
  ASSUME NEW input \in Word, NEW word \in Word
  PROVE  LET N == Len(input) + Len(word)
             r == Rounds(input, word)
         IN  /\ N \in Nat /\ r[0] = FirstRound
             /\ \A k \in 0 .. N : r[k] \in RoundState
             /\ \A k \in 1 .. N : r[k] = CompareLetters(input, word, r[k - 1])
<1> DEFINE N == Len(input) + Len(word)
           F == [p \in Nat \X RoundState |-> CompareLetters(input, word, p[2])]
           Body(s) == [k \in 0 .. N |-> IF k = 0 THEN FirstRound ELSE CompareLetters(input, word, s[k - 1])]
           r == Rounds(input, word)
<1>1. N \in Nat
  BY DEF Word
<1>2. F \in [Nat \X RoundState -> RoundState]
  BY CompareType
<1>3. FirstRound \in RoundState
  BY DEF FirstRound, RoundState
<1>4. r = CHOOSE s : s = Body(s)
  BY DEF Rounds, FirstRound
<1> HIDE DEF F, N, r
<1>5. PICK g : Recurs(RoundState, FirstRound, F, N, g)
  BY <1>1, <1>2, <1>3, RecursionExists
<1>6. /\ g \in [0 .. N -> RoundState] /\ g[0] = FirstRound
      /\ \A k \in 1 .. N : g[k] = F[<<k, g[k - 1]>>]
  BY <1>5 DEF Recurs
<1>7. ASSUME NEW k \in 1 .. N PROVE g[k] = CompareLetters(input, word, g[k - 1])
  <2>1. k \in Nat /\ g[k - 1] \in RoundState
    BY <1>1, <1>6
  <2>2. QED
    BY <1>6, <2>1 DEF F
<1>8. g = Body(g)
  BY <1>6, <1>7
<1>9. r = Body(r)
  BY <1>4, <1>8, Zenon
<1>10. r[0] = FirstRound /\ \A k \in 1 .. N : r[k] = CompareLetters(input, word, r[k - 1])
  BY <1>1, <1>9
<1>11. r[0] = g[0] /\ \A k \in 1 .. N : r[k - 1] = g[k - 1] => r[k] = g[k]
  BY <1>6, <1>7, <1>10
<1>12. \A k \in 0 .. N : r[k] = g[k]
  BY <1>1, <1>11, Agree, Zenon
<1>13. QED
  BY <1>1, <1>6, <1>10, <1>12 DEF N, r

(* A round stays within the words, moves on, and pays for every gap. *)
Within(input, word, s) ==
  /\ s \in RoundState
  /\ s.i \in 1 .. Len(input) + 1 /\ s.j \in 1 .. Len(word) + 1
  /\ s.total >= 2 * (s.i - s.j) /\ s.total >= 2 * (s.j - s.i)

LEMMA CompareWithin ==
  ASSUME NEW input \in Word, NEW word \in Word, NEW s, Within(input, word, s)
  PROVE  LET t == CompareLetters(input, word, s)
         IN  /\ Within(input, word, t)
             /\ \/ t = s /\ (s.i > Len(input) \/ s.j > Len(word))
                \/ t.i + t.j > s.i + s.j
<1> DEFINE n == Len(input)
           m == Len(word)
           t == CompareLetters(input, word, s)
           d == findLetterDistance(input[s.i], word[s.j])
<1>1. /\ n \in Nat /\ m \in Nat /\ d \in Nat
      /\ s.i \in 1 .. n + 1 /\ s.j \in 1 .. m + 1 /\ s.total \in Nat
      /\ s.total >= 2 * (s.i - s.j) /\ s.total >= 2 * (s.j - s.i)
  BY LetterDistanceType DEF Word, Within, RoundState
<1>2. t \in RoundState
  BY CompareType DEF Within
<1>3. CASE s.i > n \/ s.j > m
  <2>1. t = s
    BY <1>3 DEF CompareLetters
  <2>2. QED
    BY <1>3, <2>1
<1>4. CASE ~(s.i > n \/ s.j > m)
  <2>1. \/ t = [i |-> s.i + 1, j |-> s.j + 1, total |-> s.total + 0]
        \/ t = [i |-> s.i + 2, j |-> s.j + 2, total |-> s.total + 1] /\ s.i < n /\ s.j < m
        \/ t = [i |-> s.i + 0, j |-> s.j + 1, total |-> s.total + 2]
        \/ t = [i |-> s.i + 1, j |-> s.j + 0, total |-> s.total + 2]
        \/ t = [i |-> s.i + 1, j |-> s.j + 1, total |-> s.total + d]
    BY <1>4, CompareForms
  <2> HIDE DEF t, n, m, d
  <2>2. /\ t.i \in 1 .. n + 1 /\ t.j \in 1 .. m + 1
        /\ t.total >= 2 * (t.i - t.j) /\ t.total >= 2 * (t.j - t.i)
        /\ t.i + t.j > s.i + s.j
    BY <1>1, <1>4, <2>1
  <2>3. QED
    BY <1>2, <2>2 DEF t, n, m, Within
<1>5. QED
  BY <1>3, <1>4

(* The loop of fixHelper ends within as many rounds as there are letters,    *)
(* and the distance of two words is at least twice that of their lengths.    *)
LEMMA DistanceBound ==
  ASSUME NEW input \in Word, NEW word \in Word
  PROVE  /\ LET s == Rounds(input, word)[Len(input) + Len(word)]
            IN  s.i > Len(input) \/ s.j > Len(word)
         /\ Distance(input, word) \in Nat
         /\ Distance(input, word) >= 2 * (Len(input) - Len(word))
         /\ Distance(input, word) >= 2 * (Len(word) - Len(input))
<1> DEFINE n == Len(input)
           m == Len(word)
           N == n + m
           r == Rounds(input, word)
           Ended(s) == s.i > n \/ s.j > m
           S == {k \in Nat : k <= N => /\ Within(input, word, r[k])
                                       /\ Ended(r[k]) \/ r[k].i + r[k].j >= k + 2}
<1>1. /\ n \in Nat /\ m \in Nat /\ N \in Nat /\ r[0] = FirstRound
      /\ \A k \in 1 .. N : r[k] = CompareLetters(input, word, r[k - 1])
  BY RoundsDef DEF Word
<1>2. 0 \in S
  BY <1>1 DEF Within, FirstRound, RoundState
<1>3. ASSUME NEW k \in Nat, k \in S PROVE k + 1 \in S
  <2> SUFFICES ASSUME k + 1 <= N
               PROVE  /\ Within(input, word, r[k + 1])
                      /\ Ended(r[k + 1]) \/ r[k + 1].i + r[k + 1].j >= (k + 1) + 2
    OBVIOUS
  <2>1. /\ k + 1 \in 1 .. N /\ k <= N /\ (k + 1) - 1 = k
    BY <1>1
  <2>2. Within(input, word, r[k]) /\ (Ended(r[k]) \/ r[k].i + r[k].j >= k + 2)
    BY <1>3, <2>1
  <2>3. r[k + 1] = CompareLetters(input, word, r[k])
    BY <1>1, <2>1
  <2>4. /\ Within(input, word, r[k + 1])
        /\ (r[k + 1] = r[k] /\ Ended(r[k])) \/ r[k + 1].i + r[k + 1].j > r[k].i + r[k].j
    BY <2>2, <2>3, CompareWithin
  <2>5. /\ r[k].i \in Nat /\ r[k].j \in Nat /\ r[k + 1].i \in Nat /\ r[k + 1].j \in Nat
        /\ r[k + 1].i \in 1 .. n + 1 /\ r[k + 1].j \in 1 .. m + 1
    BY <2>2, <2>4 DEF Within, RoundState
  <2> HIDE DEF r, n, m
  <2>6. CASE r[k + 1] = r[k] /\ Ended(r[k])
    BY <2>4, <2>6
  <2>7. CASE r[k + 1].i + r[k + 1].j > r[k].i + r[k].j /\ ~Ended(r[k])
    BY <2>2, <2>4, <2>5, <2>7
  <2>8. CASE r[k + 1].i + r[k + 1].j > r[k].i + r[k].j /\ Ended(r[k])
    BY <2>2, <2>3, <2>4, <2>8 DEF CompareLetters, n, m
  <2>9. QED
    BY <2>4, <2>6, <2>7, <2>8
<1> HIDE DEF S
<1>4. \A k \in Nat : k \in S
  BY <1>2, <1>3, Induct
<1>5. /\ Within(input, word, r[N])
      /\ Ended(r[N]) \/ r[N].i + r[N].j >= N + 2
  BY <1>1, <1>4 DEF S
<1>6. /\ r[N].i \in 1 .. n + 1 /\ r[N].j \in 1 .. m + 1 /\ r[N].total \in Nat
      /\ r[N].total >= 2 * (r[N].i - r[N].j) /\ r[N].total >= 2 * (r[N].j - r[N].i)
  BY <1>5 DEF Within, RoundState
<1>7. Distance(input, word) = r[N].total + 2 * ((n + 1 - r[N].i) + (m + 1 - r[N].j))
  BY DEF Distance, kGapCost
<1> DEFINE D == Distance(input, word)
<1> HIDE DEF n, m, r, D
<1>8. /\ Ended(r[N])
      /\ D \in Nat /\ D >= 2 * (n - m) /\ D >= 2 * (m - n)
  BY <1>1, <1>5, <1>6, <1>7 DEF D
<1>9. QED
  BY <1>8 DEF n, m, r, D

(* What holds after each round of the loop in fix: the best of the words it  *)
(* has come to.                                                              *)
D(k) == Distance(typed, dictionary[k])

AsNear(b, k) == D(b) < D(k) \/ (D(b) = D(k) /\ Len(dictionary[b]) >= Len(dictionary[k]))

Nearest(seen) ==
  \/ (\A k \in seen : D(k) > sensitivity) /\ bestMatch = [word |-> typed, dist |-> SizeMax]
  \/ \E b \in seen :
       /\ D(b) <= sensitivity /\ bestMatch = [word |-> dictionary[b], dist |-> D(b)]
       /\ \A k \in seen : AsNear(b, k)

ACInv == typed \in Word /\ left \subseteq Pool(typed) /\ Nearest(Pool(typed) \ left)

LEMMA WordFacts ==
  ASSUME typed \in Word, NEW k \in DOMAIN dictionary
  PROVE  /\ dictionary[k] \in Word /\ Len(dictionary[k]) \in Nat /\ Len(typed) \in Nat
         /\ D(k) \in Nat
         /\ D(k) <= sensitivity => k \in Pool(typed)
<1>1. dictionary[k] \in Word
  BY AutoCorrectAssumption
<1>2. Len(dictionary[k]) \in Nat /\ Len(typed) \in Nat
  BY <1>1 DEF Word
<1>3. /\ D(k) \in Nat /\ D(k) >= 2 * (Len(typed) - Len(dictionary[k]))
      /\ D(k) >= 2 * (Len(dictionary[k]) - Len(typed))
  BY <1>1, DistanceBound DEF D
<1>4. ASSUME D(k) <= sensitivity PROVE k \in Pool(typed)
  <2> DEFINE n == Len(typed)
             m == Len(dictionary[k])
             d == D(k)
  <2>1. n \in Nat /\ m \in Nat /\ d \in Nat /\ d >= 2 * (n - m) /\ d >= 2 * (m - n)
    BY <1>2, <1>3
  <2>2. d <= sensitivity /\ sensitivity \in Nat
    BY <1>4, AutoCorrectAssumption
  <2> HIDE DEF n, m, d
  <2>3. m <= n + sensitivity /\ (n > sensitivity => m >= n - sensitivity) /\ m >= 0
    BY <2>1, <2>2
  <2>4. m \in (IF n > sensitivity THEN n - sensitivity ELSE 0) .. n + sensitivity
    BY <2>1, <2>2, <2>3
  <2>5. QED
    BY <2>4 DEF Pool, n, m
<1>5. QED
  BY <1>1, <1>2, <1>3, <1>4

LEMMA ACNextInv ==
  ASSUME ACInv, NEW k \in left, LookAtWord(k) PROVE ACInv'
<1> DEFINE P == Pool(typed)
           seen == P \ left
           nearer == /\ D(k) <= sensitivity
                     /\ \/ D(k) < bestMatch.dist
                        \/ D(k) = bestMatch.dist /\ Len(dictionary[k]) > Len(bestMatch.word)
<1>1. /\ typed' = typed /\ left' = left \ {k}
      /\ bestMatch' = IF nearer THEN [word |-> dictionary[k], dist |-> D(k)] ELSE bestMatch
  BY DEF LookAtWord, D
<1>2. typed \in Word /\ left \subseteq P /\ k \in P /\ Nearest(seen)
  BY DEF ACInv
<1>3. P \subseteq DOMAIN dictionary
  BY DEF Pool
<1>4. \A j \in P : Len(dictionary[j]) \in Nat /\ D(j) \in Nat
  BY <1>2, <1>3, WordFacts
<1>5. P \ left' = seen \cup {k}
  BY <1>1, <1>2
<1>6. sensitivity \in Nat /\ SizeMax \in Nat /\ sensitivity < SizeMax
  BY AutoCorrectAssumption
<1>7. \A j : D(j)' = D(j)
  BY <1>1 DEF D
<1> HIDE DEF P
<1>8. Nearest(P \ left)' <=>
        \/ (\A j \in seen \cup {k} : D(j) > sensitivity) /\ bestMatch' = [word |-> typed, dist |-> SizeMax]
        \/ \E b \in seen \cup {k} :
             /\ D(b) <= sensitivity /\ bestMatch' = [word |-> dictionary[b], dist |-> D(b)]
             /\ \A j \in seen \cup {k} : AsNear(b, j)
  BY <1>1, <1>5, <1>7 DEF Nearest, AsNear, P
<1>9. ASSUME \A j \in seen : D(j) > sensitivity, bestMatch = [word |-> typed, dist |-> SizeMax]
      PROVE  Nearest(P \ left)'
  <2>1. CASE D(k) <= sensitivity
    <3>1. bestMatch' = [word |-> dictionary[k], dist |-> D(k)]
      BY <1>1, <1>2, <1>4, <1>6, <1>9, <2>1
    <3>2. \A j \in seen \cup {k} : AsNear(k, j)
      BY <1>2, <1>4, <1>6, <1>9, <2>1 DEF AsNear
    <3>3. QED
      BY <1>8, <2>1, <3>1, <3>2
  <2>2. CASE D(k) > sensitivity
    BY <1>1, <1>2, <1>4, <1>6, <1>8, <1>9, <2>2
  <2>3. QED
    BY <1>2, <1>4, <1>6, <2>1, <2>2
<1>10. ASSUME NEW b \in seen,
              /\ D(b) <= sensitivity /\ bestMatch = [word |-> dictionary[b], dist |-> D(b)]
              /\ \A j \in seen : AsNear(b, j)
       PROVE  Nearest(P \ left)'
  <2>1. b \in P /\ bestMatch.dist = D(b) /\ bestMatch.word = dictionary[b]
    BY <1>10
  <2>2. CASE nearer
    <3>1. bestMatch' = [word |-> dictionary[k], dist |-> D(k)]
      BY <1>1, <2>2
    <3>2. \A j \in seen \cup {k} : AsNear(k, j)
      BY <1>2, <1>4, <1>6, <1>10, <2>1, <2>2 DEF AsNear
    <3>3. QED
      BY <1>8, <2>2, <3>1, <3>2
  <2>3. CASE ~nearer
    <3>1. bestMatch' = bestMatch
      BY <1>1, <2>3
    <3>2. AsNear(b, k)
      BY <1>2, <1>4, <1>6, <1>10, <2>1, <2>3 DEF AsNear
    <3>3. QED
      BY <1>8, <1>10, <3>1, <3>2
  <2>4. QED
    BY <2>2, <2>3
<1>11. Nearest(P \ left)'
  BY <1>2, <1>9, <1>10 DEF Nearest
<1>12. QED
  BY <1>1, <1>2, <1>11 DEF ACInv, P

(* For every dictionary, sensitivity and word: what autoCorrectFilter::fix   *)
(* suggests is the nearest of all words in the dictionary that are within    *)
(* the budget, the longest among equals, and the word itself only when there *)
(* is none; the words that the length window leaves out are none of them.    *)
THEOREM SuggestsNearest == ACSpec => []NearestCommand
<1>1. ACInit => ACInv
  BY AutoCorrectAssumption DEF ACInit, ACInv, Nearest
<1>2. ACInv /\ [ACNext]_acVars => ACInv'
  <2>1. ASSUME ACInv, UNCHANGED acVars PROVE ACInv'
    BY <2>1 DEF ACInv, Nearest, AsNear, D, acVars
  <2>2. QED
    BY <2>1, ACNextInv DEF ACNext
<1>3. ASSUME ACInv, left = {} PROVE NearestCommand
  <2> DEFINE Near == {w \in Commands : Distance(typed, w) <= sensitivity}
             P == Pool(typed)
  <2>1. typed \in Word /\ Nearest(P) /\ P \subseteq DOMAIN dictionary
    BY <1>3 DEF ACInv, Pool
  <2>2. \A k \in P : D(k) \in Nat /\ Len(dictionary[k]) \in Nat
    BY <2>1, WordFacts
  <2>3. \A w \in Near : \E k \in P : w = dictionary[k] /\ D(k) <= sensitivity
    BY <2>1, WordFacts DEF Commands, D
  <2>4. \A k \in P : D(k) <= sensitivity => dictionary[k] \in Near
    BY <2>1 DEF Commands, D
  <2>5. sensitivity \in Nat
    BY AutoCorrectAssumption
  <2> HIDE DEF P
  <2>6. CASE (\A k \in P : D(k) > sensitivity) /\ bestMatch = [word |-> typed, dist |-> SizeMax]
    <3>1. Near = {}
      BY <2>2, <2>3, <2>5, <2>6
    <3>2. QED
      BY <2>6, <3>1 DEF NearestCommand
  <2>7. ASSUME NEW b \in P,
               /\ D(b) <= sensitivity /\ bestMatch = [word |-> dictionary[b], dist |-> D(b)]
               /\ \A k \in P : AsNear(b, k)
        PROVE  NearestCommand
    <3>1. bestMatch.word = dictionary[b] /\ dictionary[b] \in Near
      BY <2>4, <2>7
    <3>2. ASSUME NEW w \in Near
          PROVE  \/ Distance(typed, dictionary[b]) < Distance(typed, w)
                 \/ /\ Distance(typed, dictionary[b]) = Distance(typed, w)
                    /\ Len(dictionary[b]) >= Len(w)
      <4>1. PICK k \in P : w = dictionary[k]
        BY <2>3
      <4>2. AsNear(b, k)
        BY <2>7
      <4>3. QED
        BY <2>2, <4>1, <4>2 DEF D, AsNear
    <3> HIDE DEF Near
    <3>3. QED
      BY <3>1, <3>2 DEF NearestCommand, Near
  <2>8. QED
    BY <2>1, <2>6, <2>7 DEF Nearest
<1>4. ACInv => NearestCommand
  <2>1. left # {} => NearestCommand
    BY DEF NearestCommand
  <2>2. QED
    BY <1>3, <2>1
<1>5. QED
  BY <1>1, <1>2, <1>4, PTL DEF ACSpec

-----------------------------------------------------------------------------
(* ConfigFiles: the arguments of a service. *)

ArgState == [out : Seq(Seq(STRING)), cur : Seq(STRING), quoted : BOOLEAN, have : BOOLEAN]
NoArgs == [out |-> <<>>, cur |-> <<>>, quoted |-> FALSE, have |-> FALSE]

LEMMA ArgStepCases ==
  ASSUME NEW s \in ArgState, NEW c \in STRING
  PROVE  LET t == ArgStep(s, c)
         IN  /\ t \in ArgState
             /\ c = "quote" =>
                  t.out = s.out /\ t.cur = s.cur /\ t.quoted = ~s.quoted /\ t.have
             /\ c = "blank" /\ ~s.quoted =>
                  /\ ~t.have /\ ~t.quoted
                  /\ s.have => t.out = Append(s.out, s.cur) /\ t.cur = <<>>
                  /\ ~s.have => t = s
             /\ c # "quote" /\ ~(c = "blank" /\ ~s.quoted) =>
                  t.out = s.out /\ t.cur = Append(s.cur, c) /\ t.quoted = s.quoted /\ t.have
<1> DEFINE t == ArgStep(s, c)
<1>1. CASE c = "quote"
  <2>1. t = [s EXCEPT !.quoted = ~s.quoted, !.have = TRUE]
    BY <1>1 DEF ArgStep
  <2>2. QED
    BY <1>1, <2>1 DEF ArgState
<1>2. CASE c = "blank" /\ ~s.quoted
  <2>1. t = IF s.have THEN [s EXCEPT !.out = Append(s.out, s.cur), !.cur = <<>>, !.have = FALSE] ELSE s
    BY <1>2 DEF ArgStep
  <2>2. CASE s.have
    <3>1. Append(s.out, s.cur) \in Seq(Seq(STRING)) /\ <<>> \in Seq(STRING)
      BY DEF ArgState
    <3>2. QED
      BY <1>2, <2>1, <2>2, <3>1 DEF ArgState
  <2>3. CASE ~s.have
    BY <1>2, <2>1, <2>3 DEF ArgState
  <2>4. QED
    BY <2>2, <2>3
<1>3. CASE c # "quote" /\ ~(c = "blank" /\ ~s.quoted)
  <2>1. t = [s EXCEPT !.cur = Append(s.cur, c), !.have = TRUE]
    BY <1>3 DEF ArgStep
  <2>2. Append(s.cur, c) \in Seq(STRING)
    BY DEF ArgState
  <2>3. QED
    BY <1>3, <2>1, <2>2 DEF ArgState
<1>4. QED
  BY <1>1, <1>2, <1>3

LEMMA ArgStatesDef ==
  ASSUME NEW text \in Seq(STRING)
  PROVE  LET a == ArgStates(text)
         IN  /\ a[0] = NoArgs
             /\ \A k \in 0 .. Len(text) : a[k] \in ArgState
             /\ \A k \in 1 .. Len(text) : a[k] = ArgStep(a[k - 1], text[k])
<1> DEFINE N == Len(text)
           F == [p \in Nat \X ArgState |-> IF p[1] \in 1 .. N THEN ArgStep(p[2], text[p[1]]) ELSE p[2]]
           Body(s) == [k \in 0 .. N |-> IF k = 0 THEN NoArgs ELSE ArgStep(s[k - 1], text[k])]
           a == ArgStates(text)
<1>1. N \in Nat
  OBVIOUS
<1>2. F \in [Nat \X ArgState -> ArgState]
  <2>1. ASSUME NEW k \in 1 .. N, NEW s \in ArgState PROVE ArgStep(s, text[k]) \in ArgState
    <3>1. text[k] \in STRING
      OBVIOUS
    <3>2. QED
      BY <3>1, ArgStepCases
  <2>2. QED
    BY <2>1
<1>3. NoArgs \in ArgState
  BY DEF NoArgs, ArgState
<1>4. a = CHOOSE s : s = Body(s)
  BY DEF ArgStates, NoArgs
<1> HIDE DEF F, N, a
<1>5. PICK g : Recurs(ArgState, NoArgs, F, N, g)
  BY <1>1, <1>2, <1>3, RecursionExists
<1>6. /\ g \in [0 .. N -> ArgState] /\ g[0] = NoArgs
      /\ \A k \in 1 .. N : g[k] = F[<<k, g[k - 1]>>]
  BY <1>5 DEF Recurs
<1>7. ASSUME NEW k \in 1 .. N PROVE g[k] = ArgStep(g[k - 1], text[k])
  <2>1. k \in Nat /\ g[k - 1] \in ArgState
    BY <1>1, <1>6
  <2>2. QED
    BY <1>6, <2>1 DEF F
<1>8. g = Body(g)
  BY <1>6, <1>7
<1>9. a = Body(a)
  BY <1>4, <1>8, Zenon
<1>10. a[0] = NoArgs /\ \A k \in 1 .. N : a[k] = ArgStep(a[k - 1], text[k])
  BY <1>1, <1>9
<1>11. a[0] = g[0] /\ \A k \in 1 .. N : a[k - 1] = g[k - 1] => a[k] = g[k]
  BY <1>6, <1>7, <1>10
<1>12. \A k \in 0 .. N : a[k] = g[k]
  BY <1>1, <1>11, Agree, Zenon
<1>13. QED
  BY <1>6, <1>10, <1>12 DEF N, a

(* The argument a is what the text spells, up to position p, as its n-th. *)
SpeltTo(text, n, a, p) ==
  /\ Len(a) = CountTo(CharsOf(text, n), p)
  /\ \A i \in CharsOf(text, n) :
       i <= p => LET r == CountTo(CharsOf(text, n), i) IN r \in 1 .. Len(a) /\ a[r] = text[i]

(* What the loop of split_args knows after p characters. *)
ArgsTo(text, p, s) ==
  LET n == CountTo(Starts(text), p) IN
  /\ s \in ArgState
  /\ s.quoted <=> CountTo(Quotes(text), p) % 2 = 1
  /\ s.have <=> p > 0 /\ p \notin Blanks(text)
  /\ n = IF s.have THEN Len(s.out) + 1 ELSE Len(s.out)
  /\ \A k \in 1 .. Len(s.out) : SpeltTo(text, k, s.out[k], p)
  /\ s.have => SpeltTo(text, n, s.cur, p)
  /\ ~s.have => s.cur = <<>>
  /\ \A k \in Nat : k > n => CountTo(CharsOf(text, k), p) = 0

(* A position that is no character of an argument leaves it as it was. *)
LEMMA SpeltSame ==
  ASSUME NEW text, NEW n, NEW a, NEW p \in Nat, SpeltTo(text, n, a, p),
         p + 1 \notin CharsOf(text, n), \A j \in CharsOf(text, n) : j \in Nat
  PROVE  SpeltTo(text, n, a, p + 1)
<1>1. CountTo(CharsOf(text, n), p + 1) = CountTo(CharsOf(text, n), p)
  BY CountNext
<1>2. \A i \in CharsOf(text, n) : i <= p + 1 => i <= p
  OBVIOUS
<1>3. QED
  BY <1>1, <1>2 DEF SpeltTo

LEMMA SpeltMore ==
  ASSUME NEW text \in Seq(STRING), NEW n, NEW a \in Seq(STRING), NEW p \in Nat, SpeltTo(text, n, a, p),
         p + 1 \in CharsOf(text, n), \A j \in CharsOf(text, n) : j \in Nat
  PROVE  SpeltTo(text, n, Append(a, text[p + 1]), p + 1)
<1> DEFINE C == CharsOf(text, n)
           b == Append(a, text[p + 1])
<1>1. CountTo(C, p) \in Nat /\ CountTo(C, p + 1) = CountTo(C, p) + 1
  BY CountNext
<1>2. Len(a) = CountTo(C, p) /\ Len(b) = Len(a) + 1 /\ b[Len(a) + 1] = text[p + 1]
  BY DEF SpeltTo
<1>3. \A r \in 1 .. Len(a) : b[r] = a[r] /\ r \in 1 .. Len(b)
  OBVIOUS
<1>4. ASSUME NEW i \in C, i <= p + 1
      PROVE  CountTo(C, i) \in 1 .. Len(b) /\ b[CountTo(C, i)] = text[i]
  <2>1. CASE i = p + 1
    BY <1>1, <1>2, <2>1
  <2>2. CASE i # p + 1
    <3>1. i <= p
      BY <1>4, <2>2
    <3>2. QED
      BY <1>3, <3>1 DEF SpeltTo
  <2>3. QED
    BY <2>1, <2>2
<1>5. QED
  BY <1>1, <1>2, <1>4 DEF SpeltTo

LEMMA CharsTyped ==
  ASSUME NEW text \in Seq(STRING)
  PROVE  /\ \A j \in Quotes(text) : j \in Nat
         /\ \A j \in Starts(text) : j \in Nat
         /\ \A n : \A j \in CharsOf(text, n) : j \in Nat
  BY DEF Quotes, Starts, CharsOf

(* The kinds of a position, and what the counts are after it. *)
LEMMA NextPosition ==
  ASSUME NEW text \in Seq(STRING), NEW p \in Nat, p < Len(text)
  PROVE  LET c == text[p + 1]
             blank == c = "blank" /\ CountTo(Quotes(text), p) % 2 = 0
             start == ~blank /\ ~(p > 0 /\ p \notin Blanks(text))
             n == CountTo(Starts(text), p)
         IN  /\ CountTo(Quotes(text), p) \in Nat /\ n \in Nat
             /\ CountTo(Quotes(text), p + 1) = CountTo(Quotes(text), p) + IF c = "quote" THEN 1 ELSE 0
             /\ p + 1 \in Blanks(text) <=> blank
             /\ CountTo(Starts(text), p + 1) = n + IF start THEN 1 ELSE 0
             /\ \A k : p + 1 \in CharsOf(text, k) <=>
                         ~blank /\ c # "quote" /\ k = CountTo(Starts(text), p + 1)
<1> DEFINE c == text[p + 1]
           blank == c = "blank" /\ CountTo(Quotes(text), p) % 2 = 0
           start == ~blank /\ ~(p > 0 /\ p \notin Blanks(text))
<1>1. p + 1 \in DOMAIN text /\ (p + 1) - 1 = p /\ (p + 1 = 1 <=> ~(p > 0))
  OBVIOUS
<1>2. p + 1 \in Quotes(text) <=> c = "quote"
  BY <1>1 DEF Quotes
<1>3. /\ CountTo(Quotes(text), p) \in Nat
      /\ CountTo(Quotes(text), p + 1) = CountTo(Quotes(text), p) + IF c = "quote" THEN 1 ELSE 0
  BY <1>2, CountNext, CharsTyped
<1>4. p + 1 \in Blanks(text) <=> blank
  <2>1. c = "blank" => CountTo(Quotes(text), p + 1) = CountTo(Quotes(text), p)
    BY <1>3
  <2>2. QED
    BY <1>1, <2>1 DEF Blanks
<1>5. p + 1 \in Starts(text) <=> start
  <2>1. p \in Blanks(text) => p > 0
    BY DEF Blanks
  <2>2. QED
    BY <1>1, <1>4, <2>1 DEF Starts
<1> HIDE DEF start
<1>6. /\ CountTo(Starts(text), p) \in Nat
      /\ CountTo(Starts(text), p + 1) = CountTo(Starts(text), p) + IF start THEN 1 ELSE 0
  BY <1>5, CountNext, CharsTyped
<1>7. \A k : p + 1 \in CharsOf(text, k) <=>
               ~blank /\ c # "quote" /\ k = CountTo(Starts(text), p + 1)
  BY <1>1, <1>2, <1>4 DEF CharsOf
<1>8. QED
  BY <1>3, <1>4, <1>6, <1>7 DEF start

LEMMA ArgStepKeeps ==
  ASSUME NEW text \in Seq(STRING), NEW p \in Nat, p < Len(text), NEW s, ArgsTo(text, p, s)
  PROVE  ArgsTo(text, p + 1, ArgStep(s, text[p + 1]))
<1> DEFINE c == text[p + 1]
           t == ArgStep(s, c)
           n == CountTo(Starts(text), p)
           m == CountTo(Starts(text), p + 1)
           q == CountTo(Quotes(text), p)
           C(k) == CharsOf(text, k)
<1>1. c \in STRING /\ s \in ArgState /\ Len(s.out) \in Nat /\ s.cur \in Seq(STRING)
  BY DEF ArgsTo, ArgState
<1>2. /\ s.quoted <=> q % 2 = 1
      /\ s.have <=> p > 0 /\ p \notin Blanks(text)
      /\ n = IF s.have THEN Len(s.out) + 1 ELSE Len(s.out)
      /\ \A k \in 1 .. Len(s.out) : SpeltTo(text, k, s.out[k], p)
      /\ s.have => SpeltTo(text, n, s.cur, p)
      /\ ~s.have => s.cur = <<>>
      /\ \A k \in Nat : k > n => CountTo(C(k), p) = 0
  BY DEF ArgsTo
<1> DEFINE blank == c = "blank" /\ q % 2 = 0
           start == ~blank /\ ~s.have
<1>3. /\ q \in Nat /\ n \in Nat
      /\ CountTo(Quotes(text), p + 1) = q + IF c = "quote" THEN 1 ELSE 0
      /\ p + 1 \in Blanks(text) <=> blank
      /\ m = n + IF start THEN 1 ELSE 0
      /\ \A k : p + 1 \in C(k) <=> ~blank /\ c # "quote" /\ k = m
  <2>1. start <=> ~blank /\ ~(p > 0 /\ p \notin Blanks(text))
    BY <1>2
  <2> HIDE DEF start
  <2>2. m = n + IF ~blank /\ ~(p > 0 /\ p \notin Blanks(text)) THEN 1 ELSE 0
    BY NextPosition
  <2>3. m = n + IF start THEN 1 ELSE 0
    BY <2>1, <2>2
  <2>4. QED
    BY <2>3, NextPosition
<1>4. blank <=> c = "blank" /\ ~s.quoted
  BY <1>2, <1>3
<1>5. /\ t \in ArgState
      /\ c = "quote" =>
           t.out = s.out /\ t.cur = s.cur /\ t.quoted = ~s.quoted /\ t.have
      /\ blank =>
           /\ ~t.have /\ ~t.quoted
           /\ s.have => t.out = Append(s.out, s.cur) /\ t.cur = <<>>
           /\ ~s.have => t = s
      /\ c # "quote" /\ ~blank =>
           t.out = s.out /\ t.cur = Append(s.cur, c) /\ t.quoted = s.quoted /\ t.have
  BY <1>1, <1>4, ArgStepCases
<1>6. s.quoted \in BOOLEAN /\ s.have \in BOOLEAN
  BY <1>1 DEF ArgState
<1>7. \A k : \A j \in C(k) : j \in Nat
  BY CharsTyped
<1>8. t.quoted <=> CountTo(Quotes(text), p + 1) % 2 = 1
  <2>1. CASE c = "quote"
    <3>1. (q + 1) % 2 = 1 <=> ~(q % 2 = 1)
      BY <1>3
    <3>2. CountTo(Quotes(text), p + 1) = q + 1
      BY <1>3, <2>1
    <3>3. t.quoted <=> ~s.quoted
      BY <1>5, <1>6, <2>1
    <3>4. QED
      BY <1>2, <3>1, <3>2, <3>3
  <2>2. CASE c # "quote"
    BY <1>2, <1>3, <1>4, <1>5, <1>6, <2>2
  <2>3. QED
    BY <2>1, <2>2
<1>9. t.have <=> p + 1 > 0 /\ p + 1 \notin Blanks(text)
  BY <1>3, <1>5
<1> HIDE DEF t, n, m, q, C, blank, start, c
<1>10. \A k \in Nat : k > m => CountTo(C(k), p + 1) = 0
  <2> SUFFICES ASSUME NEW k \in Nat, k > m PROVE CountTo(C(k), p + 1) = 0
    OBVIOUS
  <2>1. k > n /\ p + 1 \notin C(k)
    BY <1>3
  <2>2. CountTo(C(k), p) = 0
    BY <1>2, <2>1
  <2>3. QED
    BY <1>7, <2>1, <2>2, CountNext
<1>11. ASSUME NEW k, NEW a, SpeltTo(text, k, a, p), p + 1 \notin C(k) PROVE SpeltTo(text, k, a, p + 1)
  BY <1>7, <1>11, SpeltSame DEF C
<1>12. \A k \in 1 .. Len(s.out) : SpeltTo(text, k, s.out[k], p + 1)
  <2> SUFFICES ASSUME NEW k \in 1 .. Len(s.out) PROVE SpeltTo(text, k, s.out[k], p + 1)
    OBVIOUS
  <2>1. ~(~blank /\ c # "quote" /\ k = m)
    <3>1. n >= Len(s.out) /\ (s.have => n = Len(s.out) + 1)
      BY <1>1, <1>2
    <3>2. ~blank => m > Len(s.out)
      BY <1>1, <1>3, <3>1 DEF start
    <3>3. QED
      BY <1>1, <1>3, <3>2
  <2>2. QED
    BY <1>2, <1>3, <1>11, <2>1
\* Nothing is spelt yet of an argument that starts.
<1>13. ASSUME ~s.have PROVE SpeltTo(text, n + 1, <<>>, p)
  <2>1. CountTo(C(n + 1), p) = 0 /\ \A j \in C(n + 1) : j \in Nat
    BY <1>2, <1>3, <1>7
  <2>2. \A i \in C(n + 1) : ~(i <= p)
    BY <2>1, CountZero
  <2>3. QED
    BY <2>1, <2>2 DEF SpeltTo, C
<1>14. ~blank => SpeltTo(text, m, s.cur, p) /\ m = Len(s.out) + 1
  <2>1. CASE s.have
    BY <1>2, <1>3, <2>1 DEF start
  <2>2. CASE ~s.have
    BY <1>1, <1>2, <1>3, <1>13, <2>2 DEF start
  <2>3. QED
    BY <2>1, <2>2
<1>15. CASE c = "quote"
  <2>1. ~blank /\ p + 1 \notin C(m)
    BY <1>3, <1>15 DEF blank
  <2>2. SpeltTo(text, m, t.cur, p + 1)
    BY <1>5, <1>11, <1>14, <1>15, <2>1
  <2>3. QED
    BY <1>5, <1>8, <1>9, <1>10, <1>12, <1>14, <1>15, <2>1, <2>2 DEF ArgsTo, t, m, C, c
<1>16. CASE c # "quote" /\ ~blank
  <2>1. p + 1 \in C(m)
    BY <1>3, <1>16
  <2>2. SpeltTo(text, m, t.cur, p + 1)
    BY <1>1, <1>5, <1>7, <1>14, <1>16, <2>1, SpeltMore DEF C, c
  <2>3. QED
    BY <1>5, <1>8, <1>9, <1>10, <1>12, <1>14, <1>16, <2>2 DEF ArgsTo, t, m, C, c
<1>17. CASE blank
  <2>1. m = n /\ p + 1 \notin C(n)
    BY <1>3, <1>17 DEF start
  <2>2. CASE ~s.have
    BY <1>2, <1>5, <1>8, <1>9, <1>10, <1>12, <1>17, <2>1, <2>2 DEF ArgsTo, t, m, C, c
  <2>3. CASE s.have
    <3>1. /\ ~t.have /\ t.out = Append(s.out, s.cur) /\ t.cur = <<>>
          /\ Len(t.out) = Len(s.out) + 1 /\ t.out[n] = s.cur
          /\ \A k \in 1 .. Len(s.out) : t.out[k] = s.out[k]
      BY <1>1, <1>2, <1>5, <1>17, <2>3 DEF ArgState
    <3>2. SpeltTo(text, n, s.cur, p + 1)
      BY <1>2, <1>11, <2>1, <2>3
    <3>3. \A k \in 1 .. Len(t.out) : SpeltTo(text, k, t.out[k], p + 1)
      BY <1>1, <1>2, <1>12, <2>3, <3>1, <3>2
    <3>4. QED
      BY <1>2, <1>5, <1>8, <1>9, <1>10, <2>1, <2>3, <3>1, <3>3 DEF ArgsTo, t, m, C, c
  <2>4. QED
    BY <2>2, <2>3
<1>18. QED
  BY <1>15, <1>16, <1>17

(* split_args gives the arguments that the text spells. *)
LEMMA SplitSpells ==
  ASSUME NEW text \in Seq(STRING)
  PROVE  Spells(text, split_args(text))
<1> DEFINE N == Len(text)
           a == ArgStates(text)
           S == {p \in Nat : p <= N => ArgsTo(text, p, a[p])}
<1>1. /\ N \in Nat /\ a[0] = NoArgs /\ \A k \in 0 .. N : a[k] \in ArgState
      /\ \A k \in 1 .. N : a[k] = ArgStep(a[k - 1], text[k])
  BY ArgStatesDef
<1>2. 0 \in S
  <2>1. \A T : (\A j \in T : j \in 1 .. N) => CountTo(T, 0) = 0
    BY <1>1, CountNone
  <2>2. /\ \A j \in Starts(text) : j \in 1 .. N
        /\ \A j \in Quotes(text) : j \in 1 .. N
        /\ \A k : \A j \in CharsOf(text, k) : j \in 1 .. N
    BY DEF Starts, Quotes, CharsOf
  <2>3. CountTo(Starts(text), 0) = 0 /\ CountTo(Quotes(text), 0) = 0
    BY <2>1, <2>2
  <2>4. \A k : CountTo(CharsOf(text, k), 0) = 0
    BY <2>1, <2>2
  <2>5. ArgsTo(text, 0, NoArgs)
    BY <2>3, <2>4 DEF ArgsTo, NoArgs, ArgState
  <2>6. QED
    BY <1>1, <2>5
<1>3. ASSUME NEW p \in Nat, p \in S PROVE p + 1 \in S
  <2> SUFFICES ASSUME p + 1 <= N PROVE ArgsTo(text, p + 1, a[p + 1])
    OBVIOUS
  <2>1. p + 1 \in 1 .. N /\ p < N /\ ArgsTo(text, p, a[p]) /\ (p + 1) - 1 = p
    BY <1>1, <1>3
  <2>2. a[p + 1] = ArgStep(a[p], text[p + 1])
    BY <1>1, <2>1
  <2>3. QED
    BY <2>1, <2>2, ArgStepKeeps
<1> HIDE DEF S
<1>4. \A p \in Nat : p \in S
  BY <1>2, <1>3, Induct
<1>5. ArgsTo(text, N, a[N])
  BY <1>1, <1>4 DEF S
<1> DEFINE s == a[N]
           n == CountTo(Starts(text), N)
           args == IF s.have THEN Append(s.out, s.cur) ELSE s.out
<1>6. s \in ArgState /\ s.out \in Seq(Seq(STRING)) /\ Len(s.out) \in Nat
  BY <1>5 DEF ArgsTo, ArgState
<1>7. args = split_args(text)
  BY DEF split_args
<1>8. /\ n = IF s.have THEN Len(s.out) + 1 ELSE Len(s.out)
      /\ \A k \in 1 .. Len(s.out) : SpeltTo(text, k, s.out[k], N)
      /\ s.have => SpeltTo(text, n, s.cur, N)
  BY <1>5 DEF ArgsTo
<1>9. Len(args) = n /\ \A k \in 1 .. n : SpeltTo(text, k, args[k], N)
  <2>1. CASE s.have
    <3>1. /\ Len(args) = Len(s.out) + 1 /\ args[Len(s.out) + 1] = s.cur
          /\ \A k \in 1 .. Len(s.out) : args[k] = s.out[k]
      BY <1>6, <2>1 DEF ArgState
    <3> HIDE DEF args, s, n, N
    <3>2. QED
      BY <1>6, <1>8, <2>1, <3>1
  <2>2. CASE ~s.have
    BY <1>6, <1>8, <2>2
  <2>3. QED
    BY <2>1, <2>2
<1>10. DOMAIN args = 1 .. n
  BY <1>6, <1>9 DEF ArgState
<1>11. \A k : \A i \in CharsOf(text, k) : i <= N
  BY DEF CharsOf
<1> HIDE DEF args
<1>12. Spells(text, args)
  BY <1>9, <1>10, <1>11 DEF Spells, SpeltTo
<1>13. QED
  BY <1>7, <1>12

-----------------------------------------------------------------------------
(* ConfigFiles: the lines of a file. *)

Sections == CountTo(Headers, Len(file))

(* One more line: it belongs to the last section. *)
LEMMA FileGrows ==
  ASSUME NEW L, file \in Seq(L), NEW l \in L, file' = Append(file, l)
  PROVE  /\ Sections \in Nat /\ Sections' = Sections + IF l.key = "[]" THEN 1 ELSE 0
         /\ \A k, key : Given(k, key)' =
              IF l.key = key /\ k = Sections' /\ (key = "path" => l.val # <<>>)
              THEN Given(k, key) \cup {Len(file) + 1} ELSE Given(k, key)
         /\ \A k, key : \A i \in Given(k, key) : i \in 1 .. Len(file) /\ file'[i] = file[i]
         /\ \A k \in Nat : k > Sections => \A key : Given(k, key) = {}
<1> DEFINE N == Len(file)
<1>1. /\ N \in Nat /\ Len(file') = N + 1 /\ file'[N + 1] = l /\ DOMAIN file = 1 .. N
      /\ DOMAIN file' = 1 .. N + 1 /\ \A i \in 1 .. N : file'[i] = file[i]
  OBVIOUS
<1>2. (\A j \in Headers : j \in Nat) /\ (\A j \in Headers' : j \in Nat)
  BY <1>1 DEF Headers
<1>3. \A i \in 0 .. N : CountTo(Headers', i) = CountTo(Headers, i)
  <2> SUFFICES ASSUME NEW i \in 0 .. N PROVE CountTo(Headers', i) = CountTo(Headers, i)
    OBVIOUS
  <2>1. {j \in Headers' : j <= i} = {j \in Headers : j <= i}
    BY <1>1 DEF Headers
  <2>2. QED
    BY <2>1 DEF CountTo
<1>4. N + 1 \in Headers' <=> l.key = "[]"
  BY <1>1 DEF Headers
<1>5. /\ Sections \in Nat /\ Sections' = CountTo(Headers', N + 1)
      /\ Sections' = Sections + IF l.key = "[]" THEN 1 ELSE 0
  <2>1. CountTo(Headers', N) \in Nat
    BY <1>1, <1>2, CountNext
  <2>2. CountTo(Headers', N + 1) = CountTo(Headers', N) + IF N + 1 \in Headers' THEN 1 ELSE 0
    BY <1>1, <1>2, CountNext
  <2>3. CountTo(Headers', N) = Sections
    BY <1>1, <1>3 DEF Sections
  <2>4. Sections' = CountTo(Headers', N + 1)
    BY <1>1 DEF Sections
  <2>5. QED
    BY <1>4, <2>1, <2>2, <2>3, <2>4
<1>6. ASSUME NEW k, NEW key
      PROVE  Given(k, key)' = IF l.key = key /\ k = Sections' /\ (key = "path" => l.val # <<>>)
                              THEN Given(k, key) \cup {N + 1} ELSE Given(k, key)
  <2>1. \A i \in 1 .. N : i \in Given(k, key)' <=> i \in Given(k, key)
    BY <1>1, <1>3 DEF Given
  <2>2. N + 1 \in Given(k, key)' <=> l.key = key /\ k = Sections' /\ (key = "path" => l.val # <<>>)
    BY <1>1, <1>5 DEF Given
  <2>3. Given(k, key) \subseteq 1 .. N /\ Given(k, key)' \subseteq 1 .. N + 1
    BY <1>1 DEF Given
  <2>4. \A i \in 1 .. N + 1 : i \in 1 .. N \/ i = N + 1
    BY <1>1
  <2>5. N + 1 \notin 1 .. N
    BY <1>1
  <2> DEFINE A == Given(k, key)
             B == Given(k, key)'
  <2> HIDE DEF A, B
  <2>6. /\ N + 1 \in B => B = A \cup {N + 1}
        /\ N + 1 \notin B => B = A
    BY <2>1, <2>3, <2>4, <2>5 DEF A, B
  <2>7. QED
    BY <2>2, <2>6 DEF A, B
<1>7. \A k, key : \A i \in Given(k, key) : i \in 1 .. N /\ file'[i] = file[i]
  BY <1>1 DEF Given
<1>8. ASSUME NEW k \in Nat, k > Sections, NEW key, NEW i \in Given(k, key) PROVE FALSE
  <2>1. i \in 1 .. N /\ CountTo(Headers, i) = k
    BY <1>1 DEF Given
  <2>2. CountTo(Headers, i) <= Sections
    BY <1>1, <1>2, <2>1, CountMono DEF Sections
  <2>3. QED
    BY <1>5, <1>8, <2>1, <2>2
<1>9. QED
  BY <1>5, <1>6, <1>7, <1>8

(* The value of a key in a section is the last one given there. *)
LastGiven(k, key, value) ==
  IF Given(k, key) = {} THEN value = Default(key)
  ELSE \E i \in Given(k, key) : (\A j \in Given(k, key) : j <= i) /\ Means(key, file[i].val, value)

LEMMA AsWrittenDef ==
  ASSUME NEW t
  PROVE  AsWritten(t) <=> /\ Len(t) = Sections
                          /\ \A k \in DOMAIN t, key \in Keys[kind] : LastGiven(k, key, t[k][key])
  BY DEF AsWritten, LastGiven, Sections

LEMMA LastGivenSame ==
  ASSUME NEW L, file \in Seq(L), NEW l \in L, file' = Append(file, l),
         NEW k, NEW key, NEW value, Given(k, key)' = Given(k, key), LastGiven(k, key, value)
  PROVE  LastGiven(k, key, value)'
<1>1. \A i \in Given(k, key) : file'[i] = file[i]
  BY FileGrows
<1>2. QED
  BY <1>1 DEF LastGiven

LEMMA KeysNames ==
  ASSUME NEW k \in {"routes", "services"}
  PROVE  /\ "#" \notin Keys[k] /\ "[]" \notin Keys[k]
         /\ k = "routes" => "backend" \in Keys[k]
         /\ k = "services" => "exec" \in Keys[k]
  BY DEF Keys

Port16(p) == p \in Nat /\ p <= MaxPort

Values ==
  {Default(key) : key \in Keys[kind]} \cup {Convert(l.key, l.val) : l \in Lines[kind]}

(* What holds line by line: the sections read so far are those written. *)
CfgInv ==
  /\ kind \in {"routes", "services"} /\ file \in Seq(Lines[kind])
  /\ phase = "reading" =>
       /\ result \in Seq([Keys[kind] -> Values]) /\ AsWritten(result)
       /\ kind = "routes" => \A k \in DOMAIN result : Port16(result[k]["backend"].port)
  /\ LoadedAsWritten

LEMMA NotLoaded ==
  ASSUME phase' # "loaded" PROVE LoadedAsWritten'
  BY Zenon DEF LoadedAsWritten

LEMMA LineTypes ==
  ASSUME NEW k \in {"routes", "services"}, NEW l \in Lines[k]
  PROVE  /\ l.key \in {"backend", "health_tcp"} => IsNumeral(l.val.port)
         /\ l.key \in NumberKeys => IsNumeral(l.val)
         /\ l.key = "args" => l.val \in Seq(STRING)
  BY ConfigAssumption

(* What strtol and the two casts keep. *)
LEMMA StrtolKeeps ==
  ASSUME NEW text, IsNumeral(text)
  PROVE  /\ strtol(text) \in Int
         /\ WritesNumber(text) /\ FitsInt(text.value) => strtol(text) = text.value
         /\ WritesNumber(text) /\ strtol(text) <= MaxPort /\ strtol(text) > 0
              => strtol(text) = text.value
<1> DEFINE x == text.value
<1>1. IntMax \in Nat /\ LongMax \in Nat /\ IntMax <= LongMax /\ MaxPort < LongMax /\ MaxPort \in Nat
  BY WidthAssumption DEF MaxPort
<1>2. x \in Int /\ text.number \in BOOLEAN
  BY DEF IsNumeral
<1>3. strtol(text) = IF ~text.number THEN 0
                     ELSE IF x > LongMax THEN LongMax
                     ELSE IF x < -LongMax - 1 THEN -LongMax - 1 ELSE x
  BY <1>1, <1>2 DEF strtol
<1> HIDE DEF x
<1>4. QED
  BY <1>1, <1>2, <1>3 DEF WritesNumber, FitsInt, x

LEMMA SmallMod ==
  ASSUME NEW a \in Nat, NEW b \in Nat, a < b PROVE a % b = a
  OBVIOUS

LEMMA ToIntKeeps ==
  ASSUME NEW n \in Int, FitsInt(n) PROVE ToInt(n) = n
<1> DEFINE K == IntMax + 1
<1>1. K \in Nat /\ 2 * K \in Nat /\ n + K \in Nat /\ n + K < 2 * K
  BY WidthAssumption DEF FitsInt
<1>2. (n + K) % (2 * K) = n + K
  BY ONLY <1>1, SmallMod
<1>3. ToInt(n) = ((n + K) % (2 * K)) - K
  BY WidthAssumption DEF ToInt
<1>4. QED
  BY ONLY <1>1, <1>2, <1>3, n \in Int

(* A value that is accepted is kept as it is written. *)
LEMMA ConvertMeans ==
  ASSUME kind \in {"routes", "services"}, NEW l \in Lines[kind], Valid(l.key, l.val),
         l.key \in Keys[kind]
  PROVE  /\ Means(l.key, l.val, Convert(l.key, l.val))
         /\ l.key = "backend" => Port16(Convert(l.key, l.val).port)
<1>1. CASE l.key \in {"backend", "health_tcp"}
  <2> DEFINE p == strtol(l.val.port)
  <2>1. p \in Int /\ p > 0 /\ p <= MaxPort /\ (WritesNumber(l.val.port) => p = l.val.port.value)
    <3>1. IsNumeral(l.val.port)
      BY <1>1, LineTypes
    <3>2. PortInRange(p)
      BY <1>1 DEF Valid
    <3>3. QED
      BY <3>1, <3>2, StrtolKeeps DEF PortInRange
  <2>2. p % (MaxPort + 1) = p
    BY <2>1 DEF MaxPort
  <2>3. Convert(l.key, l.val) = [host |-> l.val.host, port |-> p]
    BY <1>1, <2>2 DEF Convert, NumberKeys
  <2>4. QED
    BY <1>1, <2>1, <2>3 DEF Means, Port16, NumberKeys
<1>2. CASE l.key = "args"
  <2>1. l.val \in Seq(STRING)
    BY <1>2, LineTypes
  <2>2. Convert(l.key, l.val) = split_args(l.val)
    BY <1>2 DEF Convert, NumberKeys
  <2>3. Means(l.key, l.val, Convert(l.key, l.val)) <=> Spells(l.val, split_args(l.val))
    BY <1>2, <2>2 DEF Means, NumberKeys
  <2>4. QED
    BY <1>2, <2>1, <2>3, SplitSpells
<1>3. CASE l.key \in NumberKeys
  <2>1. IsNumeral(l.val)
    BY <1>3, LineTypes
  <2>2. Convert(l.key, l.val) = ToInt(strtol(l.val))
    BY <1>3 DEF Convert, NumberKeys
  <2>3. WritesNumber(l.val) /\ FitsInt(l.val.value) => Convert(l.key, l.val) = l.val.value
    BY <2>1, <2>2, StrtolKeeps, ToIntKeeps
  <2>4. QED
    BY <1>3, <2>3 DEF Means, NumberKeys
<1>4. CASE l.key = "host"
  BY <1>4 DEF Means, Convert, NumberKeys, lower
<1>5. CASE l.key \in {"path", "exec", "workdir", "autorestart"}
  BY <1>5 DEF Means, Convert, NumberKeys
<1>6. QED
  BY <1>1, <1>2, <1>3, <1>4, <1>5 DEF Keys, NumberKeys

LEMMA LineKept ==
  ASSUME CfgInv, NEW l \in Lines[kind], NextLine(l), phase' = "failed" PROVE CfgInv'
<1>1. /\ kind' = kind /\ file \in Seq(Lines[kind]) /\ file' = Append(file, l)
  BY DEF CfgInv, NextLine
<1>2. file' \in Seq(Lines[kind])
  BY <1>1
<1>3. LoadedAsWritten'
  BY NotLoaded
<1>4. QED
  BY <1>1, <1>2, <1>3 DEF CfgInv

LEMMA SkipKeeps ==
  ASSUME CfgInv, NEW l \in Lines[kind], SkipLine(l) PROVE CfgInv'
<1>1. /\ kind' = kind /\ kind \in {"routes", "services"} /\ phase = "reading" /\ phase' = "reading"
      /\ result' = result /\ result \in Seq([Keys[kind] -> Values]) /\ AsWritten(result)
      /\ file \in Seq(Lines[kind]) /\ file' = Append(file, l) /\ l.key = "#"
      /\ kind = "routes" => \A k \in DOMAIN result : Port16(result[k]["backend"].port)
  BY DEF CfgInv, SkipLine, NextLine
<1>2. file' \in Seq(Lines[kind])
  BY <1>1
<1>3. Sections' = Sections
  BY <1>1, FileGrows
<1>4. ASSUME NEW k, NEW key \in Keys[kind] PROVE Given(k, key)' = Given(k, key)
  <2>1. l.key # key
    BY <1>1, KeysNames
  <2>2. QED
    BY <1>1, <2>1, FileGrows
<1>5. AsWritten(result)'
  <2>1. ASSUME NEW k \in DOMAIN result, NEW key \in Keys[kind]
        PROVE  LastGiven(k, key, result[k][key])'
    <3>1. LastGiven(k, key, result[k][key])
      BY <1>1, AsWrittenDef
    <3>2. \A v : LastGiven(k, key, v) => LastGiven(k, key, v)'
      BY <1>1, <1>4, LastGivenSame
    <3>3. QED
      BY <1>1, <3>1, <3>2 DEF LastGiven
  <2>2. QED
    BY <1>1, <1>3, <2>1, AsWrittenDef DEF AsWritten, LastGiven, Sections
<1>6. Values' = Values
  BY <1>1 DEF Values
<1>7. LoadedAsWritten'
  BY <1>1, NotLoaded
<1>8. QED
  BY <1>1, <1>2, <1>5, <1>6, <1>7 DEF CfgInv

LEMMA NoPort == Port16(Default("backend").port)
<1>1. Default("backend") = NoAddress
  BY DEF Default
<1>2. NoAddress.port = 0
  BY DEF NoAddress
<1>3. 0 <= MaxPort
  BY DEF MaxPort
<1>4. QED
  BY <1>1, <1>2, <1>3 DEF Port16

LEMMA SectionKeeps ==
  ASSUME CfgInv, NEW l \in Lines[kind], Section(l) PROVE CfgInv'
<1> DEFINE n == Len(result)
           fresh == [key \in Keys[kind] |-> Default(key)]
<1>1. /\ kind' = kind /\ kind \in {"routes", "services"} /\ phase = "reading" /\ phase' = "reading"
      /\ result' = Append(result, fresh) /\ result \in Seq([Keys[kind] -> Values]) /\ AsWritten(result)
      /\ file \in Seq(Lines[kind]) /\ file' = Append(file, l) /\ l.key = "[]"
      /\ kind = "routes" => \A k \in DOMAIN result : Port16(result[k]["backend"].port)
  BY DEF CfgInv, Section, NextLine
<1>2. file' \in Seq(Lines[kind])
  BY <1>1
<1>3. n \in Nat /\ n = Sections /\ Sections' = n + 1
  BY <1>1, FileGrows, AsWrittenDef
<1>4. ASSUME NEW k, NEW key \in Keys[kind] PROVE Given(k, key)' = Given(k, key)
  <2>1. l.key # key
    BY <1>1, KeysNames
  <2>2. QED
    BY <1>1, <2>1, FileGrows
<1>5. fresh \in [Keys[kind] -> Values]
  BY DEF Values
<1> HIDE DEF fresh
<1>6. /\ result' \in Seq([Keys[kind] -> Values]) /\ DOMAIN result' = 1 .. n + 1
      /\ Len(result') = n + 1 /\ result'[n + 1] = fresh
      /\ \A k \in 1 .. n : k \in DOMAIN result /\ result'[k] = result[k]
  BY <1>1, <1>5
<1>7. AsWritten(result)'
  <2>1. ASSUME NEW k \in DOMAIN result', NEW key \in Keys[kind]
        PROVE  LastGiven(k, key, result[k][key])'
    <3>1. CASE k = n + 1
      <4>0. k \in Nat /\ k > Sections
        BY <1>3, <3>1
      <4>1. Given(k, key) = {}
        <5>1. \A kk \in Nat : kk > Sections => \A name : Given(kk, name) = {}
          BY <1>1, FileGrows
        <5>2. QED
          BY <4>0, <5>1
      <4>2. result'[k][key] = Default(key)
        BY <1>6, <3>1 DEF fresh
      <4>3. QED
        BY <1>4, <4>1, <4>2 DEF LastGiven
    <3>2. CASE k \in 1 .. n
      <4>1. LastGiven(k, key, result[k][key]) /\ result'[k] = result[k]
        BY <1>1, <1>6, <3>2, AsWrittenDef
      <4>2. \A v : LastGiven(k, key, v) => LastGiven(k, key, v)'
        BY <1>1, <1>4, LastGivenSame
      <4>3. QED
        BY <4>1, <4>2 DEF LastGiven
    <3>3. QED
      BY <1>3, <1>6, <3>1, <3>2
  <2>2. QED
    BY <1>1, <1>3, <1>6, <2>1 DEF AsWritten, LastGiven, Sections
<1>8. kind = "routes" => \A k \in DOMAIN result' : Port16(result'[k]["backend"].port)
  <2> SUFFICES ASSUME kind = "routes", NEW k \in DOMAIN result'
               PROVE  Port16(result'[k]["backend"].port)
    OBVIOUS
  <2>1. CASE k = n + 1
    <3>1. result'[k]["backend"] = Default("backend")
      BY <1>1, <1>6, <2>1, KeysNames DEF fresh
    <3>2. QED
      BY <3>1, NoPort
  <2>2. CASE k \in 1 .. n
    BY <1>1, <1>6, <2>2
  <2>3. QED
    BY <1>3, <1>6, <2>1, <2>2
<1>9. Values' = Values
  BY <1>1 DEF Values
<1>10. LoadedAsWritten'
  BY <1>1, NotLoaded
<1>11. QED
  BY <1>1, <1>2, <1>6, <1>7, <1>8, <1>9, <1>10 DEF CfgInv

LEMMA AssignKeeps ==
  ASSUME CfgInv, NEW l \in Lines[kind], Assign(l) PROVE CfgInv'
<1> DEFINE n == Len(result)
           N == Len(file)
           v == Convert(l.key, l.val)
           Kept == l.key = "path" /\ l.val = <<>>
<1>1. /\ kind' = kind /\ kind \in {"routes", "services"} /\ phase = "reading" /\ phase' = "reading"
      /\ result' = IF Kept THEN result ELSE [result EXCEPT ![n][l.key] = v]
      /\ result \in Seq([Keys[kind] -> Values]) /\ AsWritten(result) /\ result # <<>>
      /\ file \in Seq(Lines[kind]) /\ file' = Append(file, l) /\ l.key \in Keys[kind]
      /\ Valid(l.key, l.val)
      /\ kind = "routes" => \A k \in DOMAIN result : Port16(result[k]["backend"].port)
  BY DEF CfgInv, Assign, NextLine
<1>2. /\ file' \in Seq(Lines[kind]) /\ N \in Nat /\ file'[N + 1] = l
  BY <1>1
<1>3. n \in Nat /\ n > 0 /\ n = Sections /\ Sections' = n
  <2>1. l.key # "[]"
    BY <1>1, KeysNames
  <2>2. n \in Nat /\ n > 0
    BY <1>1
  <2>3. QED
    BY <1>1, <2>1, <2>2, FileGrows, AsWrittenDef
<1>4. v \in Values
  BY DEF Values
<1>5. /\ Means(l.key, l.val, v)
      /\ l.key = "backend" => Port16(v.port)
  BY <1>1, ConvertMeans
<1> HIDE DEF v
<1>6. /\ result' \in Seq([Keys[kind] -> Values]) /\ Len(result') = n /\ DOMAIN result' = 1 .. n
      /\ DOMAIN result = 1 .. n
      /\ \A k \in 1 .. n, key \in Keys[kind] :
           result'[k][key] = IF k = n /\ key = l.key /\ ~Kept THEN v ELSE result[k][key]
  <2>1. CASE Kept
    BY <1>1, <2>1
  <2>2. CASE ~Kept
    <3> DEFINE R == [Keys[kind] -> Values]
               e == [result[n] EXCEPT ![l.key] = v]
    <3>1. result[n] \in R
      BY <1>1, <1>3
    <3>2. e \in R /\ \A key \in Keys[kind] : e[key] = IF key = l.key THEN v ELSE result[n][key]
      BY <1>1, <1>4, <3>1
    <3>3. result' = [result EXCEPT ![n] = e]
      BY <1>1, <2>2
    <3> HIDE DEF R, e
    <3>4. result \in Seq(R)
      BY <1>1 DEF R
    <3>5. /\ result' \in Seq(R) /\ Len(result') = n /\ DOMAIN result' = 1 .. n
          /\ DOMAIN result = 1 .. n
          /\ \A k \in 1 .. n : result'[k] = IF k = n THEN e ELSE result[k]
      BY <1>3, <3>2, <3>3, <3>4
    <3>6. QED
      BY <2>2, <3>2, <3>5 DEF R
  <2>3. QED
    BY <2>1, <2>2
<1>7. AsWritten(result)'
  <2>1. ASSUME NEW k \in DOMAIN result', NEW key \in Keys[kind]
        PROVE  LastGiven(k, key, result[k][key])'
    <3>1. CASE k = n /\ key = l.key /\ ~Kept
      <4>1. Given(k, key)' = Given(k, key) \cup {N + 1}
        BY <1>1, <1>3, <3>1, FileGrows
      <4>2. \A j \in Given(k, key) : j \in 1 .. N
        BY <1>1, FileGrows
      <4>3. \A j \in Given(k, key)' : j <= N + 1
        BY <1>2, <4>1, <4>2
      <4>4. Means(key, file'[N + 1].val, v) /\ result'[k][key] = v
        <5>1. k \in 1 .. n
          BY <1>6
        <5>2. result'[k][key] = v
          BY <1>6, <3>1, <5>1
        <5>3. file'[N + 1].val = l.val
          BY <1>2
        <5>4. QED
          BY <1>5, <3>1, <5>2, <5>3
      <4>5. N + 1 \in Given(k, key)'
        BY <4>1
      <4> HIDE DEF N, Kept
      <4>6. QED
        BY <4>3, <4>4, <4>5 DEF LastGiven
    <3>2. CASE ~(k = n /\ key = l.key /\ ~Kept)
      <4>1. LastGiven(k, key, result[k][key]) /\ result'[k][key] = result[k][key]
        BY <1>1, <1>6, <3>2, AsWrittenDef
      <4>2. Given(k, key)' = Given(k, key)
        BY <1>1, <1>3, <3>2, FileGrows
      <4>3. \A w : LastGiven(k, key, w) => LastGiven(k, key, w)'
        BY <1>1, <4>2, LastGivenSame
      <4>4. QED
        BY <4>1, <4>3 DEF LastGiven
    <3>3. QED
      BY <3>1, <3>2
  <2>2. QED
    BY <1>1, <1>3, <1>6, <2>1 DEF AsWritten, LastGiven, Sections
<1>8. kind = "routes" => \A k \in DOMAIN result' : Port16(result'[k]["backend"].port)
  <2>1. kind = "routes" => "backend" \in Keys[kind]
    BY <1>1, KeysNames
  <2> SUFFICES ASSUME kind = "routes", NEW k \in DOMAIN result'
               PROVE  Port16(result'[k]["backend"].port)
    OBVIOUS
  <2>2. k \in 1 .. n /\ Port16(result[k]["backend"].port)
    BY <1>1, <1>6
  <2>3. (result'[k]["backend"] = v /\ l.key = "backend") \/ result'[k]["backend"] = result[k]["backend"]
    BY <1>6, <2>1, <2>2
  <2>4. QED
    BY <1>5, <2>2, <2>3
<1>9. Values' = Values
  BY <1>1 DEF Values
<1>10. LoadedAsWritten'
  BY <1>1, NotLoaded
<1>11. QED
  BY <1>1, <1>2, <1>6, <1>7, <1>8, <1>9, <1>10 DEF CfgInv

LEMMA EndKeeps ==
  ASSUME CfgInv, EndOfFile PROVE CfgInv'
<1>1. /\ kind' = kind /\ kind \in {"routes", "services"} /\ file' = file
      /\ phase = "reading" /\ phase' # "reading" /\ file \in Seq(Lines[kind])
      /\ result \in Seq([Keys[kind] -> Values]) /\ AsWritten(result)
      /\ kind = "routes" => \A k \in DOMAIN result : Port16(result[k]["backend"].port)
  BY DEF CfgInv, EndOfFile
<1>2. CASE AllComplete
  <2>1. table' = result
    BY <1>2 DEF EndOfFile
  <2>2. AsWritten(table)'
    <3>1. kind' = kind /\ file' = file /\ AsWritten(result)
      BY <1>1
    <3>2. /\ CountTo(Headers, Len(file))' = CountTo(Headers, Len(file))
          /\ \A k, key : Given(k, key)' = Given(k, key)
      BY <3>1 DEF Given, Headers
    <3>3. QED
      BY <2>1, <3>1, <3>2 DEF AsWritten
  <2>3. ASSUME NEW i \in DOMAIN table'
        PROVE  IF kind = "routes"
               THEN /\ table'[i].backend.host # ""
                    /\ 0 < table'[i].backend.port /\ table'[i].backend.port <= MaxPort
               ELSE table'[i].exec = "absolute"
    <3>1. Complete(result[i])
      BY <1>2, <2>1 DEF AllComplete
    <3>2. CASE kind = "routes"
      <4>1. Port16(result[i].backend.port)
        BY <1>1, <2>1, <3>2
      <4>2. result[i].backend.host # "" /\ result[i].backend.port # 0
        BY <3>1, <3>2 DEF Complete
      <4>3. \A p : Port16(p) /\ p # 0 => 0 < p /\ p <= MaxPort
        BY DEF Port16
      <4>4. QED
        BY <2>1, <3>2, <4>1, <4>2, <4>3
    <3>3. CASE kind # "routes"
      BY <2>1, <3>1, <3>3 DEF Complete
    <3>4. QED
      BY <3>2, <3>3
  <2>4. LoadedAsWritten'
    BY <1>1, <2>2, <2>3 DEF LoadedAsWritten
  <2>5. QED
    BY <1>1, <2>4 DEF CfgInv
<1>3. CASE ~AllComplete
  <2>1. phase' = "failed"
    BY <1>3 DEF EndOfFile
  <2>2. LoadedAsWritten'
    BY <2>1, NotLoaded
  <2>3. QED
    BY <1>1, <2>2 DEF CfgInv
<1>4. QED
  BY <1>2, <1>3

LEMMA CannotOpenKeeps ==
  ASSUME CfgInv, CannotOpen PROVE CfgInv'
<1>1. kind' = kind /\ file' = file /\ phase' = "failed"
  BY DEF CannotOpen
<1>2. LoadedAsWritten'
  BY <1>1, NotLoaded
<1>3. QED
  BY <1>1, <1>2 DEF CfgInv

LEMMA BadKeeps ==
  ASSUME CfgInv, NEW l \in Lines[kind], BadLine(l) PROVE CfgInv'
  BY LineKept DEF BadLine

LEMMA StutterKeeps ==
  ASSUME CfgInv, UNCHANGED cfgVars PROVE CfgInv'
<1>1. /\ kind' = kind /\ file' = file /\ result' = result /\ phase' = phase /\ table' = table
  BY DEF cfgVars
<1>2. Values' = Values
  BY <1>1 DEF Values
<1>3. AsWritten(result)' <=> AsWritten(result)
  BY <1>1 DEF AsWritten, Given, Headers
<1>4. AsWritten(table)' <=> AsWritten(table)
  BY <1>1 DEF AsWritten, Given, Headers
<1>5. LoadedAsWritten'
  BY <1>1, <1>4 DEF LoadedAsWritten, CfgInv
<1>6. QED
  BY <1>1, <1>2, <1>3, <1>5 DEF CfgInv

LEMMA CfgStart == CInit => CfgInv
<1> SUFFICES ASSUME CInit PROVE CfgInv
  OBVIOUS
<1>1. kind \in {"routes", "services"} /\ file = <<>> /\ result = <<>> /\ phase = "reading"
  BY DEF CInit
<1>2. AsWritten(result)
  <2>1. Headers = {}
    BY <1>1 DEF Headers
  <2>2. CountTo(Headers, Len(file)) = 0
    BY <2>1, FS_EmptySet DEF CountTo
  <2>3. QED
    BY <1>1, <2>2 DEF AsWritten
<1>3. LoadedAsWritten
  <2>1. phase # "loaded"
    BY <1>1
  <2>2. QED
    BY Zenon, <2>1 DEF LoadedAsWritten
<1>4. QED
  BY <1>1, <1>2, <1>3 DEF CfgInv

(* What Router::load and parse_services_file hand to main is what the file  *)
(* says, for files of any length over any set of lines: every value is in   *)
(* the section it was written in, the last one given for its key counts,    *)
(* no port and no number that fits an int is changed by strtol or a cast,   *)
(* split_args splits where the text says, and no section without a backend  *)
(* or a program is let through.                                             *)
THEOREM LoadsWhatIsWritten == CSpec => []LoadedAsWritten
<1>1. CfgInv /\ [CNext]_cfgVars => CfgInv'
  BY SkipKeeps, SectionKeeps, AssignKeeps, BadKeeps, CannotOpenKeeps, EndKeeps, StutterKeeps
  DEF CNext
<1>2. CfgInv => LoadedAsWritten
  BY DEF CfgInv
<1>3. QED
  BY <1>1, <1>2, CfgStart, PTL DEF CSpec

-----------------------------------------------------------------------------
(* Router: for every routing table and every request, match() picks the      *)
(* route the README promises.                                                *)

(* What holds after each round: the best of the routes looked at so far. *)
RInv == RTypeOK /\ BestOf(at - 1)

(* The code's comparison of normalized texts is the comparison of names. *)
LEMMA AppliesServes ==
  ASSUME RTypeOK, NEW i \in 1 .. Len(routes)
  PROVE  Applies(routes[i]) <=> Serves(i)
<1>1. routes[i] \in Route
  BY DEF RTypeOK
<1>2. CASE routes[i].host = AnyHost
  BY <1>2 DEF Applies, Serves
<1>3. CASE routes[i].host # AnyHost
  <2>1. routes[i].host \in [name : Names, port : {"yes", "no"}, spelling : {"lower"}]
    BY <1>1, <1>3 DEF Route
  <2>2. (routes[i].host = Normalized(request.host))
          <=> (routes[i].host.name = request.host.name /\ routes[i].host.port = "no")
    BY <2>1 DEF Normalized
  <2>3. QED
    BY <1>3, <2>2 DEF Applies, Serves
<1>4. QED
  BY <1>2, <1>3

(* The code's tie-break is the order of ranks. *)
LEMMA BeatsRank ==
  ASSUME RTypeOK, NEW i \in 1 .. Len(routes), NEW j \in 1 .. Len(routes)
  PROVE  /\ Rank(i) \in Nat
         /\ Beats(routes[i], routes[j]) <=> Rank(i) > Rank(j)
<1>1. routes[i] \in Route /\ routes[j] \in Route
  BY DEF RTypeOK
<1>2. Len(routes[i].path) \in Nat /\ Len(routes[j].path) \in Nat
  BY <1>1 DEF Route
<1> DEFINE a == Len(routes[i].path)
           b == Len(routes[j].path)
<1>3. a \in Nat /\ b \in Nat
  BY <1>2
<1>4. /\ routes[i].host = AnyHost => Rank(i) = 2 * a
      /\ routes[i].host # AnyHost => Rank(i) = 2 * a + 1
      /\ routes[j].host = AnyHost => Rank(j) = 2 * b
      /\ routes[j].host # AnyHost => Rank(j) = 2 * b + 1
  BY <1>3 DEF Rank
<1>5. Beats(routes[i], routes[j])
        <=> (a > b \/ (a = b /\ routes[j].host = AnyHost /\ routes[i].host # AnyHost))
  BY DEF Beats
<1> HIDE DEF a, b
<1>6. CASE routes[i].host = AnyHost
  BY <1>3, <1>4, <1>5, <1>6
<1>7. CASE routes[i].host # AnyHost
  BY <1>3, <1>4, <1>5, <1>7
<1>8. QED
  BY <1>6, <1>7

LEMMA RInitInv == RInit => RInv
<1>1. SUFFICES ASSUME RInit PROVE RInv
  OBVIOUS
<1>2. routes \in Seq(Route) /\ request \in Request
  BY <1>1, RouterAssumption DEF RInit
<1>3. Len(routes) \in Nat
  BY <1>2
<1>4. QED
  BY <1>1, <1>2, <1>3 DEF RInit, RInv, RTypeOK, BestOf

LEMMA RNextInv == RInv /\ [RNext]_routerVars => RInv'
<1>1. SUFFICES ASSUME RInv, [RNext]_routerVars PROVE RInv'
  OBVIOUS
<1>2. CASE UNCHANGED routerVars
  BY <1>1, <1>2 DEF RInv, RTypeOK, BestOf, Serves, Rank, routerVars
<1>3. CASE LookAtRoute
  <2>1. /\ Len(routes) \in Nat /\ at \in 1 .. Len(routes) /\ at' = at + 1
        /\ routes' = routes /\ request' = request /\ best \in 0 .. at - 1
    BY <1>1, <1>3 DEF LookAtRoute, RInv, RTypeOK
  <2>2. RTypeOK'
    BY <1>1, <1>3, <2>1 DEF LookAtRoute, RInv, RTypeOK
  <2> DEFINE Best(b, n) ==
        IF b = 0 THEN \A i \in 1 .. n : ~Serves(i)
        ELSE /\ Serves(b)
             /\ \A i \in 1 .. n :
                  Serves(i) => Rank(i) < Rank(b) \/ (Rank(i) = Rank(b) /\ b <= i)
  <2>3. BestOf(at - 1)' <=> Best(best', at)
    BY <2>1 DEF BestOf, Serves, Rank
  <2>4. Best(best, at - 1)
    BY <1>1 DEF RInv, BestOf
  <2>5. \A i, j \in 1 .. Len(routes) :
          Rank(i) \in Nat /\ (Beats(routes[i], routes[j]) <=> Rank(i) > Rank(j))
    BY <1>1, BeatsRank DEF RInv
  <2>6. Applies(routes[at]) <=> Serves(at)
    BY <1>1, <2>1, AppliesServes DEF RInv
  <2>7. ASSUME best' = best, ~Serves(at) PROVE Best(best', at)
    BY <2>1, <2>4, <2>7
  <2>8. ASSUME best' = best, best # 0, ~Beats(routes[at], routes[best]) PROVE Best(best', at)
    BY <2>1, <2>4, <2>5, <2>8
  <2>9. ASSUME best' = at, Serves(at), best = 0 \/ Beats(routes[at], routes[best])
        PROVE  Best(best', at)
    BY <2>1, <2>4, <2>5, <2>9
  <2>10. BestOf(at - 1)'
    <3>1. CASE Serves(at) /\ (best = 0 \/ Beats(routes[at], routes[best]))
      BY <1>3, <2>3, <2>6, <2>9, <3>1 DEF LookAtRoute
    <3>2. CASE ~Serves(at) \/ (best # 0 /\ ~Beats(routes[at], routes[best]))
      BY <1>3, <2>3, <2>6, <2>7, <2>8, <3>2 DEF LookAtRoute
    <3>3. QED
      BY <3>1, <3>2
  <2>11. QED
    BY <2>2, <2>10 DEF RInv
<1>4. QED
  BY <1>1, <1>2, <1>3 DEF RNext

(* Router::match, for every table and every request: the loop ends with the  *)
(* most specific route, although it keeps only one candidate at a time.      *)
THEOREM MatchIsMostSpecific == RSpec => [](RTypeOK /\ MostSpecific)
<1>1. RInv => RTypeOK /\ MostSpecific
  <2>1. SUFFICES ASSUME RInv, at = Len(routes) + 1 PROVE BestOf(Len(routes))
    BY DEF RInv, MostSpecific
  <2>2. at - 1 = Len(routes)
    BY <2>1 DEF RInv, RTypeOK
  <2>3. QED
    BY <2>1, <2>2 DEF RInv
<1>2. QED
  BY <1>1, RInitInv, RNextInv, PTL DEF RSpec
-----------------------------------------------------------------------------
(* EchoConnection: for every socket buffer and any number of units.          *)

EchoTypes ==
  /\ sock \in [rcv : 0..SendBuf, snd : 0..SendBuf, fin : BOOLEAN, err : BOOLEAN, edge : BOOLEAN]
  /\ echo \in [alive : BOOLEAN, out : Nat, want_write : BOOLEAN, closing : BOOLEAN]
  /\ loop \in [at : {"wait", "read", "flush", "close"}, out : BOOLEAN, close : BOOLEAN]
  /\ sent \in Nat /\ got \in Nat

(* What the peer sent is in one of four places, with the peer at the end.  *)
NoneLost == sent = sock.rcv + echo.out + sock.snd + got

(* closing_ is set after the last byte was read, and flush closes only     *)
(* when it has written the last one.                                       *)
ClosesLast ==
  /\ echo.closing => sock.fin /\ sock.rcv = 0
  /\ (~echo.alive \/ loop.at = "close") => sock.err \/ (echo.closing /\ echo.out = 0)

(* What the loop knows at each place, when no edge came in meanwhile.      *)
Noticed ==
  /\ At("read") /\ ~sock.edge => ~sock.err
  /\ At("flush") /\ ~sock.edge => ~sock.err /\ sock.rcv = 0 /\ (sock.fin => echo.closing)
  /\ At("wait") /\ echo.out > 0 => echo.want_write

EchoInv == EchoTypes /\ NoneLost /\ ClosesLast /\ Noticed /\ EchoAwake
-----------------------------------------------------------------------------
\* The new connection satisfies it.
LEMMA EchoInvInit == EInit => EchoInv
  BY EchoAssumption
  DEF EInit, EchoInv, EchoTypes, NoneLost, ClosesLast, Noticed, EchoAwake, At

\* Types, and the account of the units.
LEMMA UnitsKept ==
  ASSUME EchoTypes, NoneLost, ENext
  PROVE  EchoTypes' /\ NoneLost'
<1>1. CASE EEpollWait
  BY <1>1 DEF EchoTypes, NoneLost, EEpollWait
<1>2. CASE EReadData
  BY <1>2, EchoAssumption DEF EchoTypes, NoneLost, EReadData
<1>3. CASE EReadEnd \/ EFails \/ EClose
  BY <1>3 DEF EchoTypes, NoneLost, EReadEnd, EFails, EClose
<1>4. CASE EWriteSome
  BY <1>4, EchoAssumption DEF EchoTypes, NoneLost, EWriteSome
<1>5. CASE EFlushEnd
  <2> DEFINE closes == echo.out = 0 /\ echo.closing
             arms == ~closes /\ Wants # echo.want_write
                       /\ (Readable \/ Writable(Wants) \/ sock.err)
             e == sock.edge \/ arms
  <2>1. /\ sock' = [sock EXCEPT !.edge = e]
        /\ echo' = IF closes THEN echo ELSE [echo EXCEPT !.want_write = Wants]
        /\ loop' = [loop EXCEPT !.at = IF closes THEN "close" ELSE IF loop.out THEN "flush" ELSE "wait",
                                !.out = FALSE]
        /\ sent' = sent /\ got' = got
    BY <1>5 DEF EFlushEnd
  <2>2. e \in BOOLEAN /\ Wants \in BOOLEAN
    BY DEF Wants
  <2> HIDE DEF closes, arms, e
  <2>3. EchoTypes'
    BY <2>1, <2>2 DEF EchoTypes
  <2>4. sock'.rcv = sock.rcv /\ sock'.snd = sock.snd /\ echo'.out = echo.out
    BY <2>1 DEF EchoTypes
  <2>5. QED
    BY <2>1, <2>3, <2>4 DEF NoneLost
<1>6. CASE EPeerSends
  <2>1. PICK n \in 0..SendBuf :
          n = sock.rcv + 1 /\ sock' = [sock EXCEPT !.rcv = n, !.edge = TRUE]
    <3>1. sock.rcv + 1 \in 0..SendBuf
      BY <1>6, EchoAssumption DEF EchoTypes, EPeerSends
    <3>2. sock' = [sock EXCEPT !.rcv = sock.rcv + 1, !.edge = TRUE]
      BY <1>6 DEF EchoTypes, EPeerSends, Edge
    <3>3. QED
      BY <3>1, <3>2, Zenon
  <2>2. echo' = echo /\ loop' = loop /\ sent' = sent + 1 /\ got' = got
    BY <1>6 DEF EPeerSends, Edge
  <2>3. /\ sock'.rcv = n /\ sock'.snd = sock.snd
        /\ sock' \in [rcv : 0..SendBuf, snd : 0..SendBuf,
                     fin : BOOLEAN, err : BOOLEAN, edge : BOOLEAN]
    BY <2>1 DEF EchoTypes
  <2>4. QED
    BY <2>1, <2>2, <2>3 DEF NoneLost, EchoTypes
<1>7. CASE EPeerCloses \/ EPeerResets
  BY <1>7 DEF EchoTypes, NoneLost, EPeerCloses, EPeerResets, Edge
<1>8. CASE EPeerReads
  <2>1. PICK n \in 0..SendBuf, e \in BOOLEAN :
          n = sock.snd - 1 /\ sock' = [sock EXCEPT !.snd = n, !.edge = e]
    <3>1. sock.snd - 1 \in 0..SendBuf
      BY <1>8, EchoAssumption DEF EchoTypes, EPeerReads
    <3>2. (sock.edge \/ (sock.snd = SendBuf /\ echo.want_write)) \in BOOLEAN
      OBVIOUS
    <3>3. QED
      BY <1>8, <3>1, <3>2, Zenon DEF EPeerReads
  <2>2. echo' = echo /\ loop' = loop /\ sent' = sent /\ got' = got + 1
    BY <1>8 DEF EPeerReads
  <2>3. /\ sock'.rcv = sock.rcv /\ sock'.snd = n
        /\ sock' \in [rcv : 0..SendBuf, snd : 0..SendBuf,
                     fin : BOOLEAN, err : BOOLEAN, edge : BOOLEAN]
    BY <2>1 DEF EchoTypes
  <2>4. QED
    BY <2>1, <2>2, <2>3 DEF NoneLost, EchoTypes
<1>9. QED
  BY <1>1, <1>2, <1>3, <1>4, <1>5, <1>6, <1>7, <1>8 DEF ENext

\* Every step keeps the invariant.
LEMMA EchoInvNext ==
  ASSUME EchoInv, [ENext]_echoVars
  PROVE  EchoInv'
<1>1. CASE UNCHANGED echoVars
  BY <1>1 DEF echoVars, EchoInv, EchoTypes, NoneLost, ClosesLast, Noticed, EchoAwake, At
<1>2. CASE ENext
  <2>1. EchoTypes /\ EchoTypes' /\ NoneLost'
    BY <1>2, UnitsKept DEF EchoInv
  <2>2. CASE EEpollWait
    <3>1. /\ echo' = echo /\ echo.alive /\ loop.at = "wait"
          /\ sock'.edge = FALSE /\ sock'.err = sock.err /\ sock'.fin = sock.fin
          /\ sock'.rcv = sock.rcv /\ sock'.snd = sock.snd
          /\ loop'.at = IF sock.err THEN "close" ELSE IF sock.rcv > 0 \/ sock.fin THEN "read"
                        ELSE IF echo.want_write /\ sock.snd < SendBuf THEN "flush" ELSE "wait"
      BY <2>1, <2>2 DEF EchoTypes, EEpollWait, At, Readable, Writable
    <3>2. sock.rcv \in 0..SendBuf /\ sock.snd \in 0..SendBuf
      BY <2>1 DEF EchoTypes
    <3>3. ClosesLast'
      BY <3>1 DEF EchoInv, ClosesLast
    <3>4. Noticed'
      BY <3>1, <3>2, EchoAssumption DEF EchoInv, Noticed, At
    <3>5. EchoAwake'
      BY <3>1, <3>2, EchoAssumption DEF EchoInv, Noticed, EchoAwake, At
    <3>6. QED
      BY <2>1, <3>3, <3>4, <3>5 DEF EchoInv
  <2>3. CASE EReadData
    BY <2>1, <2>3 DEF EchoInv, EchoTypes, ClosesLast, Noticed, EchoAwake, At, EReadData
  <2>4. CASE EReadEnd
    BY <2>1, <2>4 DEF EchoInv, EchoTypes, ClosesLast, Noticed, EchoAwake, At, EReadEnd
  <2>5. CASE EFails
    BY <2>1, <2>5 DEF EchoInv, EchoTypes, ClosesLast, Noticed, EchoAwake, At, EFails
  <2>6. CASE EWriteSome
    BY <2>1, <2>6 DEF EchoInv, EchoTypes, ClosesLast, Noticed, EchoAwake, At, EWriteSome
  <2>7. CASE EFlushEnd
    BY <2>1, <2>7 DEF EchoInv, EchoTypes, ClosesLast, Noticed, EchoAwake, At, EFlushEnd, Wants,
                      Readable, Writable
  <2>8. CASE EClose
    BY <2>1, <2>8 DEF EchoInv, EchoTypes, ClosesLast, Noticed, EchoAwake, At, EClose
  <2>9. CASE EPeerSends
    BY <2>1, <2>9 DEF EchoInv, EchoTypes, ClosesLast, Noticed, EchoAwake, At, EPeerSends, Edge
  <2>10. CASE EPeerCloses
    BY <2>1, <2>10 DEF EchoInv, EchoTypes, ClosesLast, Noticed, EchoAwake, At, EPeerCloses, Edge
  <2>11. CASE EPeerResets
    BY <2>1, <2>11 DEF EchoInv, EchoTypes, ClosesLast, Noticed, EchoAwake, At, EPeerResets, Edge
  <2>12. CASE EPeerReads
    BY <2>1, <2>12 DEF EchoInv, EchoTypes, ClosesLast, Noticed, EchoAwake, At, EPeerReads
  <2>13. QED
    BY <1>2, <2>2, <2>3, <2>4, <2>5, <2>6, <2>7, <2>8, <2>9, <2>10, <2>11, <2>12 DEF ENext
<1>3. QED
  BY <1>1, <1>2

\* The inductive invariant holds throughout.
LEMMA EchoInvariant == ESpec => []EchoInv
  BY EchoInvInit, EchoInvNext, PTL DEF ESpec
-----------------------------------------------------------------------------
(* on_readable and flush: whatever the peer's pace and however small the   *)
(* socket buffer, a connection that ends without an error has echoed all.  *)
THEOREM EchoesWhole == ESpec => []EchoedWhole
<1>1. EchoInv => EchoedWhole
  BY EchoAssumption DEF EchoInv, EchoTypes, NoneLost, ClosesLast, EchoedWhole
<1>2. QED
  BY <1>1, EchoInvariant, PTL

(* The edge-triggered loop never waits on work it was told of already.     *)
THEOREM EchoNeverStalls == ESpec => []EchoAwake
<1>1. EchoInv => EchoAwake
  BY DEF EchoInv
<1>2. QED
  BY <1>1, EchoInvariant, PTL
=============================================================================
