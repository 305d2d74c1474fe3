--------------------------- MODULE SproutsProofs ---------------------------
(***************************************************************************)
(* What holds of every game of Sprouts, for any number of circles and any  *)
(* strokes.  gameoverChecker adds up crossings over all circles and paths, *)
(* so first come the lemmas about such sums (Total), then what a line does *)
(* to the sum of the ends that are left, then the invariant and one lemma  *)
(* for each handler.                                                       *)
(***************************************************************************)
EXTENDS Sprouts, FiniteSetTheorems, TLAPS

(***************************************************************************)
(* Lists of counts.  What a list counts is a set of pairs, one for each    *)
(* place and number up to the count of that place.                         *)
(***************************************************************************)
Counts(f) == UNION {{i} \X (1 .. f[i]) : i \in DOMAIN f}

\* A pair belongs to one place.
LEMMA CountsIs ==
    ASSUME NEW S, NEW f \in [S -> Nat]
    PROVE  Counts(f) = {e \in S \X Nat : e[2] \in 1 .. f[e[1]]}
<1>1. ASSUME NEW e, e \in Counts(f) PROVE e \in S \X Nat /\ e[2] \in 1 .. f[e[1]]
  <2>1. PICK i \in S : e \in {i} \X (1 .. f[i])
    BY <1>1 DEF Counts
  <2>2. e = <<i, e[2]>> /\ e[2] \in 1 .. f[i] /\ f[i] \in Nat
    BY <2>1
  <2>3. QED  BY <2>2
<1>2. ASSUME NEW e \in S \X Nat, e[2] \in 1 .. f[e[1]] PROVE e \in Counts(f)
  <2>1. e[1] \in DOMAIN f /\ e \in {e[1]} \X (1 .. f[e[1]])
    BY <1>2
  <2>2. QED  BY <2>1 DEF Counts
<1>3. QED  BY <1>1, <1>2

\* The numbers of one place are as many as its count.
LEMMA OnePlace ==
    ASSUME NEW i, NEW n \in Nat
    PROVE  IsFiniteSet({i} \X (1 .. n)) /\ Cardinality({i} \X (1 .. n)) = n
<1>1. IsFiniteSet(1 .. n) /\ Cardinality(1 .. n) = n
  BY FS_Interval
<1>2. IsFiniteSet({i}) /\ Cardinality({i}) = 1
  BY FS_Singleton
<1>3. QED  BY <1>1, <1>2, FS_Product

\* Two finite sets that share nothing.
LEMMA Apart ==
    ASSUME NEW A, NEW B, IsFiniteSet(A), IsFiniteSet(B), A \cap B = {}
    PROVE  IsFiniteSet(A \cup B) /\ Cardinality(A \cup B) = Cardinality(A) + Cardinality(B)
<1>1. IsFiniteSet(A \cup B)
      /\ Cardinality(A \cup B) = Cardinality(A) + Cardinality(B) - Cardinality(A \cap B)
  BY FS_Union
<1>2. Cardinality(A \cap B) = 0 /\ Cardinality(A) \in Nat /\ Cardinality(B) \in Nat
  BY FS_EmptySet, FS_CardinalityType
<1>3. QED  BY <1>1, <1>2

\* A list counts finitely many.
LEMMA TotalType ==
    ASSUME NEW n \in Nat, NEW f \in [1 .. n -> Nat]
    PROVE  IsFiniteSet(Counts(f)) /\ Total(f) = Cardinality(Counts(f)) /\ Total(f) \in Nat
<1> DEFINE place(i) == {i} \X (1 .. f[i])
           T == {place(i) : i \in 1 .. n}
           g == [i \in 1 .. n |-> place(i)]
<1>1. \A i \in 1 .. n : IsFiniteSet(place(i))
  BY OnePlace
<1> HIDE DEF place
<1>2. g \in Surjection(1 .. n, T)
  BY DEF Surjection
<1>3. IsFiniteSet(T)
  BY <1>2, FS_Interval, FS_Surjection
<1>4. IsFiniteSet(UNION T)
  BY <1>1, <1>3, FS_UNION
<1>5. Counts(f) = UNION T
  BY DEF Counts, place
<1>6. IsFiniteSet(Counts(f))
  BY <1>4, <1>5
<1>7. Total(f) = Cardinality(Counts(f))
  BY DEF Total, Counts
<1>8. QED  BY <1>6, <1>7, FS_CardinalityType

\* Changing one count changes the total by as much.
LEMMA TotalChanges ==
    ASSUME NEW n \in Nat, NEW f \in [1 .. n -> Nat], NEW i \in 1 .. n, NEW x \in Nat
    PROVE  Total([f EXCEPT ![i] = x]) = Total(f) - f[i] + x
<1> DEFINE g == [f EXCEPT ![i] = x]
           rest == {e \in Counts(f) : e[1] # i}
<1>1. g \in [1 .. n -> Nat] /\ g[i] = x /\ \A j \in 1 .. n : j # i => g[j] = f[j]
  OBVIOUS
<1> HIDE DEF g
<1>2. IsFiniteSet(rest) /\ Cardinality(rest) \in Nat
  BY TotalType, FS_Subset, FS_CardinalityType
<1>3. Counts(f) = {e \in (1 .. n) \X Nat : e[2] \in 1 .. f[e[1]]}
      /\ Counts(g) = {e \in (1 .. n) \X Nat : e[2] \in 1 .. g[e[1]]}
  BY <1>1, CountsIs
<1>4. Counts(f) = rest \cup ({i} \X (1 .. f[i]))
  <2>1. f[i] \in Nat
    OBVIOUS
  <2>2. QED  BY <1>3, <2>1
<1>5. Counts(g) = rest \cup ({i} \X (1 .. x))
  <2>1. \A e \in Counts(g) : e \in rest \cup ({i} \X (1 .. x))
    BY <1>1, <1>3
  <2>2. \A e \in rest : e \in Counts(g)
    BY <1>1, <1>3
  <2>3. \A e \in {i} \X (1 .. x) : e \in Counts(g)
    BY <1>1, <1>3
  <2>4. QED  BY <2>1, <2>2, <2>3
<1> DEFINE was == {i} \X (1 .. f[i])
           is == {i} \X (1 .. x)
<1>6. rest \cap was = {} /\ rest \cap is = {}
  OBVIOUS
<1>7. f[i] \in Nat /\ IsFiniteSet(was) /\ Cardinality(was) = f[i]
      /\ IsFiniteSet(is) /\ Cardinality(is) = x
  BY OnePlace
<1> HIDE DEF rest, was, is
<1>8. Cardinality(Counts(f)) = Cardinality(rest) + f[i]
  <2>1. Cardinality(rest \cup was) = Cardinality(rest) + Cardinality(was)
    BY <1>2, <1>6, <1>7, Apart
  <2>2. QED  BY <1>4, <1>7, <2>1 DEF was
<1>9. Cardinality(Counts(g)) = Cardinality(rest) + x
  <2>1. Cardinality(rest \cup is) = Cardinality(rest) + Cardinality(is)
    BY <1>2, <1>6, <1>7, Apart
  <2>2. QED  BY <1>5, <1>7, <2>1 DEF is
<1>10. Total(f) = Cardinality(Counts(f)) /\ Total(g) = Cardinality(Counts(g))
  BY <1>1, TotalType
<1>11. Total(g) = Total(f) - f[i] + x
  BY <1>2, <1>7, <1>8, <1>9, <1>10
<1>12. QED  BY <1>11 DEF g

\* Another count at the end of a list is added to the total.
LEMMA TotalAppends ==
    ASSUME NEW n \in Nat, NEW f \in [1 .. n -> Nat], NEW x \in Nat,
           NEW g \in [1 .. n + 1 -> Nat], \A j \in 1 .. n : g[j] = f[j], g[n + 1] = x
    PROVE  Total(g) = Total(f) + x
<1> DEFINE more == {n + 1} \X (1 .. x)
<1>1. Counts(f) = {e \in (1 .. n) \X Nat : e[2] \in 1 .. f[e[1]]}
      /\ Counts(g) = {e \in (1 .. n + 1) \X Nat : e[2] \in 1 .. g[e[1]]}
  BY CountsIs
<1>2. Counts(g) = Counts(f) \cup more
  <2>1. \A e \in Counts(g) : e \in Counts(f) \cup more
    BY <1>1
  <2>2. \A e \in Counts(f) \cup more : e \in Counts(g)
    BY <1>1
  <2>3. QED  BY <2>1, <2>2
<1>3. Counts(f) \cap more = {}
  BY <1>1
<1>4. IsFiniteSet(more) /\ Cardinality(more) = x
  BY OnePlace
<1> HIDE DEF more
<1>5. IsFiniteSet(Counts(f)) /\ Total(f) = Cardinality(Counts(f))
      /\ Total(g) = Cardinality(Counts(g))
  BY TotalType
<1>6. Cardinality(Counts(f) \cup more) = Cardinality(Counts(f)) + Cardinality(more)
  BY <1>3, <1>4, <1>5, Apart
<1>7. QED  BY <1>2, <1>4, <1>5, <1>6

\* Lists are added place by place.
LEMMA TotalAdds ==
    ASSUME NEW n \in Nat, NEW f \in [1 .. n -> Nat], NEW g \in [1 .. n -> Nat],
           NEW h \in [1 .. n -> Nat], \A i \in 1 .. n : h[i] = f[i] + g[i]
    PROVE  Total(h) = Total(f) + Total(g)
<1> DEFINE B == Counts(h) \ Counts(f)
           up == [e \in Counts(g) |-> <<e[1], e[2] + f[e[1]]>>]
<1>1. Counts(f) = {e \in (1 .. n) \X Nat : e[2] \in 1 .. f[e[1]]}
      /\ Counts(g) = {e \in (1 .. n) \X Nat : e[2] \in 1 .. g[e[1]]}
      /\ Counts(h) = {e \in (1 .. n) \X Nat : e[2] \in 1 .. h[e[1]]}
  BY CountsIs
<1>2. up \in [Counts(g) -> B]
  BY <1>1
<1>3. ASSUME NEW d \in Counts(g), NEW e \in Counts(g), up[d] = up[e] PROVE d = e
  <2>1. d = <<d[1], d[2]>> /\ e = <<e[1], e[2]>> /\ d[2] \in Nat /\ e[2] \in Nat
        /\ d[1] \in 1 .. n /\ f[d[1]] \in Nat
    BY <1>1
  <2>2. d[1] = e[1] /\ d[2] + f[d[1]] = e[2] + f[e[1]]
    BY <1>3
  <2>3. d[2] = e[2]
    BY <2>1, <2>2
  <2>4. QED  BY <2>1, <2>2, <2>3
<1>4. ASSUME NEW b \in B PROVE \E e \in Counts(g) : up[e] = b
  <2>1. b = <<b[1], b[2]>> /\ b[1] \in 1 .. n /\ b[2] \in Nat /\ b[2] \in 1 .. h[b[1]]
        /\ b[2] \notin 1 .. f[b[1]] /\ f[b[1]] \in Nat /\ g[b[1]] \in Nat
        /\ h[b[1]] = f[b[1]] + g[b[1]]
    BY <1>1
  <2> DEFINE e == <<b[1], b[2] - f[b[1]]>>
  <2>2. e \in Counts(g)
    BY <1>1, <2>1
  <2>3. up[e] = b
    BY <2>1, <2>2
  <2>4. QED  BY <2>2, <2>3
<1> HIDE DEF up, B
<1>5. ExistsBijection(Counts(g), B)
  <2>1. up \in Injection(Counts(g), B)
    BY <1>2, <1>3 DEF Injection, IsInjective
  <2>2. up \in Surjection(Counts(g), B)
    BY <1>2, <1>4 DEF Surjection
  <2>3. QED  BY <2>1, <2>2 DEF ExistsBijection, Bijection
<1>6. IsFiniteSet(Counts(g)) /\ IsFiniteSet(Counts(f)) /\ Total(f) = Cardinality(Counts(f))
      /\ Total(g) = Cardinality(Counts(g)) /\ Total(h) = Cardinality(Counts(h))
  BY TotalType
<1>7. IsFiniteSet(B) /\ Cardinality(B) = Cardinality(Counts(g))
  BY <1>5, <1>6, FS_Bijection
<1>8. Counts(f) \subseteq Counts(h)
  BY <1>1
<1>9. Counts(h) = Counts(f) \cup B /\ Counts(f) \cap B = {}
  BY <1>8 DEF B
<1>10. Cardinality(Counts(f) \cup B) = Cardinality(Counts(f)) + Cardinality(B)
  BY <1>6, <1>7, <1>9, Apart
<1>11. QED  BY <1>6, <1>7, <1>9, <1>10

\* A list of one count alone.
LEMMA TotalSame ==
    ASSUME NEW n \in Nat, NEW k \in Nat, NEW f \in [1 .. n -> Nat], \A i \in 1 .. n : f[i] = k
    PROVE  Total(f) = n * k
<1>1. Counts(f) = (1 .. n) \X (1 .. k)
  <2>1. Counts(f) = {e \in (1 .. n) \X Nat : e[2] \in 1 .. f[e[1]]}
    BY CountsIs
  <2>2. QED  BY <2>1
<1>2. IsFiniteSet(1 .. n) /\ IsFiniteSet(1 .. k) /\ Cardinality(1 .. n) = n /\ Cardinality(1 .. k) = k
  BY FS_Interval
<1>3. Cardinality(Counts(f)) = n * k
  <2>1. Cardinality((1 .. n) \X (1 .. k)) = Cardinality(1 .. n) * Cardinality(1 .. k)
    BY <1>2, FS_Product
  <2>2. QED  BY <1>1, <1>2, <2>1
<1>4. Total(f) = Cardinality(Counts(f))
  BY TotalType
<1>5. QED  BY <1>3, <1>4
-----------------------------------------------------------------------------
(***************************************************************************)
(* The invariant.                                                          *)
(***************************************************************************)
\* A pen that is up draws no path.
PenUp == ~pen.down => pen = NoPen

\* Until the game is over each turn has made a line.
Played == ~Over => turn = Lines

\* A circle in the list of the dead is not brown, and so is not marked again.
Marked == \A c \in Circles : deadNodes[c] > 0 => colour[c] # "brown"

IInv == BoardLegal /\ PenUp /\ Played /\ Marked

\* The numbers of a board.
LEMMA Board ==
    ASSUME TypeOK
    PROVE  /\ nodes \in Nat \ {0} /\ maxGame \in Nat /\ maxGame > 0 /\ Lines \in Nat
           /\ Len(joins) = nodes + Lines /\ Len(joins) \in Nat /\ Circles = 1 .. Len(joins)
           /\ joins \in [1 .. Len(joins) -> Nat] /\ deadNodes \in [1 .. Len(joins) -> Nat]
           /\ turn \in Nat /\ Outside \notin Circles
<1>1. nodes \in Nat \ {0} /\ joins \in Seq(Nat) /\ Lines \in Nat /\ turn \in 0 .. 3 * maxGame
      /\ deadNodes \in [Circles -> Nat]
  BY SproutsAssumption DEF TypeOK
<1>2. maxGame \in Nat /\ maxGame > 0
  BY <1>1 DEF maxGame
<1>3. Len(joins) \in Nat /\ Circles = 1 .. Len(joins) /\ joins \in [1 .. Len(joins) -> Nat]
  BY <1>1 DEF Circles
<1>4. QED  BY <1>1, <1>2, <1>3 DEF Lines, Outside

\* A list with one more entry.
LEMMA Longer ==
    ASSUME NEW n \in Nat, NEW X, NEW f \in [1 .. n -> X], NEW x
    PROVE  LET g == Append(f, x)
           IN  DOMAIN g = 1 .. n + 1 /\ g[n + 1] = x /\ \A c \in 1 .. n : g[c] = f[c]
<1>1. f \in [1 .. n -> X \cup {x}]
  OBVIOUS
<1>2. f \in Seq(X \cup {x}) /\ Len(f) = n
  BY <1>1
<1>3. QED  BY <1>2

\* How often a circle is at an end of a line.
LEMMA EndsAt ==
    ASSUME NEW a, NEW b, NEW c
    PROVE  Times(<<a, b>>, c) = (IF a = c THEN 1 ELSE 0) + (IF b = c THEN 1 ELSE 0)
<1> DEFINE at == {i \in DOMAIN <<a, b>> : <<a, b>>[i] = c}
<1>1. DOMAIN <<a, b>> = {1, 2} /\ <<a, b>>[1] = a /\ <<a, b>>[2] = b
  OBVIOUS
<1>2. at = (IF a = c THEN {1} ELSE {}) \cup (IF b = c THEN {2} ELSE {})
  BY <1>1
<1>3. IsFiniteSet({}) /\ Cardinality({}) = 0 /\ IsFiniteSet({1}) /\ Cardinality({1}) = 1
      /\ IsFiniteSet({2}) /\ Cardinality({2}) = 1
  BY FS_EmptySet, FS_Singleton
<1>4. Cardinality({1} \cup {2}) = 2
  BY <1>3, FS_AddElement
<1>5. Times(<<a, b>>, c) = Cardinality(at)
  BY DEF Times
<1> HIDE DEF at
<1>6. CASE a = c /\ b = c
  BY <1>2, <1>4, <1>5, <1>6
<1>7. CASE a = c /\ b # c
  <2>1. at = {1}
    BY <1>2, <1>7
  <2>2. QED  BY <1>3, <1>5, <1>7, <2>1
<1>8. CASE a # c /\ b = c
  <2>1. at = {2}
    BY <1>2, <1>8
  <2>2. QED  BY <1>3, <1>5, <1>8, <2>1
<1>9. CASE a # c /\ b # c
  <2>1. at = {}
    BY <1>2, <1>9
  <2>2. QED  BY <1>3, <1>5, <1>9, <2>1
<1>10. QED  BY <1>6, <1>7, <1>8, <1>9

\* A path that nobody has drawn crosses nothing.
LEMMA NoCuts == ASSUME NEW c PROVE Times(<<>>, c) = 0
<1>1. {i \in DOMAIN <<>> : <<>>[i] = c} = {}
  OBVIOUS
<1>2. QED  BY <1>1, FS_EmptySet DEF Times

\* The two ends of a line are two, also at one circle.
LEMMA TwoEnds ==
    ASSUME NEW n \in Nat, NEW a \in 1 .. n, NEW b \in 1 .. n, NEW at \in [1 .. n -> Nat],
           \A c \in 1 .. n : at[c] = (IF a = c THEN 1 ELSE 0) + (IF b = c THEN 1 ELSE 0)
    PROVE  Total(at) = 2
<1> DEFINE none == [c \in 1 .. n |-> 0]
           one == [none EXCEPT ![a] = 1]
           two == [one EXCEPT ![b] = one[b] + 1]
<1>1. none \in [1 .. n -> Nat] /\ \A c \in 1 .. n : none[c] = 0
  OBVIOUS
<1> HIDE DEF none
<1>2. Total(none) = 0
  <2>1. Total(none) = n * 0
    BY <1>1, TotalSame
  <2>2. QED  BY <2>1
<1>3. one \in [1 .. n -> Nat] /\ \A c \in 1 .. n : one[c] = IF a = c THEN 1 ELSE 0
  BY <1>1
<1>4. Total(one) = Total(none) - none[a] + 1
  BY <1>1, TotalChanges
<1> HIDE DEF one
<1>5. one[b] \in Nat /\ one[b] + 1 \in Nat
  BY <1>3
<1>6. two \in [1 .. n -> Nat] /\ \A c \in 1 .. n : two[c] = IF b = c THEN one[c] + 1 ELSE one[c]
  BY <1>3, <1>5
<1>7. Total(two) = Total(one) - one[b] + (one[b] + 1)
  BY <1>3, <1>5, TotalChanges
<1> HIDE DEF two
<1>8. ASSUME NEW c \in 1 .. n PROVE two[c] = at[c]
  <2>1. at[c] = (IF a = c THEN 1 ELSE 0) + (IF b = c THEN 1 ELSE 0)
        /\ one[c] = (IF a = c THEN 1 ELSE 0)
        /\ two[c] = IF b = c THEN one[c] + 1 ELSE one[c]
    BY <1>3, <1>6
  <2>2. QED  BY <2>1
<1>9. two = at
  BY <1>6, <1>8
<1>10. Total(two) = 2
  BY <1>1, <1>2, <1>4, <1>5, <1>7
<1>11. QED  BY <1>9, <1>10

\* A line takes an end from the circles it joins, and its own circle brings
\* one: one end less is left.
LEMMA OneEndLess ==
    ASSUME NEW n \in Nat, NEW f \in [1 .. n -> Nat], NEW g \in [1 .. n + 1 -> Nat],
           \A c \in 1 .. n : f[c] <= 3, \A c \in 1 .. n + 1 : g[c] <= 3, g[n + 1] = 2,
           NEW a \in 1 .. n, NEW b \in 1 .. n, NEW at \in [1 .. n -> Nat],
           \A c \in 1 .. n : at[c] = (IF a = c THEN 1 ELSE 0) + (IF b = c THEN 1 ELSE 0),
           \A c \in 1 .. n : g[c] = f[c] + at[c]
    PROVE  Total([c \in 1 .. n + 1 |-> 3 - g[c]]) = Total([c \in 1 .. n |-> 3 - f[c]]) - 1
<1> DEFINE room == [c \in 1 .. n |-> 3 - f[c]]
           less == [c \in 1 .. n |-> 3 - g[c]]
           left == [c \in 1 .. n + 1 |-> 3 - g[c]]
<1>1. Total(at) = 2
  BY TwoEnds
<1>2. \A c \in 1 .. n + 1 : g[c] \in Nat /\ 3 - g[c] \in Nat
  OBVIOUS
<1>3. ASSUME NEW c \in 1 .. n
      PROVE  f[c] \in Nat /\ 3 - f[c] \in Nat /\ c \in 1 .. n + 1 /\ at[c] \in Nat
  <2>1. f[c] \in Nat /\ f[c] <= 3 /\ at[c] \in Nat
    OBVIOUS
  <2>2. c \in 1 .. n + 1
    BY ONLY n \in Nat, c \in 1 .. n
  <2>3. 3 - f[c] \in Nat
    BY ONLY <2>1
  <2>4. QED  BY <2>1, <2>2, <2>3
<1>4. room \in [1 .. n -> Nat] /\ \A c \in 1 .. n : room[c] = 3 - f[c]
  BY <1>3
<1>5. less \in [1 .. n -> Nat] /\ \A c \in 1 .. n : less[c] = 3 - g[c]
  BY <1>2, <1>3
<1>6. left \in [1 .. n + 1 -> Nat] /\ left[n + 1] = 1 /\ \A c \in 1 .. n : left[c] = 3 - g[c]
  <2>1. left \in [1 .. n + 1 -> Nat]
    BY <1>2
  <2>2. n + 1 \in 1 .. n + 1 /\ \A c \in 1 .. n : c \in 1 .. n + 1
    OBVIOUS
  <2>3. left[n + 1] = 3 - g[n + 1] /\ \A c \in 1 .. n : left[c] = 3 - g[c]
    BY <2>2
  <2>4. left[n + 1] = 1
    BY ONLY g[n + 1] = 2, <2>3
  <2>5. QED  BY <2>1, <2>3, <2>4
<1> HIDE DEF room, less, left
<1>7. ASSUME NEW c \in 1 .. n PROVE room[c] = less[c] + at[c]
  <2>1. room[c] = 3 - f[c] /\ less[c] = 3 - g[c] /\ g[c] = f[c] + at[c]
    BY <1>4, <1>5
  <2>2. f[c] \in Nat /\ at[c] \in Nat
    BY <1>3
  <2>3. QED  BY ONLY <2>1, <2>2
<1>8. Total(room) = Total(less) + Total(at)
  BY ONLY n \in Nat, at \in [1 .. n -> Nat], <1>4, <1>5, <1>7, TotalAdds
<1>9. Total(left) = Total(less) + 1
  <2>1. \A c \in 1 .. n : left[c] = less[c]
    BY <1>5, <1>6
  <2>2. \A x \in Nat : left[n + 1] = x => Total(left) = Total(less) + x
    BY ONLY n \in Nat, <1>5, <1>6, <2>1, TotalAppends
  <2>3. QED  BY <1>6, <2>2
<1>10. Total(less) \in Nat
  BY <1>5, TotalType
<1>11. Total(left) = Total(room) - 1
  BY <1>1, <1>8, <1>9, <1>10
<1>12. QED  BY <1>11 DEF left, room

\* The board js of n circles and one more has one end less than the board.
LessRoom(n, js) ==
    /\ js \in Seq(Nat) /\ Len(js) = n + 1 /\ DOMAIN js = 1 .. n + 1
    /\ js \in [1 .. n + 1 -> Nat] /\ js[n + 1] = 2 /\ \A c \in 1 .. n : js[c] >= joins[c]
    /\ Total([c \in 1 .. n + 1 |-> 3 - js[c]]) = Total([c \in 1 .. n |-> 3 - joins[c]]) - 1

\* The board after a line that circlesChecker accepts.
LEMMA JoinedBoard ==
    ASSUME NEW n \in Nat, joins \in [1 .. n -> Nat], \A c \in 1 .. n : joins[c] <= 3,
           NEW a \in 1 .. n, NEW b \in 1 .. n,
           NEW js, js = Joined(a, b), \A c \in DOMAIN js : js[c] <= 3
    PROVE  LessRoom(n, js)
<1> DEFINE at == [c \in 1 .. n |-> (IF a = c THEN 1 ELSE 0) + (IF b = c THEN 1 ELSE 0)]
           more == [c \in 1 .. n |-> joins[c] + at[c]]
<1>1. at \in [1 .. n -> Nat]
      /\ \A c \in 1 .. n : at[c] = (IF a = c THEN 1 ELSE 0) + (IF b = c THEN 1 ELSE 0)
  <2>1. \A c \in 1 .. n : (IF a = c THEN 1 ELSE 0) + (IF b = c THEN 1 ELSE 0) \in Nat
    OBVIOUS
  <2>2. QED  BY <2>1
<1>2. \A c \in 1 .. n : Times(<<a, b>>, c) = at[c]
  BY EndsAt
<1> HIDE DEF at
<1>3. js = Append(more, 2)
  BY <1>2 DEF Joined, Circles
<1>4. more \in [1 .. n -> Nat] /\ \A c \in 1 .. n : more[c] = joins[c] + at[c]
  BY <1>1
<1> HIDE DEF more
<1>5. more \in Seq(Nat) /\ Len(more) = n
  BY <1>4
<1>6. js \in Seq(Nat) /\ Len(js) = n + 1 /\ DOMAIN js = 1 .. n + 1 /\ js[n + 1] = 2
      /\ \A c \in 1 .. n : js[c] = more[c]
  BY <1>3, <1>5
<1>7. js \in [1 .. n + 1 -> Nat] /\ \A c \in 1 .. n + 1 : js[c] <= 3
  <2>1. \A c \in 1 .. n + 1 : js[c] <= 3
    BY <1>6
  <2>2. js \in [1 .. n + 1 -> Nat]
    BY ONLY <1>6
  <2>3. QED  BY <2>1, <2>2
<1>8. \A c \in 1 .. n : js[c] = joins[c] + at[c]
  BY <1>4, <1>6
<1>9. Total([c \in 1 .. n + 1 |-> 3 - js[c]]) = Total([c \in 1 .. n |-> 3 - joins[c]]) - 1
  BY <1>1, <1>6, <1>7, <1>8, OneEndLess
<1>10. ASSUME NEW c \in 1 .. n PROVE js[c] >= joins[c]
  <2>1. js[c] = joins[c] + at[c] /\ joins[c] \in Nat /\ at[c] \in Nat
    BY <1>1, <1>8
  <2>2. QED  BY ONLY <2>1
<1>11. QED  BY <1>6, <1>7, <1>9, <1>10 DEF LessRoom

\* The ends of each circle that are left.
Rooms(n, js, dead) == [c \in 1 .. n |-> IF dead[c] > 0 THEN 0 ELSE 3 - js[c]]

\* gameoverChecker says that the game is over at its last turn, or when fewer
\* than two ends are left.
LEMMA StuckIs ==
    ASSUME NEW n \in Nat, NEW js \in [1 .. n -> Nat], \A c \in 1 .. n : js[c] <= 3, Len(js) = n,
           NEW dead \in [1 .. n -> Nat], \A c \in 1 .. n : dead[c] <= 1, NEW t
    PROVE  /\ Total(Rooms(n, js, dead)) \in Nat
           /\ GameOver(js, dead, t, <<>>) <=> t = maxGame \/ Total(Rooms(n, js, dead)) < 2
<1> DEFINE room == Rooms(n, js, dead)
           crosses == [c \in 1 .. n |-> js[c] + Times(<<>>, c)]
           ofDead == [c \in 1 .. n |-> dead[c] * crosses[c]]
           three == [c \in 1 .. n |-> 3]
           a == [c \in 1 .. n |-> room[c] + crosses[c]]
           b == [c \in 1 .. n |-> a[c] + dead[c]]
           d == [c \in 1 .. n |-> b[c] + dead[c]]
           e == [c \in 1 .. n |-> d[c] + dead[c]]
<1>1. ASSUME NEW c \in 1 .. n
      PROVE  js[c] \in 0 .. 3 /\ dead[c] \in 0 .. 1 /\ Times(<<>>, c) = 0
  <2>1. js[c] \in Nat /\ js[c] <= 3 /\ dead[c] \in Nat /\ dead[c] <= 1
    OBVIOUS
  <2>2. QED  BY <2>1, NoCuts
<1>2. ASSUME NEW c \in 1 .. n
      PROVE  /\ room[c] \in Nat /\ crosses[c] = js[c] /\ ofDead[c] \in Nat
             /\ room[c] + js[c] + 3 * dead[c] = 3 + ofDead[c]
  <2>1. crosses[c] = js[c] + 0
    BY <1>1
  <2>2. room[c] = (IF dead[c] > 0 THEN 0 ELSE 3 - js[c]) /\ ofDead[c] = dead[c] * crosses[c]
    BY DEF Rooms
  <2> HIDE DEF room, crosses, ofDead
  <2>3. js[c] \in Nat /\ js[c] <= 3 /\ (dead[c] = 0 \/ dead[c] = 1)
    BY <1>1
  <2>4. crosses[c] = js[c]
    BY ONLY <2>1, <2>3
  <2>5. CASE dead[c] = 0
    <3>1. room[c] = 3 - js[c] /\ ofDead[c] = 0
      BY ONLY <2>2, <2>3, <2>4, <2>5
    <3>2. QED  BY ONLY <2>3, <2>4, <2>5, <3>1
  <2>6. CASE dead[c] = 1
    <3>1. room[c] = 0 /\ ofDead[c] = js[c]
      BY ONLY <2>2, <2>3, <2>4, <2>6
    <3>2. QED  BY ONLY <2>3, <2>4, <2>6, <3>1
  <2>7. QED  BY <2>3, <2>5, <2>6
<1>3. room = [c \in 1 .. n |-> room[c]]
  BY DEF Rooms
<1>4. crosses = [c \in 1 .. n |-> crosses[c]] /\ ofDead = [c \in 1 .. n |-> ofDead[c]]
  OBVIOUS
<1> HIDE DEF room, crosses, ofDead
<1>5. room \in [1 .. n -> Nat] /\ crosses \in [1 .. n -> Nat] /\ ofDead \in [1 .. n -> Nat]
  BY <1>1, <1>2, <1>3, <1>4
<1>6. a \in [1 .. n -> Nat] /\ Total(a) = Total(room) + Total(crosses)
  <2>1. \A c \in 1 .. n : room[c] + crosses[c] \in Nat
    BY ONLY <1>5
  <2>2. a \in [1 .. n -> Nat] /\ \A c \in 1 .. n : a[c] = room[c] + crosses[c]
    BY ONLY <2>1
  <2> HIDE DEF a
  <2>3. QED  BY ONLY n \in Nat, <1>5, <2>2, TotalAdds
<1>7. \A c \in 1 .. n : a[c] = room[c] + crosses[c]
  OBVIOUS
<1> HIDE DEF a
<1>8. b \in [1 .. n -> Nat] /\ Total(b) = Total(a) + Total(dead)
  <2>1. \A c \in 1 .. n : a[c] + dead[c] \in Nat
    BY ONLY dead \in [1 .. n -> Nat], <1>6
  <2>2. b \in [1 .. n -> Nat] /\ \A c \in 1 .. n : b[c] = a[c] + dead[c]
    BY ONLY <2>1
  <2> HIDE DEF b
  <2>3. QED  BY ONLY n \in Nat, dead \in [1 .. n -> Nat], <1>6, <2>2, TotalAdds
<1>9. \A c \in 1 .. n : b[c] = a[c] + dead[c]
  OBVIOUS
<1> HIDE DEF b
<1>10. d \in [1 .. n -> Nat] /\ Total(d) = Total(b) + Total(dead)
  <2>1. \A c \in 1 .. n : b[c] + dead[c] \in Nat
    BY ONLY dead \in [1 .. n -> Nat], <1>8
  <2>2. d \in [1 .. n -> Nat] /\ \A c \in 1 .. n : d[c] = b[c] + dead[c]
    BY ONLY <2>1
  <2> HIDE DEF d
  <2>3. QED  BY ONLY n \in Nat, dead \in [1 .. n -> Nat], <1>8, <2>2, TotalAdds
<1>11. \A c \in 1 .. n : d[c] = b[c] + dead[c]
  OBVIOUS
<1> HIDE DEF d
<1>12. e \in [1 .. n -> Nat] /\ Total(e) = Total(d) + Total(dead)
  <2>1. \A c \in 1 .. n : d[c] + dead[c] \in Nat
    BY ONLY dead \in [1 .. n -> Nat], <1>10
  <2>2. e \in [1 .. n -> Nat] /\ \A c \in 1 .. n : e[c] = d[c] + dead[c]
    BY ONLY <2>1
  <2> HIDE DEF e
  <2>3. QED  BY ONLY n \in Nat, dead \in [1 .. n -> Nat], <1>10, <2>2, TotalAdds
<1>13. \A c \in 1 .. n : e[c] = d[c] + dead[c]
  OBVIOUS
<1> HIDE DEF e
<1>14. three \in [1 .. n -> Nat] /\ Total(three) = n * 3
  <2>1. three \in [1 .. n -> Nat] /\ \A c \in 1 .. n : three[c] = 3
    OBVIOUS
  <2> HIDE DEF three
  <2>2. QED  BY ONLY n \in Nat, <2>1, TotalSame
<1>15. ASSUME NEW c \in 1 .. n PROVE e[c] = three[c] + ofDead[c]
  <2>1. a[c] = room[c] + crosses[c] /\ b[c] = a[c] + dead[c] /\ d[c] = b[c] + dead[c]
        /\ e[c] = d[c] + dead[c] /\ three[c] = 3
    BY <1>7, <1>9, <1>11, <1>13
  <2>2. room[c] \in Nat /\ crosses[c] = js[c] /\ ofDead[c] \in Nat
        /\ room[c] + js[c] + 3 * dead[c] = 3 + ofDead[c]
    BY <1>2
  <2>3. js[c] \in Nat /\ dead[c] \in Nat
    OBVIOUS
  <2> HIDE DEF three
  <2>4. QED  BY ONLY <2>1, <2>2, <2>3
<1> HIDE DEF three
<1>16. Total(e) = Total(three) + Total(ofDead)
  <2>1. e \in [1 .. n -> Nat] /\ three \in [1 .. n -> Nat] /\ ofDead \in [1 .. n -> Nat]
    BY <1>5, <1>12, <1>14
  <2>2. QED  BY ONLY n \in Nat, <2>1, <1>15, TotalAdds
<1>17. Total(room) \in Nat /\ Total(crosses) \in Nat /\ Total(ofDead) \in Nat /\ Total(dead) \in Nat
  BY <1>5, TotalType
<1>18. Total(room) + Total(crosses) + 3 * Total(dead) = 3 * n + Total(ofDead)
  BY ONLY n \in Nat, <1>6, <1>8, <1>10, <1>12, <1>14, <1>16, <1>17
<1>19. GameOver(js, dead, t, <<>>)
          <=> t = maxGame \/ Total(crosses) - Total(ofDead) \in
                               {3 * n - 3 * Total(dead), 3 * n - 3 * Total(dead) - 1}
  <2>1. DOMAIN js = 1 .. n /\ Len(js) = n
    OBVIOUS
  <2>2. QED  BY ONLY <2>1 DEF GameOver, crosses, ofDead
<1>20. Total(crosses) - Total(ofDead) \in {3 * n - 3 * Total(dead), 3 * n - 3 * Total(dead) - 1}
           <=> Total(room) < 2
  <2> DEFINE done == Total(crosses) - Total(ofDead)
             full == 3 * n - 3 * Total(dead)
  <2>1. done = full - Total(room) /\ done \in Int /\ full \in Int /\ Total(room) \in Nat
    BY ONLY n \in Nat, <1>17, <1>18
  <2> HIDE DEF done, full
  <2>2. done \in {full, full - 1} <=> Total(room) < 2
    BY ONLY <2>1
  <2>3. QED  BY ONLY <2>2 DEF done, full
<1>21. QED  BY <1>17, <1>19, <1>20 DEF room

\* A dead circle has no ends left to draw from.
LEMMA RoomsLeft ==
    ASSUME NEW n \in Nat, NEW js \in [1 .. n -> Nat], \A c \in 1 .. n : js[c] <= 3,
           NEW dead \in [1 .. n -> Nat]
    PROVE  Total(Rooms(n, js, dead)) <= Total([c \in 1 .. n |-> 3 - js[c]])
<1> DEFINE room == Rooms(n, js, dead)
           ends == [c \in 1 .. n |-> 3 - js[c]]
           lost == [c \in 1 .. n |-> ends[c] - room[c]]
<1>1. ASSUME NEW c \in 1 .. n
      PROVE  room[c] \in Nat /\ ends[c] \in Nat /\ ends[c] - room[c] \in Nat
  <2>1. js[c] \in Nat /\ js[c] <= 3 /\ dead[c] \in Nat
    OBVIOUS
  <2>2. room[c] = (IF dead[c] > 0 THEN 0 ELSE 3 - js[c]) /\ ends[c] = 3 - js[c]
    BY DEF Rooms
  <2> HIDE DEF room, ends
  <2>3. QED  BY ONLY <2>1, <2>2
<1>2. room = [c \in 1 .. n |-> room[c]] /\ ends = [c \in 1 .. n |-> ends[c]]
  BY DEF Rooms
<1> HIDE DEF room, ends
<1>3. room \in [1 .. n -> Nat] /\ ends \in [1 .. n -> Nat] /\ lost \in [1 .. n -> Nat]
  BY <1>1, <1>2
<1>4. \A c \in 1 .. n : lost[c] = ends[c] - room[c]
  OBVIOUS
<1> HIDE DEF lost
<1>5. ASSUME NEW c \in 1 .. n PROVE ends[c] = room[c] + lost[c]
  <2>1. room[c] \in Nat /\ ends[c] \in Nat /\ lost[c] = ends[c] - room[c]
    BY <1>1, <1>4
  <2>2. QED  BY ONLY <2>1
<1>6. Total(ends) = Total(room) + Total(lost)
  BY ONLY n \in Nat, <1>3, <1>5, TotalAdds
<1>7. Total(room) \in Nat /\ Total(lost) \in Nat
  BY <1>3, TotalType
<1>8. QED  BY <1>6, <1>7 DEF room, ends

-----------------------------------------------------------------------------
(***************************************************************************)
(* Each action.                                                            *)
(***************************************************************************)
\* The board in the lists of its circles.
LEMMA BoardIs ==
    ASSUME IInv, NEW n, n = Len(joins)
    PROVE  /\ n \in Nat /\ n = nodes + Lines /\ nodes \in Nat \ {0} /\ Lines \in Nat
           /\ Circles = 1 .. n /\ DOMAIN joins = 1 .. n
           /\ joins \in [1 .. n -> Nat] /\ \A c \in 1 .. n : joins[c] <= 3
           /\ deadNodes \in [1 .. n -> Nat] /\ \A c \in 1 .. n : deadNodes[c] <= 1
           /\ colour \in [1 .. n -> {"brown", "green", "black"}]
           /\ maxGame \in Nat /\ maxGame = 3 * nodes - 1 /\ turn \in Nat
           /\ Total([c \in 1 .. n |-> 3 - joins[c]]) = 3 * nodes - Lines
           /\ Lives = Total(Rooms(n, joins, deadNodes))
<1>1. TypeOK /\ \A c \in Circles : joins[c] <= 3 /\ deadNodes[c] <= 1
  BY DEF IInv, BoardLegal
<1>2. Total([c \in Circles |-> 3 - joins[c]]) = 3 * nodes - Lines
  BY DEF IInv, BoardLegal
<1>3. n \in Nat /\ n = nodes + Lines /\ nodes \in Nat \ {0} /\ Lines \in Nat /\ Circles = 1 .. n
      /\ joins \in [1 .. n -> Nat] /\ deadNodes \in [1 .. n -> Nat] /\ maxGame \in Nat /\ turn \in Nat
  BY <1>1, Board
<1>4. DOMAIN joins = 1 .. n
  BY <1>3 DEF Circles
<1>5. colour \in [1 .. n -> {"brown", "green", "black"}]
  BY <1>1, <1>3 DEF TypeOK
<1>6. Lives = Total(Rooms(n, joins, deadNodes))
  BY <1>3 DEF Lives, Room, Rooms
<1>7. QED  BY <1>1, <1>2, <1>3, <1>4, <1>5, <1>6 DEF maxGame

\* The game begins with nothing drawn.
LEMMA InitInv == Init => IInv
<1> SUFFICES ASSUME Init PROVE IInv
  OBVIOUS
<1>1. nodes \in Nat \ {0} /\ joins = [i \in 1 .. nodes |-> 0] /\ colour = [i \in 1 .. nodes |-> "brown"]
      /\ workcircles = [i \in 1 .. nodes |-> i] /\ deadNodes = [i \in 1 .. nodes |-> 0]
      /\ turn = 0 /\ pen = NoPen
  BY SproutsAssumption DEF Init
<1>2. joins \in Seq(Nat) /\ Len(joins) = nodes /\ Lines = 0 /\ Circles = 1 .. nodes
  BY <1>1 DEF Lines, Circles
<1>3. maxGame \in Nat /\ maxGame > 0
  BY <1>1 DEF maxGame
<1>4. TypeOK
  <2>1. workcircles \in Seq(Circles \cup {0})
    BY <1>1, <1>2
  <2>2. pen \in [from : Circles \cup {Outside}, at : Circles \cup {Outside},
                 cuts : Seq(Circles), down : BOOLEAN]
    BY <1>1 DEF NoPen
  <2>3. colour \in [Circles -> {"brown", "green", "black"}] /\ deadNodes \in [Circles -> Nat]
    BY <1>1, <1>2
  <2>4. turn \in 0 .. 3 * maxGame
    BY <1>1, <1>3
  <2>5. QED  BY <1>2, <2>1, <2>2, <2>3, <2>4 DEF TypeOK
<1>5. Total([c \in Circles |-> 3 - joins[c]]) = 3 * nodes - Lines
  <2> DEFINE room == [c \in Circles |-> 3 - joins[c]]
  <2>1. room \in [1 .. nodes -> Nat] /\ \A c \in 1 .. nodes : room[c] = 3
    BY <1>1, <1>2
  <2> HIDE DEF room
  <2>2. Total(room) = nodes * 3
    BY <1>1, <2>1, TotalSame
  <2>3. QED  BY <1>1, <1>2, <2>2 DEF room
<1>6. \A c \in Circles : joins[c] = 0 /\ deadNodes[c] = 0 /\ colour[c] = "brown"
  BY <1>1, <1>2
<1>7. ~Over /\ Lines < maxGame
  BY <1>1, <1>2, <1>3 DEF Over
<1>8. BoardLegal
  <2>1. Centred
    BY <1>1, <1>2 DEF Centred
  <2>2. QED  BY <1>2, <1>3, <1>4, <1>5, <1>6, <1>7, <2>1 DEF BoardLegal
<1>9. QED  BY <1>1, <1>2, <1>6, <1>8 DEF IInv, PenUp, Played, Marked

\* Nothing of the invariant hangs on the pen but its type, and that a pen that
\* is up draws nothing.
LEMMA PenInv ==
    ASSUME IInv, UNCHANGED <<joins, colour, deadNodes, turn>>,
           (workcircles \in Seq(Circles \cup {0}))', Centred',
           (pen \in [from : Circles \cup {Outside}, at : Circles \cup {Outside},
                     cuts : Seq(Circles), down : BOOLEAN])', PenUp'
    PROVE  IInv'
<1>1. Circles' = Circles /\ Lines' = Lines /\ (Over' <=> Over)
  BY DEF Circles, Lines, Over
<1>2. TypeOK'
  BY <1>1 DEF IInv, BoardLegal, TypeOK
<1>3. BoardLegal'
  BY <1>1, <1>2 DEF IInv, BoardLegal
<1>4. QED  BY <1>1, <1>3 DEF IInv, Played, Marked

\* Putting the pen down and drawing with it.
LEMMA DrawInv ==
    ASSUME IInv, NEW c \in Circles \cup {Outside},
           OnMouseDown(c) \/ (c \in Circles /\ OnMouseDrag(c))
    PROVE  IInv'
<1>1. UNCHANGED <<joins, colour, workcircles, deadNodes, turn>>
  BY DEF OnMouseDown, OnMouseDrag
<1>2. Circles' = Circles /\ pen \in [from : Circles \cup {Outside}, at : Circles \cup {Outside},
                                    cuts : Seq(Circles), down : BOOLEAN]
      /\ workcircles \in Seq(Circles \cup {0})
  BY <1>1 DEF IInv, BoardLegal, TypeOK, Circles
<1>3. pen' \in [from : Circles \cup {Outside}, at : Circles \cup {Outside},
               cuts : Seq(Circles), down : BOOLEAN] /\ pen'.down
  <2>1. CASE OnMouseDown(c)
    <3>1. pen' = [from |-> c, at |-> c, cuts |-> <<>>, down |-> TRUE]
      BY <2>1 DEF OnMouseDown, NoPen
    <3>2. QED  BY <3>1
  <2>2. CASE c \in Circles /\ OnMouseDrag(c)
    <3>1. pen.down /\ pen' = [pen EXCEPT !.at = IF pen.at = c THEN Outside ELSE c,
                                         !.cuts = Append(pen.cuts, c)]
      BY <2>2 DEF OnMouseDrag
    <3>2. Append(pen.cuts, c) \in Seq(Circles)
      BY <1>2, <2>2
    <3>3. QED  BY <1>2, <2>2, <3>1, <3>2
  <2>3. QED  BY <2>1, <2>2
<1>4. Centred'
  BY <1>1, <1>2 DEF IInv, BoardLegal, Centred
<1>5. QED  BY <1>1, <1>2, <1>3, <1>4, PenInv DEF PenUp

\* A line that is accepted: the turn counts it, and the game ends when no
\* further line fits.
Accepts(js) ==
    /\ ~Over /\ pen' = NoPen
    /\ joins' = js /\ workcircles' = Append(workcircles, Len(js))
    /\ colour' = Coloured(js, Append(colour, "brown")) /\ deadNodes' = Append(deadNodes, 0)
    /\ turn' = After(turn + 1, GameOver(js, deadNodes', turn + 1, <<>>))

LEMMA AcceptInv ==
    ASSUME IInv, NEW a \in Circles, NEW b \in Circles, NEW js, js = Joined(a, b),
           \A c \in DOMAIN js : js[c] <= 3, Accepts(js)
    PROVE  IInv' /\ (Over' <=> Lives' < 2)
<1> DEFINE n == Len(joins)
           dead == Append(deadNodes, 0)
           cols == Append(colour, "brown")
<1>1. /\ n \in Nat /\ n = nodes + Lines /\ nodes \in Nat \ {0} /\ Lines \in Nat
      /\ Circles = 1 .. n /\ joins \in [1 .. n -> Nat] /\ (\A c \in 1 .. n : joins[c] <= 3)
      /\ deadNodes \in [1 .. n -> Nat] /\ (\A c \in 1 .. n : deadNodes[c] <= 1)
      /\ colour \in [1 .. n -> {"brown", "green", "black"}]
      /\ maxGame \in Nat /\ maxGame = 3 * nodes - 1 /\ turn \in Nat
      /\ Total([c \in 1 .. n |-> 3 - joins[c]]) = 3 * nodes - Lines
  BY BoardIs
<1> DEFINE m == n + 1
<1>2. m \in Nat /\ m > n
  BY <1>1
<1> HIDE DEF n, dead, cols
<1>3. /\ js \in Seq(Nat) /\ Len(js) = m /\ DOMAIN js = 1 .. m
      /\ js \in [1 .. m -> Nat] /\ js[m] = 2
      /\ Total([c \in 1 .. m |-> 3 - js[c]]) = Total([c \in 1 .. n |-> 3 - joins[c]]) - 1
      /\ \A c \in 1 .. n : js[c] >= joins[c]
  <2>1. a \in 1 .. n /\ b \in 1 .. n
    BY <1>1
  <2>2. LessRoom(n, js)
    BY <1>1, <2>1, JoinedBoard
  <2>3. QED  BY <2>2 DEF LessRoom
<1>4. dead \in Seq(Nat) /\ DOMAIN dead = 1 .. m /\ dead[m] = 0
      /\ \A c \in 1 .. n : dead[c] = deadNodes[c]
  <2>1. n \in Nat /\ deadNodes \in [1 .. n -> Nat]
    BY <1>1
  <2>2. deadNodes \in Seq(Nat)
    BY ONLY <2>1
  <2>3. dead \in Seq(Nat)
    BY <2>2 DEF dead
  <2>4. DOMAIN dead = 1 .. m /\ dead[m] = 0 /\ \A c \in 1 .. n : dead[c] = deadNodes[c]
    BY ONLY <2>1, Longer DEF dead, m
  <2>5. QED  BY <2>3, <2>4
<1>5. DOMAIN cols = 1 .. m /\ cols[m] = "brown" /\ \A c \in 1 .. n : cols[c] = colour[c]
  <2>1. n \in Nat /\ colour \in [1 .. n -> {"brown", "green", "black"}]
    BY <1>1
  <2>2. QED  BY ONLY <2>1, Longer DEF cols, m
<1>6. joins' = js /\ deadNodes' = dead /\ colour' = Coloured(js, cols) /\ pen' = NoPen
      /\ workcircles' = Append(workcircles, m) /\ ~Over
      /\ turn' = After(turn + 1, GameOver(js, dead, turn + 1, <<>>))
  BY <1>3 DEF Accepts, dead, cols
<1>7. Lines' = Lines + 1 /\ Circles' = 1 .. m /\ turn = Lines /\ turn < maxGame
      /\ DOMAIN joins' = 1 .. m
  BY <1>1, <1>3, <1>6 DEF Lines, Circles, IInv, Played, Over
<1>8. \A c \in 1 .. m : js[c] \in Nat /\ js[c] <= 3 /\ dead[c] \in Nat /\ dead[c] <= 1
  <2>1. ASSUME NEW c \in 1 .. m PROVE dead[c] \in Nat /\ dead[c] <= 1
    <3>1. c = m \/ c \in 1 .. n
      BY <1>1
    <3>2. CASE c = m
      BY <1>4, <3>2
    <3>3. CASE c \in 1 .. n
      <4>1. deadNodes[c] \in Nat /\ deadNodes[c] <= 1 /\ dead[c] = deadNodes[c]
        BY <1>1, <1>4, <3>3
      <4>2. QED  BY ONLY <4>1
    <3>4. QED  BY <3>1, <3>2, <3>3
  <2>2. QED  BY <1>3, <2>1
<1>9. dead \in [1 .. m -> Nat]
  BY <1>4, <1>8
<1>10. \A c \in 1 .. m : colour'[c] = IF js[c] = 3 THEN "green" ELSE cols[c]
  BY <1>5, <1>6 DEF Coloured
<1>11. ASSUME NEW c \in 1 .. m
      PROVE  /\ colour'[c] \in {"brown", "green", "black"} /\ (colour'[c] = "green" <=> js[c] = 3)
             /\ dead[c] > 0 => colour'[c] # "brown"
  <2>1. CASE c = m
    BY <1>3, <1>4, <1>5, <1>10, <2>1
  <2>2. CASE c # m
    <3>1. c \in 1 .. n /\ c \in Circles
      BY <1>1, <2>2
    <3>2. colour[c] = "green" <=> joins[c] = 3
      BY <3>1 DEF IInv, BoardLegal
    <3>3. deadNodes[c] > 0 => colour[c] # "brown"
      BY <3>1 DEF IInv, Marked
    <3>4. joins[c] = 3 => js[c] = 3
      <4>1. js[c] \in Nat /\ js[c] <= 3 /\ js[c] >= joins[c]
        BY <1>3, <1>8, <3>1
      <4>2. QED  BY ONLY <4>1
    <3>5. colour[c] \in {"brown", "green", "black"} /\ cols[c] = colour[c] /\ dead[c] = deadNodes[c]
          /\ colour'[c] = IF js[c] = 3 THEN "green" ELSE cols[c]
      BY <1>1, <1>4, <1>5, <1>10, <3>1
    <3>6. QED  BY <3>2, <3>3, <3>4, <3>5
  <2>3. QED  BY <2>1, <2>2
<1>12. colour' \in [1 .. m -> {"brown", "green", "black"}]
  BY <1>5, <1>6, <1>11 DEF Coloured
<1>13. Total(Rooms(m, js, dead)) \in Nat
       /\ (GameOver(js, dead, turn + 1, <<>>) <=> turn + 1 = maxGame \/ Total(Rooms(m, js, dead)) < 2)
  <2>1. m \in Nat
    BY <1>1
  <2>2. Len(js) = m /\ js \in [1 .. m -> Nat]
    BY <1>3
  <2> HIDE DEF m
  <2>3. QED  BY ONLY <1>8, <1>9, <2>1, <2>2, StuckIs
<1>14. Total(Rooms(m, js, dead)) <= 3 * nodes - (Lines + 1)
  <2>1. m \in Nat
    BY <1>1
  <2>2. Total(Rooms(m, js, dead)) <= Total([c \in 1 .. m |-> 3 - js[c]])
    <3>1. js \in [1 .. m -> Nat]
      BY <1>3
    <3> HIDE DEF m
    <3>2. QED  BY ONLY <1>8, <1>9, <2>1, <3>1, RoomsLeft
  <2>3. Total([c \in 1 .. m |-> 3 - js[c]]) = 3 * nodes - (Lines + 1)
    BY <1>1, <1>3
  <2>4. QED  BY <2>2, <2>3
<1>15. Lives' = Total(Rooms(m, js, dead))
  BY <1>6, <1>7 DEF Lives, Room, Rooms
<1>16. turn' = IF GameOver(js, dead, turn + 1, <<>>) THEN turn + 1 + maxGame ELSE turn + 1
  BY <1>6 DEF After
<1>17. Over' <=> GameOver(js, dead, turn + 1, <<>>)
  <2>1. turn + 1 <= maxGame /\ turn \in Nat /\ maxGame \in Nat
    BY <1>1, <1>7
  <2>2. turn + 1 = maxGame => GameOver(js, dead, turn + 1, <<>>)
    BY <1>13
  <2>3. QED  BY <1>16, <2>1, <2>2 DEF Over, maxGame
<1>18. Over' <=> Lives' < 2
  <2>1. turn + 1 = maxGame => Total(Rooms(m, js, dead)) < 2
    BY <1>1, <1>7, <1>13, <1>14
  <2>2. QED  BY <1>13, <1>15, <1>17, <2>1
<1>19. TypeOK'
  <2>1. workcircles' \in Seq((Circles \cup {0})')
    <3>1. workcircles \in Seq(Circles \cup {0}) /\ m \in Circles' /\ Circles \subseteq Circles'
      BY <1>1, <1>7 DEF IInv, BoardLegal, TypeOK
    <3>2. workcircles \in Seq((Circles \cup {0})')
      BY <3>1
    <3>3. QED  BY <1>6, <3>1, <3>2
  <2>2. pen' \in [from : Circles' \cup {Outside}, at : Circles' \cup {Outside},
                  cuts : Seq(Circles'), down : BOOLEAN]
    BY <1>6 DEF NoPen
  <2>3. turn' \in 0 .. 3 * maxGame
    BY <1>1, <1>7, <1>16
  <2>4. joins' \in Seq(Nat)
    BY <1>3, <1>6
  <2>5. Lines' \in Nat
    BY <1>1, <1>7
  <2>6. deadNodes' \in [Circles' -> Nat]
    BY <1>6, <1>7, <1>9
  <2>7. colour' \in [Circles' -> {"brown", "green", "black"}]
    BY <1>7, <1>12
  <2>8. QED  BY <2>1, <2>2, <2>3, <2>4, <2>5, <2>6, <2>7 DEF TypeOK, maxGame
<1>20. BoardLegal'
  <2>1. \A c \in Circles' : joins'[c] <= 3 /\ deadNodes'[c] <= 1
    BY <1>6, <1>7, <1>8
  <2>2. Total([c \in Circles' |-> 3 - joins'[c]]) = 3 * nodes - Lines'
    BY <1>1, <1>3, <1>6, <1>7
  <2>3. \A c \in Circles' : colour'[c] = "green" <=> joins'[c] = 3
    BY <1>6, <1>7, <1>11
  <2>4. Lines' <= maxGame /\ (Lines' = maxGame => Over')
    BY <1>1, <1>7, <1>13, <1>17
  <2>5. Centred'
    <3>1. Len(workcircles) \in Nat /\ workcircles' = Append(workcircles, m)
          /\ Len(workcircles') = Len(workcircles) + 1
          /\ workcircles'[Len(workcircles) + 1] = m
          /\ \A c \in 1 .. Len(workcircles) : workcircles'[c] = workcircles[c]
      BY <1>6 DEF IInv, BoardLegal, TypeOK
    <3>2. Len(workcircles) >= n /\ (Len(workcircles) = n => \A c \in 1 .. n : workcircles[c] = c)
      BY <1>1 DEF IInv, BoardLegal, Centred, n
    <3>3. Len(joins') = m
      BY <1>3, <1>6
    <3>4. ASSUME Len(workcircles') = m, NEW c \in 1 .. m PROVE workcircles'[c] = c
      <4>1. Len(workcircles) = n
        BY <1>1, <3>1, <3>4
      <4>2. c = m \/ c \in 1 .. n
        BY <1>1
      <4>3. QED  BY <3>1, <3>2, <4>1, <4>2
    <3>5. Len(workcircles') >= m
      BY <1>1, <3>1, <3>2
    <3>6. QED  BY <1>7, <3>3, <3>4, <3>5 DEF Centred
  <2>6. QED  BY <1>19, <2>1, <2>2, <2>3, <2>4, <2>5 DEF BoardLegal, maxGame
<1>21. PenUp' /\ Marked'
  BY <1>6, <1>7, <1>11 DEF PenUp, Marked, NoPen
<1>22. Played'
  BY <1>7, <1>16, <1>17 DEF Played
<1>23. QED  BY <1>18, <1>20, <1>21, <1>22 DEF IInv

\* The pen comes up: nothing is drawn, or a line is rejected, or accepted.
LEMMA MouseUpInv ==
    ASSUME IInv, NEW clear \in BOOLEAN, NEW twice \in BOOLEAN, NEW apart \in BOOLEAN,
           NEW alone \in BOOLEAN, OnMouseUp(clear, twice, apart, alone)
    PROVE  IInv' /\ (deadNodes' # deadNodes => (Over' <=> Lives' < 2))
<1> DEFINE js == Joined(pen.from, pen.at)
<1>1. pen' = NoPen /\ ~Over
  BY DEF OnMouseUp
<1>2. TypeOK
  BY DEF IInv, BoardLegal
<1>3. (pen \in [from : Circles \cup {Outside}, at : Circles \cup {Outside},
                cuts : Seq(Circles), down : BOOLEAN])' /\ PenUp'
  BY <1>1 DEF NoPen, PenUp
<1>4. CASE ~PathsChecker(clear, twice)
  <2>1. UNCHANGED <<joins, colour, workcircles, deadNodes, turn>>
    BY <1>4 DEF OnMouseUp
  <2>2. (workcircles \in Seq(Circles \cup {0}))'
    BY <1>2, <2>1 DEF TypeOK, Circles
  <2>3. Centred'
    BY <2>1 DEF IInv, BoardLegal, Centred, Circles
  <2>4. QED  BY <1>3, <2>1, <2>2, <2>3, PenInv
<1>5. CASE PathsChecker(clear, twice) /\ ~CirclesChecker(js, apart, alone)
  <2>1. UNCHANGED <<joins, colour, deadNodes, turn>> /\ workcircles' = Append(workcircles, 0)
    BY <1>5 DEF OnMouseUp
  <2>2. (workcircles \in Seq(Circles \cup {0}))'
    <3>1. Circles' = Circles /\ workcircles \in Seq(Circles \cup {0})
      BY <1>2, <2>1 DEF TypeOK, Circles
    <3>2. QED  BY <2>1, <3>1
  <2>3. Centred'
    <3>1. Len(workcircles') = Len(workcircles) + 1 /\ Len(workcircles) \in Nat
          /\ Len(joins) \in Nat
      BY <1>2, <2>1 DEF TypeOK
    <3>2. Len(workcircles) >= Len(joins)
      BY DEF IInv, BoardLegal, Centred
    <3>3. QED  BY <2>1, <3>1, <3>2 DEF Centred
  <2>4. QED  BY <1>3, <2>1, <2>2, <2>3, PenInv
<1>6. CASE PathsChecker(clear, twice) /\ CirclesChecker(js, apart, alone)
  <2>1. pen.from \in Circles /\ pen.at \in Circles
    BY <1>2, <1>6 DEF PathsChecker, TypeOK
  <2>2. \A c \in DOMAIN js : js[c] <= 3
    BY <1>6 DEF CirclesChecker
  <2>3. Accepts(js)
    BY <1>1, <1>6 DEF OnMouseUp, Accepts
  <2>4. QED  BY <2>1, <2>2, <2>3, AcceptInv
<1>7. QED  BY <1>4, <1>5, <1>6

\* Marking a circle: only a brown one, which was not dead before, and the game
\* ends when no line fits any more.
LEMMA KeyDownInv ==
    ASSUME IInv, NEW c \in Circles \cup {Outside}, OnKeyDown(c)
    PROVE  /\ IInv'
           /\ ~Over /\ ~pen'.down /\ deadNodes' # deadNodes => (Over' <=> Lives' < 2)
<1> DEFINE n == Len(joins)
           kills == c # Outside /\ colour[c] = "brown"
           over == GameOver(joins, deadNodes', turn, pen.cuts)
<1>1. /\ n \in Nat /\ n = nodes + Lines /\ nodes \in Nat \ {0} /\ Lines \in Nat
      /\ Circles = 1 .. n /\ joins \in [1 .. n -> Nat] /\ (\A i \in 1 .. n : joins[i] <= 3)
      /\ deadNodes \in [1 .. n -> Nat] /\ (\A i \in 1 .. n : deadNodes[i] <= 1)
      /\ colour \in [1 .. n -> {"brown", "green", "black"}]
      /\ maxGame \in Nat /\ maxGame = 3 * nodes - 1 /\ turn \in Nat
      /\ Total([i \in 1 .. n |-> 3 - joins[i]]) = 3 * nodes - Lines
  BY BoardIs
<1>2. /\ deadNodes' = IF kills THEN [deadNodes EXCEPT ![c] = @ + 1] ELSE deadNodes
      /\ colour' = IF kills THEN [colour EXCEPT ![c] = "black"] ELSE colour
      /\ turn <= 2 * maxGame /\ turn' = After(turn, over)
      /\ UNCHANGED <<joins, workcircles, pen>>
  BY DEF OnKeyDown
<1>3. Circles' = Circles /\ Lines' = Lines
  BY <1>2 DEF Circles, Lines
<1>4. kills => c \in 1 .. n /\ deadNodes[c] = 0 /\ joins[c] # 3
  <2>1. SUFFICES ASSUME kills PROVE c \in 1 .. n /\ deadNodes[c] = 0 /\ joins[c] # 3
    OBVIOUS
  <2>2. c \in 1 .. n /\ c \in Circles /\ colour[c] = "brown"
    BY <1>1, <2>1
  <2>3. ~(deadNodes[c] > 0) /\ joins[c] # 3
    BY <2>2 DEF IInv, BoardLegal, Marked
  <2>4. deadNodes[c] \in Nat
    BY <1>1, <2>2
  <2>5. QED  BY <2>2, <2>3, <2>4
<1> HIDE DEF n, kills, over
<1>5. deadNodes' \in [1 .. n -> Nat] /\ colour' \in [1 .. n -> {"brown", "green", "black"}]
      /\ \A i \in 1 .. n :
           /\ deadNodes'[i] <= 1
           /\ colour'[i] = "green" <=> joins[i] = 3
           /\ deadNodes'[i] > 0 => colour'[i] # "brown"
  <2>1. \A i \in 1 .. n : /\ colour[i] = "green" <=> joins[i] = 3
                          /\ deadNodes[i] > 0 => colour[i] # "brown"
    BY <1>1 DEF IInv, BoardLegal, Marked
  <2>2. CASE ~kills
    BY <1>1, <1>2, <2>1, <2>2
  <2>3. CASE kills
    <3>1. deadNodes' = [deadNodes EXCEPT ![c] = @ + 1] /\ colour' = [colour EXCEPT ![c] = "black"]
      BY <1>2, <2>3
    <3>2. c \in 1 .. n /\ deadNodes[c] = 0 /\ joins[c] # 3
      BY <1>4, <2>3
    <3>3. ASSUME NEW i \in 1 .. n
          PROVE  /\ deadNodes'[i] \in Nat /\ deadNodes'[i] <= 1
                 /\ colour'[i] \in {"brown", "green", "black"}
                 /\ colour'[i] = "green" <=> joins[i] = 3
                 /\ deadNodes'[i] > 0 => colour'[i] # "brown"
      <4>1. CASE i = c
        <5>1. deadNodes'[i] = 1 /\ colour'[i] = "black"
          BY <1>1, <3>1, <3>2, <4>1
        <5>2. QED  BY <3>2, <4>1, <5>1
      <4>2. CASE i # c
        <5>1. deadNodes'[i] = deadNodes[i] /\ colour'[i] = colour[i]
          BY <1>1, <3>1, <4>2
        <5>2. QED  BY <1>1, <2>1, <5>1
      <4>3. QED  BY <4>1, <4>2
    <3>4. DOMAIN deadNodes' = 1 .. n /\ DOMAIN colour' = 1 .. n
      BY <1>1, <3>1
    <3>5. deadNodes' = [i \in 1 .. n |-> deadNodes'[i]] /\ colour' = [i \in 1 .. n |-> colour'[i]]
      BY <1>1, <3>1, <3>4
    <3>6. QED  BY <3>3, <3>5
  <2>4. QED  BY <2>2, <2>3
<1>6. turn' = (IF over THEN turn + maxGame ELSE turn) /\ turn' \in Nat /\ turn' <= 3 * maxGame
      /\ (Over => Over')
  <2>1. turn' = IF over THEN turn + maxGame ELSE turn
    BY <1>2 DEF After
  <2>2. QED  BY <1>1, <1>2, <2>1 DEF Over, maxGame
<1>7. turn = maxGame => over
  BY DEF GameOver, over
<1>8. Over' <=> Over \/ over
  BY <1>1, <1>6 DEF Over, maxGame
<1>9. TypeOK'
  <2>1. TypeOK /\ turn' \in 0 .. 3 * maxGame
    BY <1>1, <1>6 DEF IInv, BoardLegal
  <2>2. deadNodes' \in [Circles' -> Nat] /\ colour' \in [Circles' -> {"brown", "green", "black"}]
    BY <1>1, <1>3, <1>5
  <2>3. QED  BY <1>2, <1>3, <2>1, <2>2 DEF TypeOK, maxGame
<1>10. BoardLegal'
  <2>1. (\A i \in Circles' : joins'[i] <= 3 /\ deadNodes'[i] <= 1)
        /\ (\A i \in Circles' : colour'[i] = "green" <=> joins'[i] = 3)
    BY <1>1, <1>2, <1>3, <1>5
  <2>2. Total([i \in Circles' |-> 3 - joins'[i]]) = 3 * nodes - Lines'
    BY <1>1, <1>2, <1>3
  <2>3. Lines' <= maxGame /\ (Lines' = maxGame => Over')
    BY <1>3, <1>6 DEF IInv, BoardLegal, maxGame
  <2>4. Centred'
    BY <1>2, <1>3 DEF IInv, BoardLegal, Centred
  <2>5. QED  BY <1>9, <2>1, <2>2, <2>3, <2>4 DEF BoardLegal, maxGame
<1>11. PenUp' /\ Marked'
  BY <1>1, <1>2, <1>3, <1>5 DEF IInv, PenUp, Marked
<1>12. Played'
  BY <1>1, <1>3, <1>6, <1>8 DEF IInv, Played
<1>13. ~Over /\ ~pen'.down => (Over' <=> Lives' < 2)
  <2> SUFFICES ASSUME ~Over, ~pen'.down PROVE Over' <=> Lives' < 2
    OBVIOUS
  <2>1. pen.cuts = <<>>
    BY <1>2 DEF IInv, PenUp, NoPen
  <2> DEFINE rooms == Total(Rooms(n, joins, deadNodes'))
  <2>2. n = Len(joins) /\ \A i \in 1 .. n : joins[i] \in Nat /\ joins[i] <= 3
                               /\ deadNodes'[i] \in Nat /\ deadNodes'[i] <= 1
    BY <1>1, <1>5 DEF n
  <2>3. rooms \in Nat
        /\ (GameOver(joins, deadNodes', turn, <<>>) <=> turn = maxGame \/ rooms < 2)
    BY <1>1, <1>5, <2>2, StuckIs
  <2>4. Lives' = rooms
    BY <1>1, <1>2, <1>3 DEF Lives, Room, Rooms
  <2>5. turn < maxGame
    BY <1>1 DEF Over, maxGame
  <2>6. over <=> rooms < 2
    BY <1>1, <2>1, <2>3, <2>5 DEF over
  <2>7. QED  BY <1>8, <2>4, <2>6
<1>14. QED  BY <1>10, <1>11, <1>12, <1>13 DEF IInv

-----------------------------------------------------------------------------
\* The step of the invariant, and what a step says of the end of the game.
LEMMA StepInv ==
    ASSUME IInv, [Next]_vars
    PROVE  /\ IInv'
           /\ ~Over /\ ~pen'.down /\ deadNodes' # deadNodes => (Over' <=> Lives' < 2)
<1>1. ASSUME NEW c \in Circles \cup {Outside}, OnMouseDown(c)
      PROVE  IInv' /\ deadNodes' = deadNodes
  BY <1>1, DrawInv DEF OnMouseDown
<1>2. ASSUME NEW c \in Circles, OnMouseDrag(c)
      PROVE  IInv' /\ deadNodes' = deadNodes
  BY <1>2, DrawInv DEF OnMouseDrag
<1>3. ASSUME UNCHANGED vars
      PROVE  IInv' /\ deadNodes' = deadNodes
  <2>1. Circles' = Circles /\ Lines' = Lines
    BY <1>3 DEF vars, Circles, Lines
  <2>2. QED
    BY <1>3, <2>1 DEF vars, IInv, BoardLegal, Centred, TypeOK, PenUp, Played, Marked, Over
<1>4. QED  BY <1>1, <1>2, <1>3, MouseUpInv, KeyDownInv DEF Next

\* Whatever is drawn, rejected and marked, and in whatever order, every circle
\* has at most three lines, is green when it has three, is marked at most once,
\* and every accepted line has taken one end, and until a move is rejected each
\* circle has its own invisible one (sprouts.js:76, 117, 338-375).
THEOREM BoardAlwaysLegal == Spec => []BoardLegal
<1>1. IInv => BoardLegal
  BY DEF IInv
<1>2. QED  BY <1>1, InitInv, StepInv, PTL DEF Spec

\* The sums over the paths that gameoverChecker takes (sprouts.js:290-308) find
\* the end of the game exactly when fewer than two ends are left.
THEOREM AlwaysEndsWhenStuck == Spec => EndsWhenStuck
<1>1. IInv /\ [Next]_vars
      => [~Over /\ ~pen'.down /\ deadNodes' # deadNodes => (Over' <=> Lives' < 2)]_vars
  BY StepInv
<1>2. IInv /\ [Next]_vars => IInv'
  BY StepInv
<1>3. QED  BY <1>1, <1>2, InitInv, PTL DEF Spec, EndsWhenStuck
=============================================================================
