-------------------------- MODULE RouteNotes_proofs --------------------------
(***************************************************************************)
(* Proofs about RouteNotes, for any outputs, settings, notes and queue:    *)
(* outputs with the same settings play one note, if their route was        *)
(* started between two frames, every output follows the frame's sample and *)
(* offset, the transposition is the one of the page and the keyboard, and  *)
(* a RESET ON RELEASE route does not keep one that no key holds.           *)
(***************************************************************************)
EXTENDS RouteNotes, TLAPS, WellFoundedInduction

-----------------------------------------------------------------------------
(* Least numbers, which stand for induction below, and remainders.         *)

LEMMA LeastNumber ==
    ASSUME NEW T, T \subseteq Nat, T # {}
    PROVE  \E x \in T : \A y \in T : x <= y
<1> DEFINE R == OpToRel(<, Nat)
<1>1. IsWellFoundedOn(R, Nat)
  BY NatLessThanWellFounded
<1>2. \E x \in T : \A y \in T : <<y, x>> \notin R
  <2> HIDE DEF R
  <2> QED
    BY <1>1, WFMin
<1>3. \A x, y \in Nat : <<y, x>> \notin R => x <= y
  BY DEF OpToRel
<1> QED
  BY <1>2, <1>3

LEMMA MinIsLeast ==
    ASSUME NEW T, T \subseteq Nat, T # {}
    PROVE  Min(T) \in T /\ \A y \in T : Min(T) <= y
  BY LeastNumber DEF Min

LEMMA MaxIsGreatest ==
    ASSUME NEW m \in Int, NEW n \in Int, NEW T, T \subseteq m..n, T # {}
    PROVE  Max(T) \in T /\ \A y \in T : y <= Max(T)
<1> DEFINE D == {n - x : x \in T}
<1>1. PICK d \in D : \A e \in D : d <= e
  <2>1. \A x \in T : n - x \in Nat
    OBVIOUS
  <2>2. D \subseteq Nat /\ D # {}
    BY <2>1
  <2> HIDE DEF D
  <2> QED
    BY <2>2, LeastNumber
<1>2. PICK x \in T : d = n - x
  OBVIOUS
<1>3. \A y \in T : n - y \in D
  OBVIOUS
<1>4. \A y \in T : x >= y
  BY <1>1, <1>2, <1>3
<1>5. \A y, z \in T : y >= z <=> z <= y
  OBVIOUS
<1> HIDE DEF D
<1> QED
  BY <1>4, <1>5 DEF Max

LEMMA Multiples ==
    ASSUME NEW n \in Nat, NEW i \in Int, NEW j \in Int, i <= j
    PROVE  n * i \in Int /\ n * j \in Int /\ n * i <= n * j
<1>1. PICK k \in Nat : j = i + k
  OBVIOUS
<1>2. n * k \in Nat /\ n * i \in Int /\ n * j = n * i + n * k
  BY <1>1
<1> QED
  BY <1>2

\* Every number is in one place of one period.
LEMMA Places ==
    ASSUME NEW P \in Nat \ {0}, NEW x \in Int
    PROVE  /\ x % P \in 0..(P - 1)
           /\ \E k \in Int : x = P * k + (x % P)
<1>1. x % P \in 0..(P - 1)
  OBVIOUS
<1>2. x \div P \in Int /\ x = P * (x \div P) + (x % P)
  OBVIOUS
<1> QED
  BY <1>1, <1>2

LEMMA PlaceIs ==
    ASSUME NEW P \in Nat \ {0}, NEW j \in Int, NEW d \in 0..(P - 1)
    PROVE  (P * j + d) % P = d
<1> DEFINE x == P * j + d
<1>0. P * j \in Int /\ x \in Int
  OBVIOUS
<1>1. PICK k \in Int : x = P * k + (x % P)
  BY <1>0, Places
<1>2. x % P \in 0..(P - 1)
  BY <1>0, Places
<1>3. k = j
  <2>1. CASE k < j
    <3>1. P * (k + 1) <= P * j /\ P * (k + 1) = P * k + P /\ P * k \in Int
      BY <2>1, Multiples
    <3> QED
      BY <1>0, <1>1, <1>2, <3>1
  <2>2. CASE k > j
    <3>1. P * (j + 1) <= P * k /\ P * (j + 1) = P * j + P /\ P * k \in Int
      BY <2>2, Multiples
    <3> QED
      BY <1>0, <1>1, <1>2, <3>1
  <2> QED
    BY <2>1, <2>2
<1> QED
  BY <1>0, <1>1, <1>2, <1>3

-----------------------------------------------------------------------------
(* The pitch of an output.                                                 *)

LEMMA ScaleIsSorted ==
    ASSUME NEW s \in Scales
    PROVE  /\ Period[s] \in Nat \ {0} /\ Count(s) \in Nat \ {0}
           /\ DOMAIN Degrees[s] = 1..Count(s)
           /\ \A i \in 1..Count(s) : Degrees[s][i] \in 0..(Period[s] - 1)
           /\ Range(Degrees[s]) \subseteq 0..(Period[s] - 1)
           /\ Head(Degrees[s]) \in 0..(Period[s] - 1) /\ Last(Degrees[s]) \in 0..(Period[s] - 1)
<1> DEFINE D == Degrees[s]
           P == 0..(Period[s] - 1)
<1>1. Period[s] \in Nat \ {0} /\ D \in Seq(P) /\ D # <<>>
  BY NotesAssumption
<1> HIDE DEF D, P
<1>2. Len(D) \in Nat \ {0} /\ DOMAIN D = 1..Len(D) /\ \A i \in 1..Len(D) : D[i] \in P
  BY <1>1
<1>3. Range(D) \subseteq P
  BY <1>2 DEF Range
<1>4. Head(D) \in P /\ Last(D) \in P
  BY <1>1, <1>2 DEF Last
<1> QED
  BY <1>1, <1>2, <1>3, <1>4 DEF D, P, Count

LEMMA PhaseInPeriod ==
    ASSUME NEW s \in Scales, NEW p \in Int
    PROVE  p % Period[s] \in 0..(Period[s] - 1) /\ Cycle(s, p) \in Int
<1>1. p % Period[s] \in 0..(Period[s] - 1)
  BY ScaleIsSorted
<1> QED
  BY <1>1 DEF Cycle

LEMMA FirstAndLast ==
    ASSUME NEW s \in Scales
    PROVE  /\ Head(Degrees[s]) \in Range(Degrees[s]) /\ Last(Degrees[s]) \in Range(Degrees[s])
           /\ \A d \in Range(Degrees[s]) : Head(Degrees[s]) <= d /\ d <= Last(Degrees[s])
<1> DEFINE D == Degrees[s]
<1>1. /\ Len(D) \in Nat \ {0} /\ DOMAIN D = 1..Len(D)
      /\ \A i \in 1..Len(D) : D[i] \in 0..(Period[s] - 1)
      /\ \A i, j \in 1..Len(D) : i < j => D[i] < D[j]
      /\ Period[s] \in Nat \ {0}
  BY ScaleIsSorted, NotesAssumption DEF Count
<1>2. Head(D) = D[1] /\ Last(D) = D[Len(D)]
  <2>1. D \in Seq(0..(Period[s] - 1)) /\ D # <<>>
    BY NotesAssumption
  <2> HIDE DEF D
  <2> QED
    BY <2>1 DEF Last
<1> HIDE DEF D
<1>3. \A i \in 1..Len(D) : D[1] <= D[i] /\ D[i] <= D[Len(D)]
  <2> SUFFICES ASSUME NEW i \in 1..Len(D) PROVE D[1] <= D[i] /\ D[i] <= D[Len(D)]
    OBVIOUS
  <2>1. D[1] \in Int /\ D[i] \in Int /\ D[Len(D)] \in Int
    BY <1>1
  <2>2. (1 < i => D[1] < D[i]) /\ (i < Len(D) => D[i] < D[Len(D)])
    BY <1>1
  <2>3. i = 1 \/ 1 < i
    BY <1>1
  <2>4. i = Len(D) \/ i < Len(D)
    <3>1. PICK N \in Nat : N = Len(D)
      BY <1>1
    <3> QED
      BY <3>1
  <2> QED
    BY <2>1, <2>2, <2>3, <2>4
<1>4. Range(D) = {D[i] : i \in 1..Len(D)}
  BY <1>1 DEF Range
<1> QED
  BY <1>1, <1>2, <1>3, <1>4 DEF D

\* Where a degree of the scale is.
LEMMA DegreePlaces ==
    ASSUME NEW s \in Scales
    PROVE  /\ \A x \in Int : IsDegree(s, x) =>
                 \E j \in Int, d \in Range(Degrees[s]) : x = Period[s] * j + d
           /\ \A j \in Int, d \in Range(Degrees[s]) : IsDegree(s, Period[s] * j + d)
<1> DEFINE P == Period[s]
<1>1. P \in Nat \ {0} /\ Range(Degrees[s]) \subseteq 0..(P - 1)
  BY ScaleIsSorted
<1> HIDE DEF P
<1>2. ASSUME NEW x \in Int, x % P \in Range(Degrees[s])
      PROVE  \E j \in Int, d \in Range(Degrees[s]) : x = P * j + d
  BY <1>1, <1>2, Places
<1>3. ASSUME NEW j \in Int, NEW d \in Range(Degrees[s])
      PROVE  (P * j + d) % P \in Range(Degrees[s])
  BY <1>1, PlaceIs
<1> QED
  BY <1>2, <1>3 DEF IsDegree, P

\* The bracket holds the pitch and no degree but its ends.
LEMMA Neighbours ==
    ASSUME NEW s \in Scales, NEW p \in Int
    PROVE  /\ Below(s, p) \in Int /\ Above(s, p) \in Int
           /\ Below(s, p) <= p /\ p < Above(s, p)
           /\ IsDegree(s, Below(s, p)) /\ IsDegree(s, Above(s, p))
           /\ \A x \in Int : IsDegree(s, x) => x <= Below(s, p) \/ x >= Above(s, p)
<1> DEFINE P == Period[s]
           R == Range(Degrees[s])
           first == Head(Degrees[s])
           last == Last(Degrees[s])
           low(q) == {x \in R \union {last - P} : x <= q}
           high(q) == {x \in R \union {first + P} : x > q}
<1>1. /\ P \in Nat \ {0} /\ R \subseteq 0..(P - 1)
      /\ first \in R /\ last \in R /\ \A d \in R : first <= d /\ d <= last
  BY ScaleIsSorted, FirstAndLast
<1>2. PICK q \in 0..(P - 1), k \in Int : q = p % P /\ p = P * k + q
  BY <1>1, Places
<1>3. P * k \in Int /\ Cycle(s, p) = P * k
  BY <1>1, <1>2 DEF Cycle
<1>4. Below(s, p) = P * k + Max(low(q)) /\ Above(s, p) = P * k + Min(high(q))
  BY <1>2, <1>3 DEF Below, Above, Floor, Ceiling
<1> HIDE DEF P, R, first, last
<1>5. Max(low(q)) \in low(q) /\ \A y \in low(q) : y <= Max(low(q))
  <2>1. last - P \in low(q)
    BY <1>1
  <2>2. low(q) \subseteq (0 - P)..P
    <3>1. \A x \in R \union {last - P} : x \in Int /\ 0 - P <= x /\ x <= P
      BY <1>1
    <3>2. \A x \in low(q) : x \in R \union {last - P}
      OBVIOUS
    <3> HIDE DEF low
    <3>3. PICK m \in Int, n \in Int : m = 0 - P /\ n = P
      BY <1>1
    <3>4. \A x \in low(q) : x \in m..n
      BY <3>1, <3>2, <3>3
    <3> QED
      BY <3>3, <3>4
  <2>3. 0 - P \in Int /\ P \in Int
    BY <1>1
  <2> HIDE DEF low
  <2> QED
    BY <2>1, <2>2, <2>3, MaxIsGreatest
<1>6. Min(high(q)) \in high(q) /\ \A y \in high(q) : Min(high(q)) <= y
  <2>1. first + P \in high(q)
    BY <1>1
  <2>2. high(q) \subseteq Nat
    <3>1. \A x \in R \union {first + P} : x \in Nat
      BY <1>1
    <3> QED
      BY <3>1
  <2> HIDE DEF high
  <2> QED
    BY <2>1, <2>2, MinIsLeast
<1>7. PICK m \in low(q), n \in high(q) :
          /\ Below(s, p) = P * k + m /\ \A y \in low(q) : y <= m
          /\ Above(s, p) = P * k + n /\ \A y \in high(q) : n <= y
  BY <1>4, <1>5, <1>6
<1>8. m \in Int /\ n \in Int /\ m <= q /\ n > q
  BY <1>1
<1>9. IsDegree(s, Below(s, p))
  <2>1. CASE m \in R
    BY <1>7, <2>1, DegreePlaces DEF P, R
  <2>2. CASE m = last - P
    <3>1. k - 1 \in Int /\ P * k + m = P * (k - 1) + last
      BY <1>1, <1>3, <2>2
    <3> QED
      BY <1>1, <1>7, <3>1, DegreePlaces DEF P, R
  <2> QED
    BY <2>1, <2>2
<1>10. IsDegree(s, Above(s, p))
  <2>1. CASE n \in R
    BY <1>7, <2>1, DegreePlaces DEF P, R
  <2>2. CASE n = first + P
    <3>1. k + 1 \in Int /\ P * k + n = P * (k + 1) + first
      BY <1>1, <1>3, <2>2
    <3> QED
      BY <1>1, <1>7, <3>1, DegreePlaces DEF P, R
  <2> QED
    BY <2>1, <2>2
<1>11. ASSUME NEW x \in Int, IsDegree(s, x)
       PROVE  x <= Below(s, p) \/ x >= Above(s, p)
  <2>1. PICK j \in Int, d \in R : x = P * j + d
    BY <1>11, DegreePlaces DEF P, R
  <2>2. d \in Int /\ 0 <= d /\ d < P /\ first <= d /\ d <= last /\ first \in Int /\ last \in Int
    BY <1>1
  <2>3. CASE j = k
    <3>1. d \in low(q) \/ d \in high(q)
      BY <2>2
    <3>2. d <= m \/ n <= d
      BY <1>7, <3>1
    <3> QED
      BY <1>3, <1>7, <1>8, <2>1, <2>2, <2>3, <3>2
  <2>4. CASE j < k
    <3>1. P * j <= P * (k - 1) /\ P * (k - 1) = P * k - P /\ P * j \in Int
      BY <1>1, <1>3, <2>4, Multiples
    <3>2. last - P \in low(q)
      BY <1>1, <2>2
    <3>3. last - P <= m
      BY <1>7, <3>2
    <3> QED
      BY <1>1, <1>3, <1>7, <1>8, <2>1, <2>2, <3>1, <3>3
  <2>5. CASE j > k
    <3>1. P * (k + 1) <= P * j /\ P * (k + 1) = P * k + P /\ P * j \in Int
      BY <1>1, <1>3, <2>5, Multiples
    <3>2. first + P \in high(q)
      BY <1>1, <2>2
    <3>3. n <= first + P
      BY <1>7, <3>2
    <3> QED
      BY <1>1, <1>3, <1>7, <1>8, <2>1, <2>2, <3>1, <3>3
  <2> QED
    BY <2>3, <2>4, <2>5
<1> QED
  BY <1>2, <1>3, <1>7, <1>8, <1>9, <1>10, <1>11

LEMMA QuantizedIsPitch ==
    ASSUME NEW s \in Scales, NEW p \in Int, NEW previous \in Int \union {None}
    PROVE  Quantize(s, p, previous) \in Int
  BY Neighbours DEF Quantize

LEMMA DistributedIsPitch ==
    ASSUME NEW s \in Scales, NEW p \in Int, NEW previous \in Int \union {None}
    PROVE  Distribute(s, p, previous) \in Int
<1> DEFINE bins == {i \in 1..Count(s) : (i - 1) * Period[s] <= (p % Period[s]) * Count(s)}
<1>0. PICK q \in Nat : q = p % Period[s]
  BY PhaseInPeriod
<1>1. Count(s) \in Nat \ {0} /\ Period[s] \in Nat \ {0}
  BY ScaleIsSorted
<1>2. q * Count(s) \in Nat
  BY <1>1
<1>3. 1 \in bins
  BY <1>0, <1>1, <1>2
<1>4. bins \subseteq 1..Count(s)
  OBVIOUS
<1>5. Bin(s, p) \in 1..Count(s)
  <2> HIDE DEF bins
  <2>0. PICK m \in Int, n \in Int : m = 1 /\ n = Count(s)
    BY <1>1
  <2>1. Max(bins) \in bins
    BY <1>3, <1>4, <2>0, MaxIsGreatest
  <2> QED
    BY <1>4, <2>1 DEF Bin, bins
<1>6. Degrees[s][Bin(s, p)] \in Int
  BY <1>5, ScaleIsSorted
<1> QED
  BY <1>6, PhaseInPeriod DEF Distribute

LEMMA PitchIsPitch ==
    ASSUME NEW t \in Tunings, NEW at \in Int, NEW o \in Int, NEW before \in Int \union {None}
    PROVE  Pitch(t, at, o, before) \in Int
<1> DEFINE shift == Semitone * (t.transpose + o)
           previous == IF before = None THEN None ELSE before - shift - t.root
           p == at + t.zero - t.root
<1>1. /\ t.scale \in Scales /\ t.zero \in Int /\ t.root \in Int /\ t.transpose \in Int
      /\ Semitone \in Int
  BY NotesAssumption DEF Tunings
<1>2. shift \in Int /\ Semitone * o \in Int
  BY <1>1
<1>3. p \in Int /\ previous \in Int \union {None}
  <2> HIDE DEF shift
  <2> QED
    BY <1>1, <1>2
<1> HIDE DEF shift, previous, p
<1>4. Quantize(t.scale, p, previous) \in Int /\ Distribute(t.scale, p, previous) \in Int
  BY <1>1, <1>3, QuantizedIsPitch, DistributedIsPitch
<1>5. Pitch(t, at, o, before) =
          IF ~t.quantize THEN at + t.zero + Semitone * o
          ELSE (IF t.equal THEN Distribute(t.scale, p, previous)
                           ELSE Quantize(t.scale, p, previous)) + t.root + shift
  BY DEF Pitch, shift, previous, p
<1> QED
  BY <1>1, <1>2, <1>4, <1>5

\* A degree that was chosen is kept, for its hysteresis only widens its part.
LEMMA QuantizeSettles ==
    ASSUME NEW s \in Scales, NEW p \in Int, NEW previous \in Int \union {None}
    PROVE  Quantize(s, p, Quantize(s, p, previous)) = Quantize(s, p, previous)
<1> DEFINE lower == Below(s, p)
           upper == Above(s, p)
           n == Quantize(s, p, previous)
<1>1. CASE previous # None /\ Held(s, p, previous)
  <2>1. n = previous
    BY <1>1 DEF Quantize
  <2> QED
    BY <1>1, <2>1 DEF Quantize
<1>2. CASE ~(previous # None /\ Held(s, p, previous))
  <2>1. n = IF p - lower < upper - p THEN lower ELSE upper
    BY <1>2 DEF Quantize
  <2>2. /\ lower \in Int /\ upper \in Int /\ lower <= p /\ p < upper
        /\ IsDegree(s, lower) /\ IsDegree(s, upper)
        /\ \A x \in Int : IsDegree(s, x) => x <= lower \/ x >= upper
    BY Neighbours
  <2>3. n \in Int /\ n # None
    BY <2>1, <2>2, NotesAssumption
  <2> DEFINE down == n - Below(s, n - 1)
             up == Above(s, n) - n
  <2>4. /\ Below(s, n - 1) \in Int /\ Below(s, n - 1) <= n - 1 /\ IsDegree(s, Below(s, n - 1))
        /\ \A x \in Int : IsDegree(s, x) => x <= Below(s, n - 1) \/ x >= Above(s, n - 1)
        /\ Above(s, n - 1) \in Int /\ n - 1 < Above(s, n - 1)
    BY <2>3, Neighbours
  <2>5. /\ Above(s, n) \in Int /\ n < Above(s, n) /\ IsDegree(s, Above(s, n))
        /\ \A x \in Int : IsDegree(s, x) => x <= Below(s, n) \/ x >= Above(s, n)
        /\ Below(s, n) \in Int /\ Below(s, n) <= n
    BY <2>3, Neighbours
  <2>6. n = lower => Above(s, n) = upper
    BY <2>2, <2>5
  <2>7. n = upper => Below(s, n - 1) = lower
    BY <2>2, <2>4
  <2>8. \A gap \in Nat : Slack(gap) \in Nat
    <3> SUFFICES ASSUME NEW gap \in Nat PROVE Slack(gap) \in Nat
      OBVIOUS
    <3>1. {gap \div 4, Hysteresis} \subseteq Nat
      BY NotesAssumption
    <3> QED
      BY <3>1, MinIsLeast DEF Slack
  <2>9. down \in Nat /\ up \in Nat /\ Slack(down) \in Nat /\ Slack(up) \in Nat
    <3>1. down \in Nat /\ up \in Nat
      BY <2>3, <2>4, <2>5
    <3> QED
      BY <2>8, <3>1
  <2>10. IsDegree(s, n)
    BY <2>1, <2>2
  <2> HIDE DEF n, lower, upper
  <2>11. 2 * p >= 2 * n - down - 2 * Slack(down) /\ 2 * p <= 2 * n + up + 2 * Slack(up)
    <3>1. CASE p - lower < upper - p
      <4>1. n = lower /\ up = upper - lower
        BY <2>1, <2>6, <3>1
      <4> HIDE DEF down, up
      <4> QED
        BY <2>2, <2>9, <3>1, <4>1
    <3>2. CASE ~(p - lower < upper - p)
      <4>1. n = upper /\ down = upper - lower
        BY <2>1, <2>7, <3>2
      <4> HIDE DEF down, up
      <4> QED
        BY <2>2, <2>9, <3>2, <4>1
    <3> QED
      BY <3>1, <3>2
  <2>12. Held(s, p, n)
    BY <2>10, <2>11 DEF Held
  <2>13. Quantize(s, p, n) = n
    BY <2>3, <2>12 DEF Quantize
  <2> QED
    BY <2>13 DEF n
<1> QED
  BY <1>1, <1>2

LEMMA DistributeSettles ==
    ASSUME NEW s \in Scales, NEW p \in Int, NEW previous \in Int \union {None}
    PROVE  Distribute(s, p, Distribute(s, p, previous)) = Distribute(s, p, previous)
<1> DEFINE n == Distribute(s, p, previous)
           P == Period[s]
           C == Count(s)
<1>1. CASE previous # None /\ HeldBin(s, p, previous)
  <2>1. n = previous
    BY <1>1 DEF Distribute
  <2> QED
    BY <1>1, <2>1 DEF Distribute
<1>2. CASE ~(previous # None /\ HeldBin(s, p, previous))
  <2>1. n = Cycle(s, p) + Degrees[s][Bin(s, p)]
    BY <1>2 DEF Distribute
  <2>2. P \in Nat \ {0} /\ C \in Nat \ {0} /\ \A i \in 1..C : Degrees[s][i] \in 0..(P - 1)
    BY ScaleIsSorted
  <2>3. PICK q \in 0..(P - 1), k \in Int : q = p % P /\ p = P * k + q
    BY <2>2, Places
  <2>4. P * k \in Int /\ Cycle(s, p) = P * k
    BY <2>2, <2>3 DEF Cycle
  <2> DEFINE bins == {i \in 1..C : (i - 1) * P <= q * C}
  <2>5. Bin(s, p) = Max(bins)
    BY <2>3 DEF Bin
  <2> HIDE DEF n, P, C
  <2>6. q * C \in Nat
    BY <2>2
  <2>7. Max(bins) \in bins /\ \A i \in bins : i <= Max(bins)
    <3>1. 1 \in bins
      BY <2>2, <2>6
    <3>2. bins \subseteq 1..C /\ 1 \in Int /\ C \in Int
      BY <2>2
    <3> HIDE DEF bins
    <3> QED
      BY <3>1, <3>2, MaxIsGreatest
  <2>8. PICK b \in bins : b = Bin(s, p) /\ \A i \in bins : i <= b
    BY <2>5, <2>7
  <2>9. b \in 1..C /\ (b - 1) * P <= q * C /\ q * C < b * P
    <3>1. CASE b < C
      <4>1. b + 1 \in 1..C /\ b + 1 \notin bins
        BY <2>2, <2>8, <3>1
      <4>2. b * P \in Int /\ ~(b * P <= q * C)
        BY <2>2, <4>1
      <4> QED
        BY <2>6, <4>2
    <3>2. CASE b = C
      <4>1. PICK r \in Nat : P = q + 1 + r
        BY <2>2
      <4>2. C * P = C * q + C + C * r /\ C * r \in Nat /\ C * q = q * C
        BY <2>2, <4>1
      <4> QED
        BY <2>2, <2>6, <3>2, <4>2
    <3> QED
      BY <2>2, <3>1, <3>2
  <2>10. PICK d \in 0..(P - 1) : d = Degrees[s][b] /\ n = P * k + d
    BY <2>1, <2>2, <2>4, <2>8, <2>9
  <2>11. n \in Int /\ n # None /\ n % P = d
    <3>1. n \in Int
      BY <2>2, <2>4, <2>10
    <3> QED
      BY <2>2, <2>10, <3>1, PlaceIs, NotesAssumption
  <2>12. Cycle(s, n) = P * k
    BY <2>2, <2>4, <2>10, <2>11 DEF Cycle, P
  <2> DEFINE margin == Min({P \div (C * 4), Hysteresis}) * C
  <2>13. margin \in Nat
    <3>1. P \div (C * 4) \in Nat
      <4>1. C * 4 \in Nat \ {0}
        BY <2>2
      <4> QED
        BY <2>2, <4>1
    <3>2. {P \div (C * 4), Hysteresis} \subseteq Nat /\ {P \div (C * 4), Hysteresis} # {}
      BY <3>1, NotesAssumption
    <3>3. Min({P \div (C * 4), Hysteresis}) \in Nat
      BY <3>2, MinIsLeast
    <3> QED
      BY <2>2, <3>3
  <2>14. (p - Cycle(s, n)) * C = q * C
    <3>1. p - Cycle(s, n) = q
      BY <2>3, <2>4, <2>12
    <3> QED
      BY <3>1
  <2> HIDE DEF margin
  <2>15. /\ Degrees[s][b] = n % P
         /\ (p - Cycle(s, n)) * C >= (b - 1) * P - margin
         /\ (p - Cycle(s, n)) * C < b * P + margin
    <3>1. (b - 1) * P \in Int /\ b * P \in Int
      BY <2>2, <2>9
    <3> QED
      BY <2>6, <2>9, <2>10, <2>11, <2>13, <2>14, <3>1
  <2>16. HeldBin(s, p, n)
    BY <2>9, <2>15 DEF HeldBin, margin, P, C
  <2>17. Distribute(s, p, n) = n
    BY <2>11, <2>16 DEF Distribute
  <2> QED
    BY <2>17 DEF n
<1> QED
  BY <1>1, <1>2

\* What a sample makes of an output, the same sample leaves.
LEMMA PitchSettles ==
    ASSUME NEW t \in Tunings, NEW at \in Int, NEW o \in Int, NEW before \in Int \union {None}
    PROVE  Pitch(t, at, o, Pitch(t, at, o, before)) = Pitch(t, at, o, before)
<1> DEFINE shift == Semitone * (t.transpose + o)
           p == at + t.zero - t.root
           last(b) == IF b = None THEN None ELSE b - shift - t.root
           degree(m) == IF t.equal THEN Distribute(t.scale, p, m) ELSE Quantize(t.scale, p, m)
           n == Pitch(t, at, o, before)
<1>1. \A b : Pitch(t, at, o, b) =
          IF ~t.quantize THEN at + t.zero + Semitone * o ELSE degree(last(b)) + t.root + shift
  BY DEF Pitch
<1>2. CASE ~t.quantize
  BY <1>1, <1>2
<1>3. CASE t.quantize
  <2>1. /\ t.scale \in Scales /\ t.zero \in Int /\ t.root \in Int /\ t.transpose \in Int
        /\ Semitone \in Int
    BY NotesAssumption DEF Tunings
  <2>2. shift \in Int
    BY <2>1
  <2> HIDE DEF shift
  <2>3. p \in Int /\ last(before) \in Int \union {None}
    BY <2>1, <2>2
  <2> DEFINE m == degree(last(before))
  <2> HIDE DEF p
  <2>4. m \in Int
    <3> HIDE DEF last
    <3> QED
      BY <2>1, <2>3, QuantizedIsPitch, DistributedIsPitch
  <2>5. degree(m) = m
    <3> HIDE DEF last
    <3> QED
      BY <2>1, <2>3, QuantizeSettles, DistributeSettles
  <2> HIDE DEF degree, m, n
  <2>6. n = m + t.root + shift
    BY <1>1, <1>3 DEF n, m
  <2>7. n \in Int /\ n # None
    BY <2>1, <2>2, <2>4, <2>6, NotesAssumption
  <2>8. last(n) = m
    BY <2>1, <2>2, <2>4, <2>6, <2>7
  <2>9. Pitch(t, at, o, n) = m + t.root + shift
    BY <1>1, <1>3, <2>5, <2>8
  <2> QED
    BY <2>6, <2>9 DEF n
<1> QED
  BY <1>2, <1>3

-----------------------------------------------------------------------------
(* The words of an interrupt.                                              *)

\* What the receiver keeps, and the route's settings with its transposition.
Words == [press : BOOLEAN, note : Notes]
Configs == [on : BOOLEAN, hold : BOOLEAN, base : Notes, shift : Int,
            last : Notes \union {None}, learn : BOOLEAN, learned : Notes \union {None}]

LEMMA DrainedIsNat ==
    ASSUME fifo \in Seq(Words)
    PROVE  Drained \in 0..Len(fifo)
<1>1. \A a, b \in Nat : Min({a, b}) \in {a, b} /\ Min({a, b}) <= a /\ Min({a, b}) <= b
  BY MinIsLeast, LeastNumber DEF Min
<1> QED
  BY <1>1, NotesAssumption DEF Drained

\* The recursion of After is over the words that are drained.
LEMMA AfterIs ==
    ASSUME Drained \in Nat
    PROVE  After = [k \in 0..Drained |-> IF k = 0 THEN midi ELSE Word(After[k - 1], fifo[k])]
<1> DEFINE Run(g, n) == g = [k \in 0..n |-> IF k = 0 THEN midi ELSE Word(g[k - 1], fifo[k])]
           T == {n \in 0..Drained : ~\E g : Run(g, n)}
<1>1. T = {}
  <2> SUFFICES ASSUME T # {} PROVE FALSE
    OBVIOUS
  <2>1. PICK n \in T : \A m \in T : n <= m
    <3>1. T \subseteq Nat
      OBVIOUS
    <3> HIDE DEF T
    <3> QED
      BY <3>1, LeastNumber
  <2>2. CASE n = 0
    <3>1. Run([k \in 0..n |-> midi], n)
      BY <2>2
    <3> QED
      BY <3>1
  <2>3. CASE n # 0
    <3>1. n - 1 \in 0..Drained /\ n - 1 \notin T
      BY <2>1, <2>3
    <3>2. PICK h : Run(h, n - 1)
      BY <3>1
    <3> DEFINE g == [k \in 0..n |-> IF k = 0 THEN midi ELSE Word(h[k - 1], fifo[k])]
    <3>3. \A k \in 0..(n - 1) : g[k] = h[k]
      BY <3>2
    <3>4. \A k \in 0..n : k # 0 => g[k - 1] = h[k - 1]
      <4>1. \A k \in 0..n : k # 0 => k - 1 \in 0..(n - 1)
        BY <2>1
      <4> QED
        BY <4>1, <3>3
    <3>5. Run(g, n)
      <4> HIDE DEF g
      <4> SUFFICES g = [k \in 0..n |-> IF k = 0 THEN midi ELSE Word(g[k - 1], fifo[k])]
        OBVIOUS
      <4>1. g = [k \in 0..n |-> IF k = 0 THEN midi ELSE Word(h[k - 1], fifo[k])]
        BY DEF g
      <4> QED
        BY <4>1, <3>4
    <3> QED
      BY <3>5
  <2> QED
    BY <2>2, <2>3
<1>2. PICK g : Run(g, Drained)
  BY <1>1
<1>3. After = CHOOSE f : Run(f, Drained)
  BY DEF After
<1> QED
  <2> HIDE DEF Run
  <2>1. Run(After, Drained)
    BY <1>2, <1>3
  <2> QED
    BY <2>1 DEF Run
-----------------------------------------------------------------------------
(* The inductive invariant.                                                *)

\* The fields of midi fit each other, and the page.
Fits(m) ==
    /\ m \in Configs
    /\ m.shift = IF m.last = None THEN 0 ELSE m.last - m.base
    /\ m.base = IF m.learned = None THEN appBase ELSE m.learned
    /\ ~m.on => m.last = None

\* From the k-th word on: the release of a note that is up, and that transposes the
\* route or may do so, is still in the queue, with no press of the note behind it.
Owed(m, k) ==
    \A n \in Notes \ (keys \union lost) :
        (~m.hold /\ m.last = n) \/ (\E j \in k..Len(fifo) : fifo[j] = On(n)) =>
            \E i \in k..Len(fifo) :
                /\ fifo[i] = Off(n)
                /\ \A j \in (i + 1)..Len(fifo) : fifo[j] # On(n)

MidiInv ==
    /\ appBase \in Notes /\ keys \subseteq Notes /\ lost \subseteq Notes
    /\ fifo \in Seq(Words) /\ Len(fifo) <= Depth
    /\ Fits(midi)
    /\ Owed(midi, 1)

Second == Lanes \ FirstBatch

\* Equally set outputs of S have the same note, or none of them has one.
Alike(S) == \A a, b \in S : tuning[a] = tuning[b] => note[a] = note[b]

\* The second half has yet to do to its notes what the first has done.
Awaited ==
    /\ seen \intersect Second = {}
    /\ \A a \in FirstBatch, b \in Second :
          tuning[a] = tuning[b] => note[a] = Pitch(tuning[b], cv, offset, note[b])

\* Between two frames equally set lanes agree, and in the middle of one they are
\* going to.
FrameInv ==
    /\ ~active => note = Silent /\ seen = {} /\ ~late
    /\ phase = 0 /\ ~late => Alike(Lanes) /\ seen \in {{}, Lanes}
    /\ phase = 1 /\ ~late /\ active =>
          /\ Alike(FirstBatch) /\ Alike(Second) /\ FirstBatch \subseteq seen
          /\ (Alike(Lanes) /\ seen = Lanes) \/ Awaited

LaneTypes ==
    /\ active \in BOOLEAN /\ running \in BOOLEAN /\ late \in BOOLEAN
    /\ active => running /\ tuning \in Channels
    /\ tuning \in Channels \union {None}
    /\ phase \in {0, 1} /\ cv \in CVs
    /\ seen \subseteq Lanes
    /\ offset \in Int /\ note \in [Lanes -> Int \union {None}]

PageTypes == page \in {"midi", "closing", "other"} /\ scaleLearn \in {"off", "on", "ending"}

NotesInv == MidiInv /\ PageTypes /\ LaneTypes /\ FrameInv
-----------------------------------------------------------------------------
(* MIDI words.                                                             *)

LEMMA NotesAreNumbers ==
    /\ \A n \in Notes : n \in Int /\ n # None
    /\ \A n, b \in Notes : n - b \in Int
<1>1. Notes \subseteq Nat /\ None \notin Int
  BY NotesAssumption
<1>2. \A n \in Notes : n \in Int
  BY <1>1
<1> QED
  BY <1>1, <1>2

\* A word teaches the base, transposes, ends the transposition or does nothing.
LEMMA WordKinds ==
    ASSUME NEW m, NEW w
    PROVE  \/ /\ m.on /\ w.press
              /\ Word(m, w) = Untransposed([m EXCEPT !.base = w.note, !.learn = FALSE,
                                                     !.learned = w.note])
           \/ /\ m.on /\ w.press
              /\ Word(m, w) = [m EXCEPT !.last = w.note, !.shift = w.note - m.base]
           \/ /\ ~w.press
              /\ Word(m, w) = Untransposed(m)
           \/ /\ m.on => ~w.press
              /\ m.on => m.hold \/ m.last # w.note
              /\ Word(m, w) = m
  BY Zenon DEF Word

LEMMA UntransposedFields ==
    ASSUME NEW m \in Configs
    PROVE  /\ Untransposed(m) \in Configs
           /\ Untransposed(m).shift = 0 /\ Untransposed(m).last = None
           /\ Untransposed(m).on = m.on /\ Untransposed(m).hold = m.hold
           /\ Untransposed(m).base = m.base /\ Untransposed(m).learned = m.learned
<1>1. Untransposed(m) \in Configs
  <2> DEFINE v == [m EXCEPT !.shift = 0]
  <2>1. v \in Configs
    BY DEF Configs
  <2>2. Untransposed(m) = [v EXCEPT !.last = None]
    BY DEF Untransposed, Configs
  <2>3. \A x \in Notes \union {None} : [v EXCEPT !.last = x] \in Configs
    <3> HIDE DEF v
    <3> QED
      BY <2>1 DEF Configs
  <2> QED
    BY <2>2, <2>3
<1>2. /\ Untransposed(m).shift = 0 /\ Untransposed(m).last = None
      /\ Untransposed(m).base = m.base /\ Untransposed(m).learned = m.learned
  BY DEF Untransposed, Configs
<1>3. Untransposed(m).on = m.on /\ Untransposed(m).hold = m.hold
  BY DEF Untransposed, Configs
<1> QED
  BY <1>1, <1>2, <1>3

LEMMA WordFits ==
    ASSUME NEW m, Fits(m), NEW w \in Words
    PROVE  Fits(Word(m, w)) /\ Word(m, w).hold = m.hold
<1>1. w.note \in Notes /\ m \in Configs /\ m.base \in Notes
  BY DEF Words, Fits, Configs
<1>2. CASE /\ m.on
           /\ Word(m, w) = Untransposed([m EXCEPT !.base = w.note, !.learn = FALSE,
                                                  !.learned = w.note])
  <2> DEFINE v == [m EXCEPT !.base = w.note, !.learn = FALSE, !.learned = w.note]
  <2>1. v \in Configs
    BY <1>1 DEF Configs
  <2>2. /\ v.base = w.note /\ v.learned = w.note /\ v.on = m.on /\ v.hold = m.hold
    BY <1>1 DEF Configs
  <2>3. v.learned # None
    BY <1>1, <2>2, NotesAreNumbers
  <2> HIDE DEF v
  <2> QED
    BY <1>2, <2>1, <2>2, <2>3, UntransposedFields DEF Fits, v
<1>3. CASE m.on /\ Word(m, w) = [m EXCEPT !.last = w.note, !.shift = w.note - m.base]
  <2> DEFINE v == [m EXCEPT !.last = w.note, !.shift = w.note - m.base]
  <2>1. v \in Configs
    BY <1>1, NotesAreNumbers DEF Configs
  <2>2. /\ v.last = w.note /\ v.shift = w.note - m.base /\ v.base = m.base
        /\ v.learned = m.learned /\ v.on = m.on /\ v.hold = m.hold
    BY <1>1 DEF Configs
  <2>3. v.last # None
    BY <1>1, <2>2, NotesAreNumbers
  <2> HIDE DEF v
  <2> QED
    BY <1>3, <2>1, <2>2, <2>3 DEF Fits, v
<1>4. CASE Word(m, w) = Untransposed(m)
  BY <1>1, <1>4, UntransposedFields DEF Fits
<1>5. CASE Word(m, w) = m
  BY <1>5
<1> QED
  BY <1>2, <1>3, <1>4, <1>5, WordKinds

\* A word that is not the release owed leaves the release in the queue.
LEMMA WordOwes ==
    ASSUME fifo \in Seq(Words), NEW k \in 1..Len(fifo), NEW m, Fits(m), Owed(m, k)
    PROVE  Owed(Word(m, fifo[k]), k + 1)
<1> DEFINE w == fifo[k]
<1>1. w \in Words
  OBVIOUS
<1> SUFFICES ASSUME NEW n \in Notes \ (keys \union lost),
                    \/ ~Word(m, w).hold /\ Word(m, w).last = n
                    \/ \E j \in (k + 1)..Len(fifo) : fifo[j] = On(n)
             PROVE  \E i \in (k + 1)..Len(fifo) :
                        /\ fifo[i] = Off(n)
                        /\ \A j \in (i + 1)..Len(fifo) : fifo[j] # On(n)
  BY DEF Owed
<1>2. Word(m, w).hold = m.hold
  BY <1>1, WordFits
<1>3. Word(m, w).last = n => w = On(n) \/ m.last = n
  <2> SUFFICES ASSUME Word(m, w).last = n, m.last # n PROVE w = On(n)
    OBVIOUS
  <2>1. n # None /\ m \in Configs
    BY NotesAreNumbers DEF Fits
  <2>2. \A v : Untransposed(v).last = n => Untransposed(v).last # None
    BY <2>1
  <2>3. Untransposed([m EXCEPT !.base = w.note, !.learn = FALSE, !.learned = w.note]).last = None
        /\ Untransposed(m).last = None
    BY <2>1 DEF Untransposed, Configs
  <2>4. w.press /\ [m EXCEPT !.last = w.note, !.shift = w.note - m.base].last = n
    BY <2>1, <2>3, WordKinds
  <2> QED
    BY <1>1, <2>1, <2>4 DEF Words, Configs, On
<1>4. PICK i \in k..Len(fifo) :
          /\ fifo[i] = Off(n)
          /\ \A j \in (i + 1)..Len(fifo) : fifo[j] # On(n)
  BY <1>2, <1>3 DEF Owed
<1>5. CASE i # k
  BY <1>4, <1>5
<1>6. CASE i = k
  <2>1. w = Off(n) /\ ~\E j \in (k + 1)..Len(fifo) : fifo[j] = On(n)
    BY <1>4, <1>6
  <2>2. m \in Configs /\ n # None /\ ~w.press /\ w.note = n
    BY <2>1, NotesAreNumbers DEF Fits, Off
  <2>3. CASE Word(m, w) = Untransposed(m)
    <3>1. Word(m, w).last = None
      BY <2>2, <2>3 DEF Untransposed, Configs
    <3> QED
      BY <2>1, <2>2, <3>1
  <2>4. CASE /\ m.on => m.hold \/ m.last # w.note
             /\ Word(m, w) = m
    <3>1. ~m.hold /\ m.last = n
      BY <1>2, <2>1, <2>4
    <3> QED
      BY <2>2, <2>4, <3>1 DEF Fits
  <2> QED
    BY <2>2, <2>3, <2>4, WordKinds
<1> QED
  BY <1>4, <1>5, <1>6

\* What an interrupt makes of the queue.
LEMMA ReceivedKeeps ==
    ASSUME MidiInv
    PROVE  Drained \in 0..Len(fifo) /\ Fits(Received) /\ Owed(Received, Drained + 1)
<1> USE DEF MidiInv
<1>1. Drained \in 0..Len(fifo)
  BY DrainedIsNat
<1>2. After = [k \in 0..Drained |-> IF k = 0 THEN midi ELSE Word(After[k - 1], fifo[k])]
  BY <1>1, AfterIs
<1> DEFINE Good(k) == Fits(After[k]) /\ Owed(After[k], k + 1)
           T == {k \in 0..Drained : ~Good(k)}
<1>3. Good(0)
  BY <1>1, <1>2
<1>4. \A k \in 0..Drained : k # 0 /\ Good(k - 1) => Good(k)
  <2> SUFFICES ASSUME NEW k \in 0..Drained, k # 0, Good(k - 1) PROVE Good(k)
    OBVIOUS
  <2>1. After[k] = Word(After[k - 1], fifo[k])
    BY <1>2
  <2>2. k \in 1..Len(fifo) /\ (k - 1) + 1 = k /\ fifo[k] \in Words
    BY <1>1
  <2>3. Fits(After[k])
    BY <2>1, <2>2, WordFits
  <2>4. Owed(Word(After[k - 1], fifo[k]), k + 1)
    BY <2>2, WordOwes
  <2> QED
    BY <2>1, <2>2, <2>3, <2>4
<1>5. T = {}
  <2> HIDE DEF Good
  <2> SUFFICES ASSUME T # {} PROVE FALSE
    OBVIOUS
  <2>1. PICK k \in T : \A j \in T : k <= j
    <3>1. T \subseteq Nat
      OBVIOUS
    <3> HIDE DEF T
    <3> QED
      BY <3>1, LeastNumber
  <2>2. k # 0 /\ k - 1 \in 0..Drained /\ k - 1 \notin T
    BY <1>1, <1>3, <2>1
  <2> QED
    BY <2>2, <1>4
<1>6. Good(Drained)
  <2> HIDE DEF Good
  <2> QED
    BY <1>1, <1>5
<1> QED
  BY <1>1, <1>6 DEF Received
LEMMA KeptMidi ==
    ASSUME MidiInv, UNCHANGED <<midi, appBase, fifo, keys, lost>>
    PROVE  MidiInv'
  BY DEF MidiInv, Fits, Owed

LEMMA ReceivedMidi ==
    ASSUME MidiInv, Receive, UNCHANGED <<appBase, keys>>
    PROVE  MidiInv'
<1>1. Drained \in 0..Len(fifo) /\ Fits(Received) /\ Owed(Received, Drained + 1)
  BY ReceivedKeeps
<1>0. fifo \in Seq(Words) /\ Len(fifo) <= Depth
  BY DEF MidiInv
<1>2. PICK d \in 0..Len(fifo) : d = Drained
  BY <1>1
<1>3. /\ fifo' \in Seq(Words) /\ Len(fifo') = Len(fifo) - d
      /\ \A i \in 1..Len(fifo') : fifo'[i] = fifo[i + d]
  BY <1>0, <1>2 DEF Receive
<1>4. Len(fifo') <= Depth
  BY <1>0, <1>3, NotesAssumption
<1>5. Fits(midi)'
  BY <1>1 DEF Fits, Receive
<1>6. Owed(midi, 1)'
  <2> SUFFICES ASSUME NEW n \in Notes \ (keys' \union lost'),
                      \/ ~midi'.hold /\ midi'.last = n
                      \/ \E j \in 1..Len(fifo') : fifo'[j] = On(n)
               PROVE  \E i \in 1..Len(fifo') :
                          /\ fifo'[i] = Off(n)
                          /\ \A j \in (i + 1)..Len(fifo') : fifo'[j] # On(n)
    BY DEF Owed, On, Off
  <2>1. n \notin keys \union lost
    <3>1. Counts(n)'
      BY DEF Counts, Contains
    <3> QED
      BY <3>1 DEF Receive
  <2>2. \/ ~Received.hold /\ Received.last = n
        \/ \E j \in (d + 1)..Len(fifo) : fifo[j] = On(n)
    <3>1. ASSUME NEW j \in 1..Len(fifo'), fifo'[j] = On(n)
          PROVE  j + d \in (d + 1)..Len(fifo) /\ fifo[j + d] = On(n)
      BY <1>0, <1>3, <3>1
    <3> QED
      BY <3>1 DEF Receive
  <2>3. PICK i \in (d + 1)..Len(fifo) :
            /\ fifo[i] = Off(n)
            /\ \A j \in (i + 1)..Len(fifo) : fifo[j] # On(n)
    BY <1>1, <1>2, <2>1, <2>2 DEF Owed
  <2>4. i - d \in 1..Len(fifo') /\ fifo'[i - d] = Off(n)
    BY <1>0, <1>3, <2>3
  <2>5. ASSUME NEW j \in ((i - d) + 1)..Len(fifo')
        PROVE  fifo'[j] # On(n)
    <3>1. j \in 1..Len(fifo') /\ j + d \in (i + 1)..Len(fifo)
      BY <1>0, <1>3, <2>4, <2>5
    <3> QED
      BY <1>3, <2>3, <3>1
  <2> QED
    BY <2>4, <2>5
<1> QED
  BY <1>3, <1>4, <1>5, <1>6 DEF MidiInv, Receive

-----------------------------------------------------------------------------
(* The keyboard, the settings page, scale learning and recall.             *)

LEMMA PressedMidi ==
    ASSUME MidiInv, NEW k \in Notes, Press(k)
    PROVE  MidiInv'
<1> USE DEF MidiInv, Press, menu
<1>1. On(k) \in Words
  BY DEF On, Words
<1>2. fifo' \in Seq(Words) /\ Len(fifo') <= Depth
  BY <1>1, NotesAssumption DEF Room
<1>3. Fits(midi)'
  BY DEF Fits
<1>4. Owed(midi, 1)'
  <2> SUFFICES ASSUME NEW n \in Notes \ (keys' \union lost'),
                      \/ ~midi.hold /\ midi.last = n
                      \/ \E j \in 1..Len(fifo') : fifo'[j] = On(n)
               PROVE  \E i \in 1..Len(fifo') :
                          /\ fifo'[i] = Off(n)
                          /\ \A j \in (i + 1)..Len(fifo') : fifo'[j] # On(n)
    BY DEF Owed, On, Off
  <2>1. n # k /\ n \notin keys \union lost /\ On(k) # On(n) /\ On(k) # Off(n)
    BY DEF On, Off
  <2>2. PICK i \in 1..Len(fifo) :
            /\ fifo[i] = Off(n)
            /\ \A j \in (i + 1)..Len(fifo) : fifo[j] # On(n)
    <3>1. \/ ~midi.hold /\ midi.last = n
          \/ \E j \in 1..Len(fifo) : fifo[j] = On(n)
      BY <1>1, <2>1
    <3> QED
      BY <2>1, <3>1 DEF Owed
  <2>3. i \in 1..Len(fifo') /\ fifo'[i] = Off(n)
    BY <1>1, <2>2
  <2>4. \A j \in (i + 1)..Len(fifo') : fifo'[j] # On(n)
    BY <1>1, <2>1, <2>2
  <2> QED
    BY <2>3, <2>4
<1> QED
  BY <1>2, <1>3, <1>4

LEMMA ReleasedMidi ==
    ASSUME MidiInv, NEW k \in Notes, Release(k)
    PROVE  MidiInv'
<1> USE DEF MidiInv, Release, menu
<1>1. Off(k) \in Words
  BY DEF Off, Words
<1>2. fifo' \in Seq(Words) /\ Len(fifo') <= Depth
  BY <1>1, NotesAssumption DEF Room
<1>3. Fits(midi)'
  BY DEF Fits
<1>4. Owed(midi, 1)'
  <2> SUFFICES ASSUME NEW n \in Notes \ (keys' \union lost'),
                      \/ ~midi.hold /\ midi.last = n
                      \/ \E j \in 1..Len(fifo') : fifo'[j] = On(n)
               PROVE  \E i \in 1..Len(fifo') :
                          /\ fifo'[i] = Off(n)
                          /\ \A j \in (i + 1)..Len(fifo') : fifo'[j] # On(n)
    BY DEF Owed, On, Off
  <2>1. n \notin lost /\ (n # k => n \notin keys) /\ Off(k) # On(n)
    BY DEF On, Off
  <2>2. \/ ~midi.hold /\ midi.last = n
        \/ \E j \in 1..Len(fifo) : fifo[j] = On(n)
    BY <1>1, <2>1
  <2>3. CASE n = k /\ Room
    <3>1. /\ Len(fifo') = Len(fifo) + 1 /\ fifo'[Len(fifo')] = Off(n)
          /\ Len(fifo') \in 1..Len(fifo')
      BY <1>1, <2>3
    <3>2. \A j \in (Len(fifo') + 1)..Len(fifo') : fifo'[j] # On(n)
      BY <3>1
    <3> QED
      BY <3>1, <3>2
  <2>4. CASE n = k /\ ~Room
    <3>1. Counts(n)
      BY <2>2 DEF Counts, Contains
    <3> QED
      BY <2>4, <3>1
  <2>5. CASE n # k
    <3>1. PICK i \in 1..Len(fifo) :
              /\ fifo[i] = Off(n)
              /\ \A j \in (i + 1)..Len(fifo) : fifo[j] # On(n)
      BY <2>1, <2>2, <2>5 DEF Owed
    <3>2. i \in 1..Len(fifo') /\ fifo'[i] = Off(n)
      BY <1>1, <3>1
    <3>3. \A j \in (i + 1)..Len(fifo') : fifo'[j] # On(n)
      BY <1>1, <2>1, <3>1
    <3> QED
      BY <3>2, <3>3
  <2> QED
    BY <2>3, <2>4, <2>5
<1> QED
  BY <1>2, <1>3, <1>4
\* What is asked of a change of the settings: nothing is owed that was not.
LEMMA OwesNoMore ==
    ASSUME Owed(midi, 1), UNCHANGED <<fifo, keys, lost>>,
           \A n \in Notes : ~midi'.hold /\ midi'.last = n => ~midi.hold /\ midi.last = n
    PROVE  Owed(midi, 1)'
<1> SUFFICES ASSUME NEW n \in Notes \ (keys' \union lost'),
                    \/ ~midi'.hold /\ midi'.last = n
                    \/ \E j \in 1..Len(fifo') : fifo'[j] = On(n)
             PROVE  \E i \in 1..Len(fifo') :
                        /\ fifo'[i] = Off(n)
                        /\ \A j \in (i + 1)..Len(fifo') : fifo'[j] # On(n)
  BY DEF Owed, On, Off
<1>1. fifo' = fifo /\ n \in Notes \ (keys \union lost)
  OBVIOUS
<1>2. \/ ~midi.hold /\ midi.last = n
      \/ \E j \in 1..Len(fifo) : fifo[j] = On(n)
  BY <1>1
<1> QED
  BY <1>1, <1>2 DEF Owed

LEMMA SyncedMidi ==
    ASSUME MidiInv, UNCHANGED <<fifo, keys, lost>>,
           NEW e, e.on \in BOOLEAN, e.hold \in BOOLEAN, e.base \in Notes,
           e.press \in BOOLEAN, Sync(e)
    PROVE  MidiInv'
<1> DEFINE m == [midi EXCEPT !.on = e.on, !.hold = e.hold, !.base = Base(e.base), !.learned = None]
           v == IF Resets(e) THEN Untransposed(m) ELSE m
<1>1. /\ midi \in Configs /\ Fits(midi) /\ Owed(midi, 1)
      /\ Base(e.base) \in Notes /\ None \in Notes \union {None}
  BY DEF MidiInv, Fits, Configs, Base
<1>2. /\ m \in Configs /\ m.on = e.on /\ m.hold = e.hold /\ m.base = Base(e.base)
      /\ m.learned = None /\ m.last = midi.last /\ m.shift = midi.shift
  <2>1. m \in Configs
    BY <1>1 DEF Configs
  <2> QED
    BY <1>1, <2>1 DEF Configs
<1>3. \/ /\ v \in Configs /\ v.on = e.on /\ v.hold = e.hold /\ v.base = Base(e.base)
         /\ v.learned = None /\ v.last = None /\ v.shift = 0
      \/ /\ v = m /\ e.on = midi.on /\ e.hold = midi.hold /\ Base(e.base) = midi.base
  <2> HIDE DEF m
  <2>1. CASE Resets(e)
    BY <1>2, <2>1, UntransposedFields
  <2>2. CASE ~Resets(e)
    BY <1>1, <2>2 DEF Resets, Fits, Base
  <2> QED
    BY <2>1, <2>2
<1>4. PICK learn \in BOOLEAN : midi' = [v EXCEPT !.learn = learn]
  <2> DEFINE x == IF e.press /\ e.on THEN ~(midi.learn /\ e.on = midi.on /\ page = "midi")
                  ELSE midi.learn /\ e.on = midi.on /\ page = "midi"
  <2>1. v \in Configs
    BY <1>2, <1>3
  <2>2. Synced(e) = [v EXCEPT !.learn = x]
    BY DEF Synced
  <2> HIDE DEF v, x
  <2>3. midi' = [[v EXCEPT !.learn = x] EXCEPT !.learn = @ /\ page = "midi"]
    BY <2>2 DEF Sync
  <2>4. midi' = [v EXCEPT !.learn = (x /\ page = "midi")]
    BY <2>1, <2>3 DEF Configs
  <2>5. (x /\ page = "midi") \in BOOLEAN
    OBVIOUS
  <2> QED
    BY <2>4, <2>5
<1>5. v \in Configs
  BY <1>2, <1>3
<1>6. /\ midi' \in Configs /\ midi'.on = v.on /\ midi'.hold = v.hold /\ midi'.base = v.base
      /\ midi'.learned = v.learned /\ midi'.last = v.last /\ midi'.shift = v.shift
  <2> HIDE DEF v
  <2>1. midi' \in Configs
    BY <1>4, <1>5 DEF Configs
  <2> QED
    BY <1>4, <1>5 DEF Configs
<1>7. appBase' = Base(e.base)
  BY DEF Sync
<1> HIDE DEF m, v
<1>8. Fits(midi)'
  BY <1>1, <1>2, <1>3, <1>6, <1>7 DEF Fits
<1>9. Owed(midi, 1)'
  <2>1. \A n \in Notes : ~midi'.hold /\ midi'.last = n => ~midi.hold /\ midi.last = n
    BY <1>2, <1>3, <1>6, NotesAreNumbers
  <2> QED
    BY <1>1, <2>1, OwesNoMore
<1> QED
  BY <1>1, <1>7, <1>8, <1>9 DEF MidiInv

LEMMA PagesMidi ==
    ASSUME MidiInv, SyncMidi
    PROVE  MidiInv'
<1>1. midi.on \in BOOLEAN /\ midi.hold \in BOOLEAN /\ appBase \in Notes
  BY DEF MidiInv, Fits, Configs
<1>2. PICK e \in Looks : Sync(e)
  BY DEF SyncMidi
<1>3. e.on \in BOOLEAN /\ e.hold \in BOOLEAN /\ e.base \in Notes /\ e.press \in BOOLEAN
  BY <1>1 DEF Looks, Shown
<1> QED
  BY <1>2, <1>3, SyncedMidi DEF SyncMidi, keyboard

LEMMA LeftMidi ==
    ASSUME MidiInv, LeaveMidi
    PROVE  MidiInv'
<1>1. /\ midi \in Configs /\ midi' = [midi EXCEPT !.learn = FALSE]
      /\ UNCHANGED <<appBase, fifo, keys, lost>>
  BY DEF MidiInv, Fits, LeaveMidi, menu, keyboard
<1>2. /\ midi' \in Configs /\ midi'.on = midi.on /\ midi'.hold = midi.hold
      /\ midi'.base = midi.base /\ midi'.learned = midi.learned
      /\ midi'.last = midi.last /\ midi'.shift = midi.shift
  <2>1. midi' \in Configs
    BY <1>1 DEF Configs
  <2> QED
    BY <1>1, <2>1 DEF Configs
<1>3. Fits(midi)'
  BY <1>1, <1>2 DEF MidiInv, Fits
<1>4. Owed(midi, 1)'
  BY <1>1, <1>2, OwesNoMore DEF MidiInv
<1> QED
  BY <1>1, <1>3, <1>4 DEF MidiInv

LEMMA TakenMidi ==
    ASSUME MidiInv, TakeWord
    PROVE  MidiInv'
<1>1. /\ fifo \in Seq(Words) /\ fifo # <<>> /\ Len(fifo) <= Depth
      /\ fifo' = Tail(fifo) /\ UNCHANGED <<midi, appBase, keys>>
  BY DEF MidiInv, TakeWord
<1>2. /\ fifo' \in Seq(Words) /\ Len(fifo') = Len(fifo) - 1
      /\ \A i \in 1..Len(fifo') : fifo'[i] = fifo[i + 1]
  BY <1>1
<1>3. Len(fifo') <= Depth
  BY <1>1, <1>2, NotesAssumption
<1>4. Head(fifo) = fifo[1] /\ fifo[1] \in Words
  BY <1>1
<1>5. lost' \subseteq Notes /\ lost \subseteq lost'
  BY <1>4 DEF MidiInv, TakeWord, Words
<1>6. Fits(midi)'
  BY <1>1 DEF MidiInv, Fits
<1>7. Owed(midi, 1)'
  <2> SUFFICES ASSUME NEW n \in Notes \ (keys' \union lost'),
                      \/ ~midi.hold /\ midi.last = n
                      \/ \E j \in 1..Len(fifo') : fifo'[j] = On(n)
               PROVE  \E i \in 1..Len(fifo') :
                          /\ fifo'[i] = Off(n)
                          /\ \A j \in (i + 1)..Len(fifo') : fifo'[j] # On(n)
    BY <1>1 DEF Owed, On, Off
  <2>1. n \notin keys \union lost
    BY <1>1, <1>5
  <2>2. PICK i \in 1..Len(fifo) :
            /\ fifo[i] = Off(n)
            /\ \A j \in (i + 1)..Len(fifo) : fifo[j] # On(n)
    <3>1. ASSUME NEW j \in 1..Len(fifo'), fifo'[j] = On(n)
          PROVE  j + 1 \in 1..Len(fifo) /\ fifo[j + 1] = On(n)
      BY <1>1, <1>2, <3>1
    <3> QED
      BY <2>1, <3>1 DEF MidiInv, Owed
  <2>3. i # 1
    <3> SUFFICES ASSUME i = 1 PROVE FALSE
      OBVIOUS
    <3>0. i = 1
      OBVIOUS
    <3>1. ~fifo[1].press /\ fifo[1].note = n
      BY <2>2 DEF Off
    <3>2. \A j \in 1..Len(fifo) : fifo[j] # On(n)
      <4>1. fifo[1] # On(n)
        BY <3>1 DEF On
      <4>2. \A j \in 1..Len(fifo) : j = 1 \/ j \in (1 + 1)..Len(fifo)
        BY <1>1
      <4> QED
        BY <2>2, <4>1, <4>2
    <3>3. \A j \in 1..Len(fifo') : fifo'[j] # On(n)
      BY <1>1, <1>2, <3>2
    <3>4. n \in lost'
      <4>1. ~midi.hold /\ midi.last = n
        BY <3>3
      <4>2. fifo[1] = Off(midi.last) /\ ~Contains(fifo, On(fifo[1].note))
        BY <2>2, <3>0, <3>1, <3>2, <4>1 DEF Contains
      <4> QED
        BY <1>4, <3>1, <4>1, <4>2 DEF TakeWord
    <3> QED
      BY <3>4
  <2>4. i - 1 \in 1..Len(fifo') /\ fifo'[i - 1] = Off(n)
    BY <1>1, <1>2, <2>2, <2>3
  <2>5. ASSUME NEW j \in ((i - 1) + 1)..Len(fifo')
        PROVE  fifo'[j] # On(n)
    <3>1. j \in 1..Len(fifo') /\ j + 1 \in (i + 1)..Len(fifo)
      BY <1>1, <1>2, <2>4, <2>5
    <3> QED
      BY <1>2, <2>2, <3>1
  <2> QED
    BY <2>4, <2>5
<1> QED
  BY <1>1, <1>2, <1>3, <1>5, <1>6, <1>7 DEF MidiInv

LEMMA RecalledMidi ==
    ASSUME MidiInv, Recall
    PROVE  MidiInv'
<1>1. PICK on \in BOOLEAN, hold \in BOOLEAN, base \in Notes :
          /\ midi' = [on |-> on, hold |-> hold, base |-> base, shift |-> 0, last |-> None,
                      learn |-> FALSE, learned |-> None]
          /\ appBase' = base
  BY DEF Recall
<1>2. /\ midi' \in Configs /\ midi'.on = on /\ midi'.base = base
      /\ midi'.learned = None /\ midi'.last = None /\ midi'.shift = 0
  BY <1>1 DEF Configs
<1>3. Fits(midi)'
  BY <1>1, <1>2 DEF Fits
<1>4. UNCHANGED <<fifo, keys, lost>>
  BY DEF Recall, keyboard
<1>5. Owed(midi, 1)'
  BY <1>2, <1>4, NotesAreNumbers, OwesNoMore DEF MidiInv
<1> QED
  BY <1>1, <1>3, <1>4, <1>5 DEF MidiInv
LEMMA MidiStep ==
    ASSUME MidiInv, [Next]_vars
    PROVE  MidiInv'
<1> USE DEF menu, keyboard, lanes
<1>1. ASSUME NEW k \in Notes, Press(k) \/ Release(k) PROVE MidiInv'
  BY <1>1, PressedMidi, ReleasedMidi
<1>2. CASE SyncMidi \/ LeaveMidi \/ TakeWord \/ Recall
  BY <1>2, PagesMidi, LeftMidi, TakenMidi, RecalledMidi
<1>3. CASE Turn \/ LearnScale \/ EndBurst \/ UNCHANGED vars
  BY <1>3, KeptMidi DEF Turn, LearnScale, EndBurst, vars
<1>4. CASE Start \/ Stop \/ StartOthers \/ StopOthers
  BY <1>4, KeptMidi DEF Start, Stop, StartOthers, StopOthers
<1>5. CASE Interrupt
  BY <1>5, ReceivedMidi DEF Interrupt, Tick, IdleTick, FaultTick, StopAll
<1> QED
  BY <1>1, <1>2, <1>3, <1>4, <1>5 DEF Next, Foreground

-----------------------------------------------------------------------------
(* The frame.                                                              *)

LEMMA SilentIsAlike ==
    ASSUME note = Silent
    PROVE  Alike(Lanes) /\ Alike(FirstBatch) /\ Alike(Second)
  BY NotesAssumption DEF Silent, Alike, Second

\* A lane of the half batch that has not seen the sample plays it; the others
\* keep their notes.
LEMMA TickedLanes ==
    ASSUME NEW o, NEW before, NEW at, NEW fresh, NEW n \in Lanes
    PROVE  /\ ~active \/ n \notin Batch \/ n \in fresh => Ticked(o, before, at, fresh)[n] = before[n]
           /\ active /\ n \in Batch /\ n \notin fresh =>
                Ticked(o, before, at, fresh)[n] = Pitch(tuning[n], at, o, before[n])
  BY DEF Ticked

LEMMA TickedTypes ==
    ASSUME LaneTypes, NEW o \in Int, NEW before \in [Lanes -> Int \union {None}], NEW at \in Int,
           NEW fresh
    PROVE  Ticked(o, before, at, fresh) \in [Lanes -> Int \union {None}]
<1>1. ASSUME NEW n \in Lanes, active PROVE Pitch(tuning[n], at, o, before[n]) \in Int
  <2>1. tuning[n] \in Tunings
    BY <1>1, NotesAssumption DEF LaneTypes
  <2>2. before[n] \in Int \union {None}
    OBVIOUS
  <2> QED
    BY <2>1, <2>2, PitchIsPitch
<1> QED
  BY <1>1 DEF Ticked

LEMMA TickTypes ==
    ASSUME NotesInv, MidiInv', Tick
    PROVE  LaneTypes'
<1> USE DEF NotesInv, LaneTypes
<1>1. PICK at \in (IF Samples THEN CVs ELSE {}) \union {cv},
           old \in {seen} \union (IF Samples THEN {{}} ELSE {}) :
          /\ cv' = at
          /\ note' = Ticked(offset', Forgotten(offset'), at, old)
          /\ seen' = IF active THEN old \union Batch ELSE old
          /\ late' = (late /\ (old # {} \/ offset' = offset))
  BY DEF Tick
<1>2. at \in CVs /\ at \in Int /\ old \subseteq Lanes
  BY NotesAssumption
<1>3. offset' \in Int
  BY DEF MidiInv, Fits, Configs, Tick, Offset
<1>4. Forgotten(offset') \in [Lanes -> Int \union {None}]
  BY DEF Forgotten, Silent
<1>5. note' \in [Lanes -> Int \union {None}]
  BY <1>1, <1>2, <1>3, <1>4, TickedTypes
<1>6. seen' \subseteq Lanes
  BY <1>1, <1>2, NotesAssumption DEF Batch
<1>7. late' \in BOOLEAN /\ phase' \in {0, 1} /\ active' \in BOOLEAN /\ running' \in BOOLEAN
  BY <1>1 DEF Tick
<1>8. (active => running /\ tuning \in Channels)' /\ tuning' \in Channels \union {None}
  BY DEF Tick
<1> QED
  BY <1>1, <1>2, <1>3, <1>5, <1>6, <1>7, <1>8

LEMMA TickFrames ==
    ASSUME NotesInv, MidiInv', LaneTypes', Tick
    PROVE  FrameInv'
<1> USE DEF NotesInv
<1>1. PICK at \in (IF Samples THEN CVs ELSE {}) \union {cv},
           old \in {seen} \union (IF Samples THEN {{}} ELSE {}) :
          /\ old = {} \/ at = cv
          /\ cv' = at
          /\ note' = Ticked(offset', Forgotten(offset'), at, old)
          /\ seen' = IF active THEN old \union Batch ELSE old
          /\ late' = (late /\ (old # {} \/ offset' = offset))
  BY DEF Tick
<1>2. /\ active' = active /\ tuning' = tuning
      /\ phase' = 1 - phase /\ phase \in {0, 1} /\ offset' = Offset(midi')
  BY DEF Tick, LaneTypes
<1>3. CASE ~active
  <2>1. note = Silent /\ seen = {} /\ ~late /\ offset' = offset
    BY <1>2, <1>3 DEF FrameInv, Offset
  <2>2. note' = Silent /\ seen' = {} /\ ~late'
    <3>1. Forgotten(offset') = Silent
      BY <2>1 DEF Forgotten
    <3>2. note' = Silent
      BY <1>1, <1>3, <3>1 DEF Ticked, Silent
    <3> QED
      BY <1>1, <1>3, <2>1, <3>2
  <2>3. \A a, b \in Lanes : note'[a] = note'[b]
    BY <2>2 DEF Silent
  <2> QED
    BY <1>2, <1>3, <2>2, <2>3 DEF FrameInv, Alike, Silent
<1>4. CASE active /\ phase = 0
  <2> DEFINE before == Forgotten(offset')
  <2> SUFFICES ASSUME ~late'
               PROVE  /\ Alike(FirstBatch)' /\ Alike(Second)' /\ FirstBatch \subseteq seen'
                      /\ (Alike(Lanes)' /\ seen' = Lanes) \/ Awaited'
    BY <1>2, <1>4 DEF FrameInv
  <2>1. ~late \/ (old = {} /\ before = Silent)
    BY <1>1 DEF Forgotten
  <2>2. \A a, b \in Lanes : tuning[a] = tuning[b] => before[a] = before[b]
    BY <1>4, <2>1 DEF FrameInv, Forgotten, Silent, Alike
  <2>3. old \in {{}, Lanes}
    BY <1>4, <2>1 DEF FrameInv
  <2>4. Batch = FirstBatch /\ seen' = old \union FirstBatch
    BY <1>1, <1>4 DEF Batch
  <2> HIDE DEF before
  <2>5. CASE old = Lanes
    <3>1. \A n \in Lanes : note'[n] = before[n]
      BY <1>1, <2>5, TickedLanes DEF before
    <3>2. \A a, b \in Lanes : tuning'[a] = tuning'[b] => note'[a] = note'[b]
      BY <1>2, <2>2, <3>1
    <3> QED
      BY <2>4, <2>5, <3>2, NotesAssumption DEF Alike, Second
  <2>6. CASE old = {}
    <3>1. \A n \in Second : note'[n] = before[n]
      BY <1>1, <2>4, TickedLanes DEF before, Second
    <3>2. \A n \in FirstBatch : note'[n] = Pitch(tuning[n], at, offset', before[n])
      BY <1>1, <1>4, <2>4, <2>6, TickedLanes, NotesAssumption DEF before
    <3>3. \A a \in FirstBatch, b \in Lanes :
              tuning[a] = tuning[b] => note'[a] = Pitch(tuning[b], at, offset', before[b])
      <4> SUFFICES ASSUME NEW a \in FirstBatch, NEW b \in Lanes, tuning[a] = tuning[b]
                   PROVE  note'[a] = Pitch(tuning[b], at, offset', before[b])
        OBVIOUS
      <4>1. before[a] = before[b]
        BY <2>2, NotesAssumption
      <4> QED
        BY <3>2, <4>1
    <3>4. Alike(FirstBatch)' /\ Alike(Second)'
      BY <1>2, <2>2, <3>1, <3>2, <3>3, NotesAssumption DEF Alike, Second
    <3>5. Awaited'
      BY <1>1, <1>2, <2>4, <2>6, <3>1, <3>3 DEF Awaited, Second
    <3> QED
      BY <2>4, <3>4, <3>5
  <2> QED
    BY <2>3, <2>5, <2>6
<1>5. CASE active /\ phase = 1
  <2> SUFFICES ASSUME ~late'
               PROVE  Alike(Lanes)' /\ seen' \in {{}, Lanes}
    BY <1>2, <1>5 DEF FrameInv
  <2>1. old = seen /\ at = cv /\ offset' = offset /\ Forgotten(offset') = note
    BY <1>1, <1>2, <1>5 DEF Samples, Offset, AppliesMidi, Forgotten
  <2>2. ~late /\ Batch = Second /\ seen' = seen \union Second
    <3>1. ~late
      BY <1>1, <2>1, Zenon
    <3>2. Batch = Second
      BY <1>5 DEF Batch, Second
    <3> QED
      BY <1>1, <1>5, <2>1, <3>1, <3>2
  <2>3. /\ Alike(FirstBatch) /\ Alike(Second) /\ FirstBatch \subseteq seen
        /\ (Alike(Lanes) /\ seen = Lanes) \/ Awaited
    BY <1>5, <2>2 DEF FrameInv
  <2>4. seen' = Lanes
    BY <2>2, <2>3, NotesAssumption DEF Second, LaneTypes
  <2>5. CASE Alike(Lanes) /\ seen = Lanes
    <3>1. \A n \in Lanes : note'[n] = note[n]
      BY <1>1, <2>1, <2>5, TickedLanes
    <3> QED
      BY <1>2, <2>4, <2>5, <3>1 DEF Alike
  <2>6. CASE Awaited
    <3>1. \A a \in FirstBatch : note'[a] = note[a]
      BY <1>1, <2>1, <2>3, TickedLanes, NotesAssumption
    <3>2. \A b \in Second : note'[b] = Pitch(tuning[b], cv, offset, note[b])
      <4> SUFFICES ASSUME NEW b \in Second
                   PROVE  note'[b] = Pitch(tuning[b], cv, offset, note[b])
        OBVIOUS
      <4>1. b \in Lanes /\ b \in Batch /\ b \notin old
        BY <2>1, <2>2, <2>6 DEF Second, Awaited
      <4> QED
        BY <1>1, <1>5, <2>1, <4>1, TickedLanes
    <3>3. \A a \in FirstBatch, b \in Second : tuning[a] = tuning[b] => note'[a] = note'[b]
      BY <2>6, <3>1, <3>2 DEF Awaited
    <3>4. \A a, b \in Second : tuning[a] = tuning[b] => note'[a] = note'[b]
      <4> SUFFICES ASSUME NEW a \in Second, NEW b \in Second, tuning[a] = tuning[b]
                   PROVE  note'[a] = note'[b]
        OBVIOUS
      <4>1. note[a] = note[b]
        BY <2>3 DEF Alike
      <4> QED
        BY <3>2, <4>1
    <3>5. \A a, b \in FirstBatch : tuning[a] = tuning[b] => note'[a] = note'[b]
      BY <2>3, <3>1 DEF Alike
    <3> QED
      BY <1>2, <2>4, <3>3, <3>4, <3>5 DEF Alike, Second
  <2> QED
    BY <2>3, <2>5, <2>6
<1> QED
  BY <1>2, <1>3, <1>4, <1>5 DEF LaneTypes
-----------------------------------------------------------------------------
(* Starts, stops and faults, and the steps that leave the lanes alone.     *)

LEMMA KeptLanes ==
    ASSUME NotesInv, UNCHANGED <<active, running, phase, cv, lanes, late>>
    PROVE  LaneTypes' /\ FrameInv'
<1> USE DEF NotesInv, lanes
<1>1. LaneTypes'
  BY DEF LaneTypes
<1>2. FrameInv'
  BY DEF FrameInv, Alike, Awaited, Silent
<1> QED
  BY <1>1, <1>2

\* A route that does not play is silent.
LEMMA ForgottenLanes ==
    ASSUME NotesInv, active' = FALSE, Forget, running' \in BOOLEAN, phase' \in {0, 1}, cv' \in CVs
    PROVE  LaneTypes' /\ FrameInv'
<1>1. note' = Silent /\ seen' = {} /\ tuning' = None /\ offset' = 0 /\ late' = FALSE
  BY DEF Forget
<1>2. Silent \in [Lanes -> Int \union {None}]
  BY DEF Silent
<1>3. LaneTypes'
  <2>1. seen' \subseteq Lanes /\ offset' \in Int
    BY <1>1
  <2>2. late' \in BOOLEAN /\ active' \in BOOLEAN
    BY <1>1
  <2> QED
    BY <1>1, <1>2, <2>1, <2>2 DEF LaneTypes
<1>4. \A a, b \in Lanes : note'[a] = note'[b]
  BY <1>1 DEF Silent
<1>5. FrameInv'
  BY <1>1, <1>4 DEF FrameInv, Alike, Silent
<1> QED
  BY <1>3, <1>5

LEMMA StartedLanes ==
    ASSUME NotesInv, Start
    PROVE  LaneTypes' /\ FrameInv'
<1> USE DEF NotesInv, Start, LaneTypes
<1>1. phase' \in {0, 1} /\ late' \in BOOLEAN /\ (phase' = 1 => late')
  BY DEF FrameAtStart
<1>2. offset' \in Int
  BY DEF MidiInv, Fits, Configs
<1>3. note' \in [Lanes -> Int \union {None}]
  BY DEF Silent
<1>4. LaneTypes'
  BY <1>1, <1>2, <1>3
<1>5. \A a, b \in Lanes : note'[a] = note'[b]
  BY DEF Silent
<1>6. FrameInv'
  BY <1>1, <1>5 DEF FrameInv, Alike
<1> QED
  BY <1>4, <1>6

LEMMA OtherRoutes ==
    ASSUME NotesInv, StartOthers \/ StopOthers
    PROVE  LaneTypes' /\ FrameInv'
<1> USE DEF NotesInv, StartOthers, StopOthers, lanes
<1>1. phase' = phase \/ (phase' = 0 /\ ~active)
  BY DEF FrameAtStart, LaneTypes
<1>2. UNCHANGED <<active, cv, seen, tuning, offset, note, late>>
  OBVIOUS
<1>3. LaneTypes'
  <2>1. running' \in BOOLEAN /\ (active' => running' /\ tuning' \in Channels)
    BY <1>2 DEF LaneTypes
  <2>2. phase' \in {0, 1}
    BY <1>1 DEF LaneTypes
  <2> QED
    BY <1>2, <2>1, <2>2 DEF LaneTypes
<1>4. CASE phase' = phase
  BY <1>3, <1>2, <1>4 DEF FrameInv, Alike, Awaited, Silent
<1>5. CASE phase' = 0 /\ ~active
  <2>1. note' = Silent /\ seen' = {}
    BY <1>2, <1>5 DEF FrameInv
  <2>2. \A a, b \in Lanes : note'[a] = note'[b]
    BY <2>1 DEF Silent
  <2> QED
    BY <1>3, <1>2, <1>5, <2>1, <2>2 DEF FrameInv, Alike, Silent
<1> QED
  BY <1>1, <1>3, <1>4, <1>5

LEMMA InterruptedLanes ==
    ASSUME NotesInv, MidiInv', Interrupt
    PROVE  LaneTypes' /\ FrameInv'
<1>1. CASE Tick
  BY <1>1, TickTypes, TickFrames
<1>2. CASE IdleTick
  BY <1>2, KeptLanes DEF IdleTick
<1>3. CASE FaultTick
  <2>1. cv' \in CVs /\ phase' \in {0, 1} /\ running' \in BOOLEAN
    BY <1>3 DEF FaultTick, NotesInv, LaneTypes
  <2> QED
    BY <1>3, <2>1, ForgottenLanes DEF FaultTick
<1>4. CASE StopAll
  <2>1. cv' \in CVs /\ phase' \in {0, 1} /\ running' \in BOOLEAN
    BY <1>4 DEF StopAll, NotesInv, LaneTypes
  <2> QED
    BY <1>4, <2>1, ForgottenLanes DEF StopAll
<1> QED
  BY <1>1, <1>2, <1>3, <1>4 DEF Interrupt

LEMMA LaneStep ==
    ASSUME NotesInv, MidiInv', [Next]_vars
    PROVE  LaneTypes' /\ FrameInv'
<1>1. ASSUME NEW k \in Notes, Press(k) \/ Release(k) PROVE LaneTypes' /\ FrameInv'
  BY <1>1, KeptLanes DEF Press, Release
<1>2. CASE \/ SyncMidi \/ LeaveMidi \/ Turn \/ LearnScale \/ TakeWord \/ EndBurst \/ Recall
           \/ UNCHANGED vars
  BY <1>2, KeptLanes DEF SyncMidi, LeaveMidi, Turn, LearnScale, TakeWord, EndBurst, Recall, vars
<1>3. CASE Start
  BY <1>3, StartedLanes
<1>4. CASE Stop
  <2>1. cv' \in CVs /\ phase' \in {0, 1} /\ running' \in BOOLEAN
    BY <1>4 DEF Stop, NotesInv, LaneTypes
  <2> QED
    BY <1>4, <2>1, ForgottenLanes DEF Stop
<1>5. CASE StartOthers \/ StopOthers
  BY <1>5, OtherRoutes
<1>6. CASE Interrupt
  BY <1>6, InterruptedLanes
<1> QED
  BY <1>1, <1>2, <1>3, <1>4, <1>5, <1>6 DEF Next, Foreground

LEMMA PageStep ==
    ASSUME NotesInv, [Next]_vars
    PROVE  PageTypes'
<1> USE DEF NotesInv, PageTypes, menu
<1>1. ASSUME NEW k \in Notes, Press(k) \/ Release(k) PROVE PageTypes'
  BY <1>1 DEF Press, Release
<1>2. CASE SyncMidi \/ LeaveMidi \/ Turn
  BY <1>2 DEF SyncMidi, LeaveMidi, Turn
<1>3. CASE LearnScale \/ TakeWord \/ EndBurst
  BY <1>3 DEF LearnScale, TakeWord, EndBurst
<1>4. CASE Recall \/ UNCHANGED vars
  BY <1>4 DEF Recall, vars
<1>5. CASE Start \/ Stop \/ StartOthers \/ StopOthers
  BY <1>5 DEF Start, Stop, StartOthers, StopOthers
<1>6. CASE Interrupt
  BY <1>6 DEF Interrupt, Tick, IdleTick, FaultTick, StopAll
<1> QED
  BY <1>1, <1>2, <1>3, <1>4, <1>5, <1>6 DEF Next, Foreground

-----------------------------------------------------------------------------
(* Every output follows the frame.                                         *)

\* What the sample and the offset of the frame would not move.
Settled(n) == note[n] # None => Pitch(tuning[n], cv, offset, note[n]) = note[n]

\* Every note follows the frame, but those whose turn in it is still to come.
FollowInv == \A n \in Lanes : Settled(n) \/ (phase = 1 /\ n \in Second \ seen)

LEMMA SilentFollows ==
    ASSUME note = Silent
    PROVE  FollowInv
  BY DEF Silent, FollowInv, Settled

LEMMA TickFollows ==
    ASSUME NotesInv, MidiInv', FollowInv, Tick
    PROVE  FollowInv'
<1> USE DEF NotesInv
<1>1. PICK at \in (IF Samples THEN CVs ELSE {}) \union {cv},
           old \in {seen} \union (IF Samples THEN {{}} ELSE {}) :
          /\ old = {} \/ at = cv
          /\ cv' = at
          /\ note' = Ticked(offset', Forgotten(offset'), at, old)
          /\ seen' = IF active THEN old \union Batch ELSE old
  BY DEF Tick
<1>2. /\ active' = active /\ tuning' = tuning
      /\ phase' = 1 - phase /\ phase \in {0, 1} /\ offset' = Offset(midi')
  BY DEF Tick, LaneTypes
<1> DEFINE before == Forgotten(offset')
<1>3. CASE ~active
  <2>1. note = Silent
    BY <1>3 DEF FrameInv
  <2>2. before = Silent
    BY <2>1 DEF Forgotten
  <2>3. note' = Silent
    BY <1>1, <1>3, <2>2 DEF Ticked, Silent
  <2> QED
    BY <2>3 DEF Silent, FollowInv, Settled
<1>4. CASE active
  <2> SUFFICES ASSUME NEW n \in Lanes
               PROVE  Settled(n)' \/ (phase' = 1 /\ n \in Second \ seen')
    BY DEF FollowInv, Second
  <2>1. offset' \in Int /\ at \in Int /\ before[n] \in Int \union {None} /\ tuning[n] \in Tunings
    <3>1. offset' \in Int
      BY DEF MidiInv, Fits, Configs, Offset, Tick, LaneTypes
    <3>2. at \in Int
      BY NotesAssumption DEF LaneTypes
    <3>3. before[n] \in Int \union {None}
      BY DEF Forgotten, Silent, LaneTypes
    <3>4. tuning[n] \in Tunings
      BY <1>4, NotesAssumption DEF LaneTypes
    <3> QED
      BY <3>1, <3>2, <3>3, <3>4
  <2>2. CASE n \in Batch /\ n \notin old
    <3>1. note'[n] = Pitch(tuning[n], at, offset', before[n])
      BY <1>1, <1>4, <2>2, TickedLanes
    <3>2. Pitch(tuning[n], at, offset', note'[n]) = note'[n]
      <4> HIDE DEF before
      <4>1. PICK o \in Int, b \in Int \union {None} : o = offset' /\ b = before[n]
        BY <2>1
      <4>2. Pitch(tuning[n], at, o, Pitch(tuning[n], at, o, b)) = Pitch(tuning[n], at, o, b)
        BY <2>1, PitchSettles
      <4> QED
        BY <3>1, <4>1, <4>2
    <3> QED
      BY <1>1, <1>2, <3>2 DEF Settled
  <2>3. CASE n \in old
    <3>1. old = seen /\ at = cv /\ note'[n] = before[n]
      BY <1>1, <2>3, TickedLanes
    <3>2. Settled(n)
      BY <2>3, <3>1 DEF FollowInv
    <3>3. CASE offset' = offset
      BY <1>1, <1>2, <3>1, <3>2, <3>3 DEF Forgotten, Settled
    <3>4. CASE offset' # offset
      BY <3>1, <3>4 DEF Forgotten, Silent, Settled
    <3> QED
      BY <3>3, <3>4
  <2>4. CASE n \notin Batch /\ n \notin old /\ phase = 0
    BY <1>1, <1>2, <1>4, <2>4 DEF Batch, Second
  <2>5. CASE n \notin Batch /\ n \notin old /\ phase = 1
    <3>1. old = seen /\ at = cv /\ offset' = offset /\ n \in FirstBatch
      BY <1>1, <1>2, <2>5 DEF Samples, Offset, AppliesMidi, Batch
    <3>2. note'[n] = note[n]
      BY <1>1, <2>5, <3>1, TickedLanes DEF Forgotten
    <3>3. Settled(n)
      BY <3>1 DEF FollowInv, Second
    <3> QED
      BY <1>1, <1>2, <3>1, <3>2, <3>3 DEF Settled
  <2> QED
    BY <1>2, <2>2, <2>3, <2>4, <2>5
<1> QED
  BY <1>3, <1>4

LEMMA NextFollows ==
    ASSUME NotesInv, MidiInv', FollowInv, [Next]_vars
    PROVE  FollowInv'
<1> USE DEF FollowInv, Settled, Second, lanes
<1>1. ASSUME NEW k \in Notes, Press(k) \/ Release(k) PROVE FollowInv'
  BY <1>1 DEF Press, Release
<1>2. CASE \/ SyncMidi \/ LeaveMidi \/ Turn \/ LearnScale \/ TakeWord \/ EndBurst \/ Recall
           \/ UNCHANGED vars
  BY <1>2 DEF SyncMidi, LeaveMidi, Turn, LearnScale, TakeWord, EndBurst, Recall, vars
<1>3. CASE Start \/ Stop \/ FaultTick \/ StopAll
  BY <1>3 DEF Start, Stop, FaultTick, StopAll, Forget, Silent
<1>4. CASE StartOthers \/ StopOthers
  <2>1. UNCHANGED <<cv, seen, tuning, offset, note>> /\ (phase' = phase \/ ~active)
    BY <1>4 DEF StartOthers, StopOthers, NotesInv, LaneTypes
  <2>2. ~active => note = Silent
    BY DEF NotesInv, FrameInv
  <2> QED
    BY <2>1, <2>2 DEF Silent
<1>5. CASE IdleTick
  BY <1>5 DEF IdleTick
<1>6. CASE Tick
  BY <1>6, TickFollows
<1> QED
  BY <1>1, <1>2, <1>3, <1>4, <1>5, <1>6 DEF Next, Foreground, Interrupt

-----------------------------------------------------------------------------
(* The theorems.                                                           *)

LEMMA InitNotes == Init => NotesInv
<1> SUFFICES ASSUME Init PROVE NotesInv
  OBVIOUS
<1>1. Min(Notes) \in Notes
  BY MinIsLeast, NotesAssumption
<1>2. /\ midi \in Configs /\ midi.base = Min(Notes) /\ midi.shift = 0
      /\ midi.last = None /\ midi.learned = None
  BY <1>1 DEF Init, Configs
<1>3. fifo = <<>> /\ fifo \in Seq(Words) /\ Len(fifo) = 0 /\ Len(fifo) <= Depth
  BY NotesAssumption DEF Init
<1>4. Fits(midi) /\ appBase \in Notes
  BY <1>1, <1>2 DEF Fits, Init
<1>5. Owed(midi, 1)
  BY <1>2, <1>3, NotesAreNumbers DEF Owed
<1>6. MidiInv
  BY <1>3, <1>4, <1>5 DEF MidiInv, Init
<1>7. PageTypes
  BY DEF PageTypes, Init
<1>8. LaneTypes
  <2>1. note \in [Lanes -> Int \union {None}]
    BY DEF Init, Silent
  <2>2. active = FALSE /\ running = FALSE /\ late = FALSE /\ tuning = None
    BY DEF Init
  <2>3. phase \in {0, 1} /\ cv \in CVs /\ seen \subseteq Lanes /\ offset \in Int
    BY DEF Init
  <2> QED
    BY <2>1, <2>2, <2>3 DEF LaneTypes
<1>9. FrameInv
  BY SilentIsAlike DEF FrameInv, Init
<1> QED
  BY <1>6, <1>7, <1>8, <1>9 DEF NotesInv

LEMMA NextNotes == NotesInv /\ [Next]_vars => NotesInv'
<1> SUFFICES ASSUME NotesInv, [Next]_vars PROVE NotesInv'
  OBVIOUS
<1>1. MidiInv'
  BY MidiStep DEF NotesInv
<1> QED
  BY <1>1, LaneStep, PageStep DEF NotesInv

LEMMA Notebook == Spec => []NotesInv
  BY InitNotes, NextNotes, PTL DEF Spec

\* The variables hold values the firmware can hold: pitches stay numbers for any
\* scale and any CV, and the receive queue keeps to its depth.
THEOREM NoteTypes == Spec => []TypeOK
<1>1. NotesInv => TypeOK
  BY DEF NotesInv, MidiInv, PageTypes, LaneTypes, Fits, Configs, TypeOK
<1> QED
  BY <1>1, Notebook, PTL

\* After whole frames of a route that was started between two of them, outputs with the
\* same settings show one note (the batches of timer0_handler), whatever the settings
\* of the outputs (toggle), the scales, the hysteresis and the keyboard are.
THEOREM OneNotePerFrame == Spec => []FramesAreUnison
<1>1. NotesInv => FramesAreUnison
  BY DEF NotesInv, LaneTypes, FrameInv, Alike, FramesAreUnison, Unison
<1> QED
  BY <1>1, Notebook, PTL

\* After whole frames every output plays a note that the frame's sample and offset
\* leave as it is (Engine::tick, set_midi_transpose), for any settings and scales of the
\* outputs and whenever the route was started: the choice of a note and its
\* hysteresis agree, and no output is left with the note of an older sample.
THEOREM EachFollowsTheFrame == Spec => []FollowsTheFrame
<1>1. Init => FollowInv
  BY SilentFollows DEF Init
<1>2. NotesInv /\ NotesInv' /\ FollowInv /\ [Next]_vars => FollowInv'
  BY NextFollows DEF NotesInv
<1>3. FollowInv => FollowsTheFrame
  BY DEF FollowInv, Settled, FollowsTheFrame
<1> QED
  BY <1>1, <1>2, <1>3, Notebook, PTL DEF Spec

\* The transposition is the distance of the last note from the base of the settings page,
\* learned or edited (midi_word, poll_ui_frame), however words are batched.
THEOREM ShiftsFit == Spec => []ShiftFitsBase
<1>1. NotesInv => ShiftFitsBase
  BY DEF NotesInv, MidiInv, Fits, Base, ShiftFitsBase
<1> QED
  BY <1>1, Notebook, PTL

\* No note transposes a RESET ON RELEASE route when its key is up and the queue is
\* empty, unless its release was lost (Config::released), for any depth of the queue.
THEOREM ReleasesReset == Spec => []ReleaseResets
<1>1. NotesInv => ReleaseResets
  <2> SUFFICES ASSUME MidiInv, ~midi.hold, fifo = <<>>, midi.last # None,
                      midi.last \notin lost, midi.last \notin keys
               PROVE  FALSE
    BY DEF NotesInv, ReleaseResets
  <2>1. midi.last \in Notes
    BY DEF MidiInv, Fits, Configs
  <2>2. Len(fifo) = 0
    OBVIOUS
  <2> QED
    BY <2>1, <2>2 DEF MidiInv, Owed
<1> QED
  BY <1>1, Notebook, PTL
=============================================================================
