--------------------------- MODULE RecordsProofs ---------------------------
(***************************************************************************)
(* A record says what was typed and is read back as it was saved, for      *)
(* every base, width and limit. What parse_u64, operator<<, getline and    *)
(* text_to_meta compute is recursive; the induction each fact needs is     *)
(* done on a set of naturals, by its least element.                        *)
(***************************************************************************)
EXTENDS Records, SequenceTheorems, WellFoundedInduction, TLAPS

-----------------------------------------------------------------------------
(* Induction. *)

\* Every set of naturals that is not empty has a least element.
LEMMA MinOfNats ==
    ASSUME NEW S \in SUBSET Nat, S # {}
    PROVE  \E k \in S : \A j \in S : k <= j
<1>1. IsWellFoundedOn(OpToRel(<, Nat), Nat)
  BY NatLessThanWellFounded, Zenon
<1>2. PICK k \in S : \A j \in S : ~(<<j, k>> \in OpToRel(<, Nat))
  BY <1>1, WFMin, Zenon
<1>3. \A j \in S : ~(j < k)
  BY <1>2, Zenon DEF OpToRel
<1>. QED
  BY <1>3

\* Induction over a set: what contains 0 and every successor contains every natural.
LEMMA Induction ==
    ASSUME NEW Q, 0 \in Q, \A n \in Nat : n \in Q => n + 1 \in Q
    PROVE  \A n \in Nat : n \in Q
<1>. DEFINE S == {n \in Nat : n \notin Q}
<1>1. SUFFICES ASSUME S # {} PROVE FALSE
  BY Zenon
<1>2. PICK k \in S : \A j \in S : k <= j
  BY <1>1, MinOfNats, S \in SUBSET Nat, Zenon
<1>3. k \in Nat /\ k \notin Q /\ k # 0
  BY <1>2
<1>4. k - 1 \in Nat /\ k - 1 < k /\ (k - 1) + 1 = k
  BY <1>3
<1>5. k - 1 \in Q
  BY <1>2, <1>4
<1>. QED
  BY <1>3, <1>4, <1>5

\* The same with everything smaller as hypothesis.
LEMMA StrongInduction ==
    ASSUME NEW Q, \A n \in Nat : (\A k \in 0..(n - 1) : k \in Q) => n \in Q
    PROVE  \A n \in Nat : n \in Q
<1>. DEFINE S == {n \in Nat : n \notin Q}
<1>1. SUFFICES ASSUME S # {} PROVE FALSE
  BY Zenon
<1>2. PICK k \in S : \A j \in S : k <= j
  BY <1>1, MinOfNats, S \in SUBSET Nat, Zenon
<1>3. k \in Nat /\ k \notin Q
  BY <1>2
<1>4. \A j \in 0..(k - 1) : j \in Q
  BY <1>2, <1>3
<1>. QED
  BY <1>3, <1>4

-----------------------------------------------------------------------------
(* The recursions, as equations: f is the function up to n. *)

IsValue(f, chars, n) ==
    f = [k \in 0..n |->
            IF k = 0 THEN {0}
            ELSE {(v * Base + Digit(chars[k])) % U :
                     v \in {v \in f[k - 1] : IsDigit(chars[k]) /\ CanGrow(v, Digit(chars[k]))}}]

IsPlace(f, n) == f = [k \in 0..n |-> IF k = 0 THEN 1 ELSE Base * f[k - 1]]

IsSum(f, ds, place, n) ==
    f = [k \in 0..n |-> IF k = 0 THEN 0 ELSE f[k - 1] + Digit(ds[k]) * place[Len(ds) - k]]

\* Horner's scheme, to compare the two.
IsHorner(f, ds, n) == f = [k \in 0..n |-> IF k = 0 THEN 0 ELSE f[k - 1] * Base + Digit(ds[k])]
Horner(ds) == (CHOOSE f : IsHorner(f, ds, Len(ds)))[Len(ds)]

LEMMA ValueExists ==
    ASSUME NEW chars
    PROVE  \A n \in Nat : \E f : IsValue(f, chars, n)
<1>. DEFINE Q == {n \in Nat : \E f : IsValue(f, chars, n)}
            Of(s, c) == {(v * Base + Digit(c)) % U :
                            v \in {v \in s : IsDigit(c) /\ CanGrow(v, Digit(c))}}
<1>1. 0 \in Q
  <2>. DEFINE f == [k \in 0..0 |-> {0}]
  <2>1. IsValue(f, chars, 0)
    BY DEF IsValue
  <2>. QED
    BY <2>1, Zenon
<1>2. ASSUME NEW n \in Nat, n \in Q PROVE n + 1 \in Q
  <2>1. PICK f : IsValue(f, chars, n)
    BY <1>2, Zenon
  <2>. DEFINE g == [k \in 0..(n + 1) |-> IF k = 0 THEN {0} ELSE Of(f[k - 1], chars[k])]
  <2>2. \A k \in 0..n : f[k] = IF k = 0 THEN {0} ELSE Of(f[k - 1], chars[k])
    BY <2>1, Zenon DEF IsValue
  <2>3. \A k \in 0..n : g[k] = f[k]
    <3>. HIDE DEF Of
    <3>. QED  BY <2>2
  <2>4. \A k \in 0..(n + 1) : k # 0 => g[k - 1] = f[k - 1]
    <3>. HIDE DEF g
    <3>. QED  BY <2>3
  <2>5. g = [k \in 0..(n + 1) |-> IF k = 0 THEN {0} ELSE Of(g[k - 1], chars[k])]
    BY <2>4, Zenon
  <2>6. \E f_1 : IsValue(f_1, chars, n + 1)
    BY <2>5, Zenon DEF IsValue
  <2>7. n + 1 \in Nat
    OBVIOUS
  <2>. QED
    BY <2>6, <2>7, Zenon
<1>. HIDE DEF Q
<1>3. \A n \in Nat : n \in Q
  BY <1>1, <1>2, Induction
<1>. QED
  BY <1>3 DEF Q

LEMMA PlaceExists ==
    \A n \in Nat : \E f : IsPlace(f, n)
<1>. DEFINE Q == {n \in Nat : \E f : IsPlace(f, n)}
<1>1. 0 \in Q
  <2>. DEFINE f == [k \in 0..0 |-> 1]
  <2>1. IsPlace(f, 0)
    BY DEF IsPlace
  <2>. QED
    BY <2>1, Zenon
<1>2. ASSUME NEW n \in Nat, n \in Q PROVE n + 1 \in Q
  <2>1. PICK f : IsPlace(f, n)
    BY <1>2, Zenon
  <2>. DEFINE g == [k \in 0..(n + 1) |-> IF k = 0 THEN 1 ELSE Base * f[k - 1]]
  <2>2. \A k \in 0..n : f[k] = IF k = 0 THEN 1 ELSE Base * f[k - 1]
    BY <2>1, Zenon DEF IsPlace
  <2>3. \A k \in 0..n : g[k] = f[k]
    BY <2>2
  <2>4. \A k \in 0..(n + 1) : k # 0 => g[k - 1] = f[k - 1]
    <3>. HIDE DEF g
    <3>. QED  BY <2>3
  <2>5. g = [k \in 0..(n + 1) |-> IF k = 0 THEN 1 ELSE Base * g[k - 1]]
    BY <2>4, Zenon
  <2>6. \E f_1 : IsPlace(f_1, n + 1)
    BY <2>5, Zenon DEF IsPlace
  <2>7. n + 1 \in Nat
    OBVIOUS
  <2>. QED
    BY <2>6, <2>7, Zenon
<1>. HIDE DEF Q
<1>3. \A n \in Nat : n \in Q
  BY <1>1, <1>2, Induction
<1>. QED
  BY <1>3 DEF Q

LEMMA SumExists ==
    ASSUME NEW ds, NEW place
    PROVE  \A n \in Nat : \E f : IsSum(f, ds, place, n)
<1>. DEFINE Q == {n \in Nat : \E f : IsSum(f, ds, place, n)}
<1>1. 0 \in Q
  <2>. DEFINE f == [k \in 0..0 |-> 0]
  <2>1. IsSum(f, ds, place, 0)
    BY DEF IsSum
  <2>. QED
    BY <2>1, Zenon
<1>2. ASSUME NEW n \in Nat, n \in Q PROVE n + 1 \in Q
  <2>1. PICK f : IsSum(f, ds, place, n)
    BY <1>2, Zenon
  <2>. DEFINE g == [k \in 0..(n + 1) |-> IF k = 0 THEN 0 ELSE f[k - 1] + Digit(ds[k]) * place[Len(ds) - k]]
  <2>2. \A k \in 0..n : f[k] = IF k = 0 THEN 0 ELSE f[k - 1] + Digit(ds[k]) * place[Len(ds) - k]
    BY <2>1, Zenon DEF IsSum
  <2>3. \A k \in 0..n : g[k] = f[k]
    BY <2>2
  <2>4. \A k \in 0..(n + 1) : k # 0 => g[k - 1] = f[k - 1]
    <3>. HIDE DEF g
    <3>. QED  BY <2>3
  <2>5. g = [k \in 0..(n + 1) |-> IF k = 0 THEN 0 ELSE g[k - 1] + Digit(ds[k]) * place[Len(ds) - k]]
    BY <2>4, Zenon
  <2>6. \E f_1 : IsSum(f_1, ds, place, n + 1)
    BY <2>5, Zenon DEF IsSum
  <2>7. n + 1 \in Nat
    OBVIOUS
  <2>. QED
    BY <2>6, <2>7, Zenon
<1>. HIDE DEF Q
<1>3. \A n \in Nat : n \in Q
  BY <1>1, <1>2, Induction
<1>. QED
  BY <1>3 DEF Q

LEMMA HornerExists ==
    ASSUME NEW ds
    PROVE  \A n \in Nat : \E f : IsHorner(f, ds, n)
<1>. DEFINE Q == {n \in Nat : \E f : IsHorner(f, ds, n)}
<1>1. 0 \in Q
  <2>. DEFINE f == [k \in 0..0 |-> 0]
  <2>1. IsHorner(f, ds, 0)
    BY DEF IsHorner
  <2>. QED
    BY <2>1, Zenon
<1>2. ASSUME NEW n \in Nat, n \in Q PROVE n + 1 \in Q
  <2>1. PICK f : IsHorner(f, ds, n)
    BY <1>2, Zenon
  <2>. DEFINE g == [k \in 0..(n + 1) |-> IF k = 0 THEN 0 ELSE f[k - 1] * Base + Digit(ds[k])]
  <2>2. \A k \in 0..n : f[k] = IF k = 0 THEN 0 ELSE f[k - 1] * Base + Digit(ds[k])
    BY <2>1, Zenon DEF IsHorner
  <2>3. \A k \in 0..n : g[k] = f[k]
    BY <2>2
  <2>4. \A k \in 0..(n + 1) : k # 0 => g[k - 1] = f[k - 1]
    <3>. HIDE DEF g
    <3>. QED  BY <2>3
  <2>5. g = [k \in 0..(n + 1) |-> IF k = 0 THEN 0 ELSE g[k - 1] * Base + Digit(ds[k])]
    BY <2>4, Zenon
  <2>6. \E f_1 : IsHorner(f_1, ds, n + 1)
    BY <2>5, Zenon DEF IsHorner
  <2>7. n + 1 \in Nat
    OBVIOUS
  <2>. QED
    BY <2>6, <2>7, Zenon
<1>. HIDE DEF Q
<1>3. \A n \in Nat : n \in Q
  BY <1>1, <1>2, Induction
<1>. QED
  BY <1>3 DEF Q

-----------------------------------------------------------------------------
(* Digits. *)

\* Every character and word that occurs.
Alphabet == {"0", "1", "2", "3", "4", "5", "6", "7", "8", "9", "-", "x", "nl", "cr", "#", "=", "p",
             "word", "state", "op", "path", "workers", "nice", "mem_mb", "newer",
             "submitted", "queued", "failed", "count", "copy"}

AllDigits(chars) == \A i \in 1..Len(chars) : IsDigit(chars[i])

LEMMA Constants ==
    /\ Base \in Nat /\ Base >= 2 /\ Base <= 10 /\ U \in Nat /\ U > 0 /\ I \in Nat /\ I > 0
    /\ U % I = 0 /\ I % 2 = 0
BY RecordsAssumption

LEMMA PrefixIs ==
    ASSUME NEW S, NEW s \in Seq(S), NEW n \in 0..Len(s)
    PROVE  /\ SubSeq(s, 1, n) \in Seq(S) /\ Len(SubSeq(s, 1, n)) = n
           /\ \A i \in 1..n : SubSeq(s, 1, n)[i] = s[i]
OBVIOUS

LEMMA DigitCharsAre ==
    /\ DigitChars \in Seq(Alphabet) /\ Len(DigitChars) = Base /\ DOMAIN DigitChars = 1..Base
    /\ \A i \in 1..Base :
          DigitChars[i] = <<"0", "1", "2", "3", "4", "5", "6", "7", "8", "9">>[i]
<1>. DEFINE all == <<"0", "1", "2", "3", "4", "5", "6", "7", "8", "9">>
<1>1. all \in Seq(Alphabet) /\ Len(all) = 10
  BY DEF Alphabet
<1>. HIDE DEF all
<1>2. /\ SubSeq(all, 1, Base) \in Seq(Alphabet)
      /\ Len(SubSeq(all, 1, Base)) = Base
      /\ \A i \in 1..Base : SubSeq(all, 1, Base)[i] = all[i]
  <2>1. Base \in 0..Len(all)
    BY <1>1, Constants
  <2>. QED
    BY <1>1, <2>1, PrefixIs
<1>. QED
  BY <1>2, Constants DEF DigitChars, all

LEMMA DigitOf ==
    \A i \in 1..Base : IsDigit(DigitChars[i]) /\ Digit(DigitChars[i]) = i - 1
<1>. TAKE i \in 1..Base
<1>1. IsDigit(DigitChars[i])
  BY DigitCharsAre DEF IsDigit, Range
<1>2. \A j \in 1..Base : DigitChars[j] = DigitChars[i] => j = i
  BY DigitCharsAre, Constants
<1>3. (CHOOSE j \in 1..Base : DigitChars[j] = DigitChars[i]) = i
  BY <1>2, Zenon
<1>. QED
  BY <1>1, <1>3 DEF Digit

LEMMA DigitIs ==
    ASSUME NEW c, IsDigit(c)
    PROVE  /\ Digit(c) \in 0..(Base - 1) /\ DigitChars[Digit(c) + 1] = c
           /\ c \in Alphabet /\ c \notin {"-", "nl", "cr", "=", "#"}
<1>1. PICK i \in 1..Base : DigitChars[i] = c
  BY DigitCharsAre DEF IsDigit, Range
<1>2. Digit(c) = i - 1
  BY <1>1, DigitOf
<1>3. c \in Alphabet /\ c \notin {"-", "nl", "cr", "=", "#"}
  BY <1>1, DigitCharsAre, Constants DEF Alphabet
<1>4. Digit(c) + 1 = i
  BY <1>2, Constants
<1>. QED
  BY <1>1, <1>2, <1>3, <1>4, Constants

LEMMA Unfold ==
    ASSUME NEW ds \in Seq(Alphabet), NEW n \in 0..Len(ds), AllDigits(ds), NEW h, IsHorner(h, ds, n)
    PROVE  /\ h[0] = 0
           /\ \A k \in 0..n : h[k] \in Nat
           /\ \A k \in 1..n : h[k] = h[k - 1] * Base + Digit(ds[k])
<1>1. \A k \in 0..n : h[k] = IF k = 0 THEN 0 ELSE h[k - 1] * Base + Digit(ds[k])
  BY Zenon DEF IsHorner
<1>2. \A k \in 1..n : Digit(ds[k]) \in Nat
  BY DigitIs, Constants DEF AllDigits
<1>. DEFINE Q == {k \in Nat : k <= n => h[k] \in Nat}
<1>3. 0 \in Q
  BY <1>1
<1>4. ASSUME NEW k \in Nat, k \in Q PROVE k + 1 \in Q
  <2>1. SUFFICES ASSUME k + 1 <= n PROVE h[k + 1] \in Nat
    OBVIOUS
  <2>2. h[k] \in Nat /\ Digit(ds[k + 1]) \in Nat
    BY <1>2, <1>4, <2>1
  <2>3. k + 1 \in 0..n /\ k + 1 # 0 /\ (k + 1) - 1 = k
    BY <2>1
  <2>4. h[k + 1] = h[k] * Base + Digit(ds[k + 1])
    BY <1>1, <2>3
  <2>. QED
    BY <2>2, <2>4, Constants
<1>5. \A k \in Nat : k \in Q
  <2>. HIDE DEF Q
  <2>. QED  BY <1>3, <1>4, Induction
<1>. QED
  BY <1>1, <1>5

LEMMA HornerIs ==
    ASSUME NEW ds \in Seq(Alphabet)
    PROVE  \E h : IsHorner(h, ds, Len(ds)) /\ Horner(ds) = h[Len(ds)]
<1>1. \E h : IsHorner(h, ds, Len(ds))
  BY HornerExists, Len(ds) \in Nat
<1>. QED
  BY <1>1, Zenon DEF Horner

-----------------------------------------------------------------------------
(* parse_u64 and NumberOf agree. *)

\* The guard of parse_u64: one more digit fits.
LEMMA CanGrowIs ==
    ASSUME NEW v \in Nat, NEW d \in Nat
    PROVE  CanGrow(v, d) <=> v * Base + d < U
<1>. DEFINE x == U - 1 - d
            q == x \div Base
<1>1. x \in Int /\ q \in Int /\ Base * q <= x /\ x < Base * q + Base
  BY Constants
<1>2. CanGrow(v, d) <=> v <= q
  BY DEF CanGrow
<1>. HIDE DEF q
<1>3. v * Base \in Int /\ v * Base = Base * v
  BY Constants
<1>4. v * Base + d < U <=> Base * v <= x
  BY <1>3, Constants
<1>. HIDE DEF x
<1>5. ASSUME v <= q PROVE Base * v <= Base * q
  BY <1>5, <1>1, Constants
<1>6. ASSUME ~(v <= q) PROVE Base * v >= Base * q + Base
  <2>1. v - q - 1 \in Nat
    BY <1>6, <1>1
  <2>2. Base * (v - q - 1) \in Nat
    BY <2>1, Constants
  <2>3. Base * (v - q - 1) = Base * v - Base * q - Base
    BY <1>1, Constants
  <2>4. Base * v \in Int /\ Base * q \in Int
    BY <1>1, Constants
  <2>. QED
    BY <2>2, <2>3, <2>4, Constants
<1>7. Base * v \in Int /\ Base * q \in Int
  BY <1>1, Constants
<1>. QED
  BY <1>1, <1>2, <1>4, <1>5, <1>6, <1>7, Constants

LEMMA SmallMod ==
    ASSUME NEW x \in Nat, NEW m \in Nat, x < m
    PROVE  x % m = x
OBVIOUS

\* parse_u64 reads exactly the strings of digits whose value fits, and reads their value.
LEMMA ParseIsHorner ==
    ASSUME NEW chars \in Seq(Alphabet), chars # <<>>
    PROVE  /\ AllDigits(chars) =>
                 parse_u64(chars) = IF Horner(chars) < U THEN {Horner(chars)} ELSE {}
           /\ ~AllDigits(chars) => parse_u64(chars) = {}
<1>. DEFINE L == Len(chars)
            Of(s, c) == {(v * Base + Digit(c)) % U :
                            v \in {v \in s : IsDigit(c) /\ CanGrow(v, Digit(c))}}
<1>1. L \in Nat
  OBVIOUS
<1>2. PICK value : IsValue(value, chars, L) /\ parse_u64(chars) = value[L]
  <2>1. \E f : IsValue(f, chars, L)
    BY <1>1, ValueExists
  <2>. QED
    BY <2>1, Zenon DEF parse_u64, IsValue
<1>3. \A k \in 0..L : value[k] = IF k = 0 THEN {0} ELSE Of(value[k - 1], chars[k])
  BY <1>2, Zenon DEF IsValue
<1>4. ASSUME AllDigits(chars)
      PROVE  parse_u64(chars) = IF Horner(chars) < U THEN {Horner(chars)} ELSE {}
  <2>1. PICK h : IsHorner(h, chars, L) /\ Horner(chars) = h[L]
    BY HornerIs
  <2>2. /\ h[0] = 0
        /\ \A k \in 0..L : h[k] \in Nat
        /\ \A k \in 1..L : h[k] = h[k - 1] * Base + Digit(chars[k])
    BY <1>1, <1>4, <2>1, Unfold, L \in 0..L
  <2>. DEFINE Q == {k \in Nat : k <= L => value[k] = IF h[k] < U THEN {h[k]} ELSE {}}
  <2>3. 0 \in Q
    <3>1. value[0] = {0}
      <4>. HIDE DEF Of
      <4>. QED  BY <1>1, <1>3
    <3>. QED
      BY <2>2, <3>1, Constants
  <2>4. ASSUME NEW k \in Nat, k \in Q PROVE k + 1 \in Q
    <3>1. SUFFICES ASSUME k + 1 <= L
                   PROVE  value[k + 1] = IF h[k + 1] < U THEN {h[k + 1]} ELSE {}
      OBVIOUS
    <3>. DEFINE d == Digit(chars[k + 1])
    <3>2. IsDigit(chars[k + 1]) /\ d \in Nat
      BY <1>4, <3>1, DigitIs, Constants DEF AllDigits
    <3>3. k + 1 \in 1..L /\ k + 1 \in 0..L /\ k \in 0..L /\ k + 1 # 0 /\ (k + 1) - 1 = k
      BY <1>1, <3>1
    <3>4. h[k] \in Nat /\ h[k + 1] = h[k] * Base + d /\ h[k + 1] \in Nat
      BY <2>2, <3>3
    <3>5. value[k] = IF h[k] < U THEN {h[k]} ELSE {}
      BY <2>4, <3>1
    <3>6. value[k + 1] = Of(value[k], chars[k + 1])
      BY <1>3, <3>3
    <3>7. Of(value[k], chars[k + 1]) = {(v * Base + d) % U : v \in {v \in value[k] : CanGrow(v, d)}}
      BY <3>2
    <3>. HIDE DEF d, Of
    <3>8. CASE h[k + 1] < U
      <4>1. h[k] < U /\ CanGrow(h[k], d)
        <5>1. h[k] * Base >= h[k] /\ h[k] * Base \in Int
          BY <3>4, Constants
        <5>2. h[k] < U
          BY <3>2, <3>4, <3>8, <5>1, Constants
        <5>3. CanGrow(h[k], d)
          BY <3>2, <3>4, <3>8, CanGrowIs
        <5>. QED
          BY <5>2, <5>3
      <4>2. (h[k] * Base + d) % U = h[k + 1]
        BY <3>4, <3>8, SmallMod, Constants
      <4>3. {v \in value[k] : CanGrow(v, d)} = {h[k]}
        BY <3>5, <4>1
      <4>4. Of(value[k], chars[k + 1]) = {h[k + 1]}
        BY <3>7, <4>2, <4>3
      <4>. QED
        BY <3>6, <3>8, <4>4
    <3>9. CASE ~(h[k + 1] < U)
      <4>1. ~CanGrow(h[k], d)
        BY <3>2, <3>4, <3>9, CanGrowIs
      <4>2. {v \in value[k] : CanGrow(v, d)} = {}
        BY <3>5, <4>1
      <4>3. Of(value[k], chars[k + 1]) = {}
        BY <3>7, <4>2
      <4>. QED
        BY <3>6, <3>9, <4>3
    <3>. QED
      BY <3>8, <3>9
  <2>5. \A k \in Nat : k \in Q
    <3>. HIDE DEF Q
    <3>. QED  BY <2>3, <2>4, Induction
  <2>6. value[L] = IF h[L] < U THEN {h[L]} ELSE {}
    <3>1. L \in Q /\ L <= L
      <4>. HIDE DEF Q, L
      <4>. QED  BY <1>1, <2>5
    <3>. QED
      BY <3>1, Zenon
  <2>. QED
    BY <1>2, <2>1, <2>6
<1>5. ASSUME ~AllDigits(chars)
      PROVE  parse_u64(chars) = {}
  <2>1. PICK i \in 1..L : ~IsDigit(chars[i])
    BY <1>5 DEF AllDigits
  <2>. DEFINE Q == {k \in Nat : i + k <= L => value[i + k] = {}}
  <2>2. 0 \in Q
    <3>1. value[i] = Of(value[i - 1], chars[i])
      <4>. HIDE DEF Of
      <4>. QED  BY <1>1, <1>3
    <3>2. Of(value[i - 1], chars[i]) = {}
      BY <2>1
    <3>. HIDE DEF Of
    <3>. QED
      BY <1>1, <3>1, <3>2
  <2>3. ASSUME NEW k \in Nat, k \in Q PROVE k + 1 \in Q
    <3>1. SUFFICES ASSUME i + (k + 1) <= L PROVE value[i + (k + 1)] = {}
      OBVIOUS
    <3>2. /\ i + (k + 1) \in 0..L /\ i + (k + 1) # 0 /\ (i + (k + 1)) - 1 = i + k
          /\ i + k <= L
      BY <1>1, <3>1
    <3>3. value[i + k] = {}
      BY <2>3, <3>2
    <3>4. value[i + (k + 1)] = Of({}, chars[i + (k + 1)])
      BY <1>3, <3>2, <3>3
    <3>. QED
      BY <3>4
  <2>4. \A k \in Nat : k \in Q
    <3>. HIDE DEF Q
    <3>. QED  BY <2>2, <2>3, Induction
  <2>5. L - i \in Q /\ i + (L - i) = L
    <3>1. L - i \in Nat /\ i + (L - i) = L
      BY <1>1
    <3>. HIDE DEF Q, L
    <3>. QED
      BY <2>4, <3>1
  <2>. QED
    BY <1>1, <1>2, <2>5
<1>. QED
  BY <1>4, <1>5

\* The digits by place value add up to what Horner's scheme computes.
LEMMA NumberIsHorner ==
    ASSUME NEW chars, NEW ds \in Seq(Alphabet), ds = Magnitude(chars), AllDigits(ds)
    PROVE  /\ NumberOf(chars) = IF Negative(chars) THEN -Horner(ds) ELSE Horner(ds)
           /\ Horner(ds) \in Nat
<1>. DEFINE L == Len(ds)
<1>1. L \in Nat
  OBVIOUS
<1>2. PICK h : IsHorner(h, ds, L) /\ Horner(ds) = h[L]
  BY HornerIs
<1>3. /\ h[0] = 0
      /\ \A k \in 0..L : h[k] \in Nat
      /\ \A k \in 1..L : h[k] = h[k - 1] * Base + Digit(ds[k])
  BY <1>1, <1>2, Unfold, L \in 0..L
<1>. DEFINE place == CHOOSE f : IsPlace(f, L)
            sum   == CHOOSE f : IsSum(f, ds, place, L)
<1>4. IsPlace(place, L) /\ IsSum(sum, ds, place, L)
  <2>1. \E f : IsPlace(f, L)
    BY <1>1, PlaceExists
  <2>2. \E f : IsSum(f, ds, place, L)
    BY <1>1, SumExists
  <2>. QED
    BY <2>1, <2>2, Zenon
<1>5. NumberOf(chars) = IF Negative(chars) THEN -sum[L] ELSE sum[L]
  <2>. DEFINE sumOf(s) == (CHOOSE f : IsSum(f, s, CHOOSE g : IsPlace(g, Len(s)), Len(s)))[Len(s)]
  <2>1. NumberOf(chars) = IF Negative(chars) THEN -sumOf(Magnitude(chars))
                          ELSE sumOf(Magnitude(chars))
    BY Zenon DEF NumberOf, IsPlace, IsSum
  <2>2. sumOf(ds) = sum[L]
    BY Zenon
  <2>. HIDE DEF sumOf, sum
  <2>. QED
    BY <2>1, <2>2
<1>. HIDE DEF place, sum
<1>6. \A k \in 0..L : place[k] = IF k = 0 THEN 1 ELSE Base * place[k - 1]
  BY <1>4, Zenon DEF IsPlace
<1>7. \A k \in 0..L : sum[k] = IF k = 0 THEN 0 ELSE sum[k - 1] + Digit(ds[k]) * place[L - k]
  BY <1>4, Zenon DEF IsSum
<1>. HIDE DEF L
<1>8. \A k \in 0..L : place[k] \in Nat
  <2>. DEFINE Q == {k \in Nat : k <= L => place[k] \in Nat}
  <2>1. 0 \in Q
    BY <1>1, <1>6
  <2>2. ASSUME NEW k \in Nat, k \in Q PROVE k + 1 \in Q
    <3>1. SUFFICES ASSUME k + 1 <= L PROVE place[k + 1] \in Nat
      OBVIOUS
    <3>2. k + 1 \in 0..L /\ k + 1 # 0 /\ (k + 1) - 1 = k /\ k <= L
      BY <1>1, <3>1
    <3>3. place[k] \in Nat /\ place[k + 1] = Base * place[k]
      BY <1>6, <2>2, <3>2
    <3>. QED
      BY <3>3, Constants
  <2>3. \A k \in Nat : k \in Q
    <3>. HIDE DEF Q
    <3>. QED  BY <2>1, <2>2, Induction
  <2>. QED
    BY <1>1, <2>3
<1>9. \A k \in 1..L : Digit(ds[k]) \in Nat
  BY DigitIs, Constants DEF AllDigits, L
<1>. DEFINE Q == {k \in Nat : k <= L => sum[k] = h[k] * place[L - k]}
<1>10. 0 \in Q
  <2>1. sum[0] = 0
    BY <1>1, <1>7
  <2>2. L - 0 \in 0..L /\ 0 * place[L - 0] = 0
    BY <1>1, <1>8
  <2>. QED
    BY <1>3, <2>1, <2>2
<1>11. ASSUME NEW k \in Nat, k \in Q PROVE k + 1 \in Q
  <2>1. SUFFICES ASSUME k + 1 <= L PROVE sum[k + 1] = h[k + 1] * place[L - (k + 1)]
    OBVIOUS
  <2>. DEFINE p == place[L - (k + 1)]
              d == Digit(ds[k + 1])
  <2>2. /\ k + 1 \in 0..L /\ k + 1 \in 1..L /\ k + 1 # 0 /\ (k + 1) - 1 = k /\ k <= L /\ k \in 0..L
        /\ L - k \in 0..L /\ L - k # 0 /\ (L - k) - 1 = L - (k + 1) /\ L - (k + 1) \in 0..L
    BY <1>1, <2>1
  <2>3. p \in Nat /\ d \in Nat /\ h[k] \in Nat
    BY <1>3, <1>8, <1>9, <2>2
  <2>4. sum[k + 1] = sum[k] + d * p
    BY <1>7, <2>2
  <2>5. sum[k] = h[k] * (Base * p)
    <3>1. place[L - k] = Base * p
      BY <1>6, <2>2
    <3>2. sum[k] = h[k] * place[L - k]
      BY <1>11, <2>2
    <3>. QED
      BY <3>1, <3>2
  <2>6. h[k + 1] = h[k] * Base + d
    BY <1>3, <2>2
  <2>. HIDE DEF p, d
  <2>7. h[k] * (Base * p) + d * p = (h[k] * Base + d) * p
    BY <2>3, Constants
  <2>. QED
    BY <2>4, <2>5, <2>6, <2>7 DEF p
<1>12. \A k \in Nat : k \in Q
  <2>. HIDE DEF Q
  <2>. QED  BY <1>10, <1>11, Induction
<1>13. sum[L] = h[L]
  <2>1. sum[L] = h[L] * place[L - L] /\ h[L] \in Nat
    BY <1>1, <1>3, <1>12
  <2>2. place[L - L] = 1
    BY <1>1, <1>6
  <2>. QED
    BY <2>1, <2>2
<1>14. h[L] \in Nat
  BY <1>1, <1>3
<1>. QED
  BY <1>2, <1>5, <1>13, <1>14

-----------------------------------------------------------------------------
(* What operator<< writes is read back. *)

LEMMA DivIs ==
    ASSUME NEW k \in Nat, k >= Base
    PROVE  /\ k \div Base \in 0..(k - 1) /\ k % Base \in 0..(Base - 1)
           /\ k = (k \div Base) * Base + (k % Base)
<1>1. PICK q \in Int, r \in 0..(Base - 1) :
         q = k \div Base /\ r = k % Base /\ k = Base * q + r
  BY Constants
<1>2. Base * q = q * Base /\ Base * q \in Int
  BY <1>1, Constants
<1>3. q >= 0
  <2>1. SUFFICES ASSUME q <= -1 PROVE FALSE
    BY <1>1
  <2>2. Base * q <= Base * (-1)
    BY <1>1, <2>1, Constants
  <2>. QED
    BY <1>1, <1>2, <2>2, Constants
<1>4. q < k
  <2>1. CASE q = 0
    BY <2>1, Constants
  <2>2. CASE q > 0
    <3>1. Base * q >= 2 * q
      BY <1>1, <2>2, Constants
    <3>. QED
      BY <1>1, <1>2, <2>2, <3>1
  <2>. QED
    BY <1>1, <1>3, <2>1, <2>2
<1>5. q \in 0..(k - 1) /\ r \in 0..(Base - 1) /\ k = q * Base + r
  BY <1>1, <1>2, <1>3, <1>4
<1>. QED
  BY <1>1, <1>5

LEMMA HornerEmpty == Horner(<<>>) = 0
<1>1. PICK h : IsHorner(h, <<>>, Len(<<>>)) /\ Horner(<<>>) = h[Len(<<>>)]
  BY HornerIs, <<>> \in Seq(Alphabet)
<1>2. \A k \in 0..Len(<<>>) :
         h[k] = IF k = 0 THEN 0 ELSE h[k - 1] * Base + Digit(<<>>[k])
  BY <1>1, Zenon DEF IsHorner
<1>3. Len(<<>>) = 0
  OBVIOUS
<1>. QED
  BY <1>1, <1>2, <1>3

LEMMA HornerAppend ==
    ASSUME NEW s \in Seq(Alphabet), AllDigits(s), NEW c \in Alphabet, IsDigit(c)
    PROVE  /\ AllDigits(Append(s, c))
           /\ Horner(Append(s, c)) = Horner(s) * Base + Digit(c)
<1>. DEFINE t == Append(s, c)
            L == Len(s)
<1>1. /\ t \in Seq(Alphabet) /\ Len(t) = L + 1 /\ L \in Nat
      /\ t[L + 1] = c /\ \A i \in 1..L : t[i] = s[i]
  OBVIOUS
<1>2. AllDigits(t)
  BY <1>1 DEF AllDigits
<1>3. PICK h : IsHorner(h, t, L + 1) /\ Horner(t) = h[L + 1]
  BY <1>1, HornerIs
<1>4. PICK g : IsHorner(g, s, L) /\ Horner(s) = g[L]
  BY HornerIs
<1>. HIDE DEF t
<1>5. /\ h[0] = 0
      /\ \A k \in 1..(L + 1) : h[k] = h[k - 1] * Base + Digit(t[k])
  BY <1>1, <1>2, <1>3, Unfold, L + 1 \in 0..(L + 1)
<1>6. /\ g[0] = 0
      /\ \A k \in 1..L : g[k] = g[k - 1] * Base + Digit(s[k])
  BY <1>1, <1>4, Unfold, L \in 0..L
<1>. DEFINE Q == {k \in Nat : k <= L => h[k] = g[k]}
<1>7. 0 \in Q
  BY <1>5, <1>6
<1>8. ASSUME NEW k \in Nat, k \in Q PROVE k + 1 \in Q
  <2>1. SUFFICES ASSUME k + 1 <= L PROVE h[k + 1] = g[k + 1]
    OBVIOUS
  <2>2. k + 1 \in 1..L /\ k + 1 \in 1..(L + 1) /\ (k + 1) - 1 = k /\ k <= L
    BY <1>1, <2>1
  <2>3. h[k + 1] = h[k] * Base + Digit(t[k + 1]) /\ g[k + 1] = g[k] * Base + Digit(s[k + 1])
    BY <1>5, <1>6, <2>2
  <2>4. h[k] = g[k] /\ t[k + 1] = s[k + 1]
    BY <1>1, <1>8, <2>2
  <2>. QED
    BY <2>3, <2>4
<1>9. \A k \in Nat : k \in Q
  <2>. HIDE DEF Q, L
  <2>. QED  BY <1>7, <1>8, Induction
<1>10. h[L] = g[L]
  BY <1>1, <1>9
<1>11. h[L + 1] = h[L] * Base + Digit(c)
  <2>1. L + 1 \in 1..(L + 1) /\ (L + 1) - 1 = L
    BY <1>1
  <2>. QED
    BY <1>1, <1>5, <2>1
<1>. QED
  BY <1>2, <1>3, <1>4, <1>10, <1>11 DEF t

IsDigits(f, S) ==
    f = [k \in S |-> IF k < Base THEN <<DigitChars[k + 1]>>
                     ELSE Append(f[k \div Base], DigitChars[(k % Base) + 1])]

LEMMA DigitsUpToExist == \A n \in Nat : \E f : IsDigits(f, 0..n)
<1>. DEFINE Q == {n \in Nat : \E f : IsDigits(f, 0..n)}
<1>1. 0 \in Q
  <2>. DEFINE f == [k \in 0..0 |-> <<DigitChars[k + 1]>>]
  <2>1. f = [k \in 0..0 |-> IF k < Base THEN <<DigitChars[k + 1]>>
                     ELSE Append(f[k \div Base], DigitChars[(k % Base) + 1])]
    BY Constants
  <2>2. \E f_1 : IsDigits(f_1, 0..0)
    BY <2>1, Zenon DEF IsDigits
  <2>. QED
    BY <2>2, Zenon
<1>2. ASSUME NEW n \in Nat, n \in Q PROVE n + 1 \in Q
  <2>1. PICK f : IsDigits(f, 0..n)
    BY <1>2, Zenon
  <2>. DEFINE g == [k \in 0..(n + 1) |->
                       IF k < Base THEN <<DigitChars[k + 1]>>
                       ELSE Append(f[k \div Base], DigitChars[(k % Base) + 1])]
  <2>2. \A k \in 0..n : f[k] = IF k < Base THEN <<DigitChars[k + 1]>>
                               ELSE Append(f[k \div Base], DigitChars[(k % Base) + 1])
    BY <2>1, Zenon DEF IsDigits
  <2>3. \A k \in 0..n : g[k] = f[k]
    BY <2>2
  <2>4. \A k \in 0..(n + 1) : ~(k < Base) => g[k \div Base] = f[k \div Base]
    <3>1. \A k \in 0..(n + 1) : ~(k < Base) => k \div Base \in 0..n
      BY DivIs, Constants
    <3>. HIDE DEF g
    <3>. QED  BY <2>3, <3>1
  <2>5. g = [k \in 0..(n + 1) |-> IF k < Base THEN <<DigitChars[k + 1]>>
                                  ELSE Append(g[k \div Base], DigitChars[(k % Base) + 1])]
    BY <2>4, Zenon
  <2>6. \E f_1 : IsDigits(f_1, 0..(n + 1))
    BY <2>5, Zenon DEF IsDigits
  <2>7. n + 1 \in Nat
    OBVIOUS
  <2>. QED
    BY <2>6, <2>7, Zenon
<1>. HIDE DEF Q
<1>3. \A n \in Nat : n \in Q
  BY <1>1, <1>2, Induction
<1>. QED
  BY <1>3 DEF Q

LEMMA DigitsAgree ==
    ASSUME NEW n \in Nat, NEW m \in Nat, NEW f, NEW g, IsDigits(f, 0..n), IsDigits(g, 0..m)
    PROVE  \A k \in Nat : k <= n /\ k <= m => f[k] = g[k]
<1>. DEFINE Q == {k \in Nat : k <= n /\ k <= m => f[k] = g[k]}
<1>1. \A k \in 0..n : f[k] = IF k < Base THEN <<DigitChars[k + 1]>>
                             ELSE Append(f[k \div Base], DigitChars[(k % Base) + 1])
  BY Zenon DEF IsDigits
<1>2. \A k \in 0..m : g[k] = IF k < Base THEN <<DigitChars[k + 1]>>
                             ELSE Append(g[k \div Base], DigitChars[(k % Base) + 1])
  BY Zenon DEF IsDigits
<1>3. ASSUME NEW k \in Nat, \A j \in 0..(k - 1) : j \in Q PROVE k \in Q
  <2>1. SUFFICES ASSUME k <= n, k <= m PROVE f[k] = g[k]
    OBVIOUS
  <2>4. k \in 0..n /\ k \in 0..m
    BY <2>1
  <2>2. CASE k < Base
    BY <1>1, <1>2, <2>4, <2>2, Zenon
  <2>3. CASE ~(k < Base)
    <3>0. k >= Base
      BY <2>3, Constants
    <3>1. k \div Base \in 0..(k - 1)
      BY <3>0, DivIs, Zenon
    <3>2. f[k \div Base] = g[k \div Base]
      BY <1>3, <2>1, <3>1
    <3>. QED
      BY <1>1, <1>2, <2>4, <2>3, <3>2, Zenon
  <2>. QED
    BY <2>2, <2>3
<1>4. \A k \in Nat : k \in Q
  <2>. HIDE DEF Q
  <2>. QED  BY <1>3, StrongInduction
<1>. QED
  BY <1>4

LEMMA DigitsExist == \E f : IsDigits(f, Nat)
<1>. DEFINE D(n) == CHOOSE f : IsDigits(f, 0..n)
            F == [k \in Nat |-> D(k)[k]]
<1>1. \A n \in Nat : IsDigits(D(n), 0..n)
  BY DigitsUpToExist, Zenon
<1>. HIDE DEF D
<1>2. ASSUME NEW k \in Nat
      PROVE  F[k] = IF k < Base THEN <<DigitChars[k + 1]>>
                    ELSE Append(F[k \div Base], DigitChars[(k % Base) + 1])
  <2>1. F[k] = IF k < Base THEN <<DigitChars[k + 1]>>
               ELSE Append(D(k)[k \div Base], DigitChars[(k % Base) + 1])
    <3>1. \A j \in 0..k : D(k)[j] = IF j < Base THEN <<DigitChars[j + 1]>>
                                    ELSE Append(D(k)[j \div Base], DigitChars[(j % Base) + 1])
      BY <1>1, Zenon DEF IsDigits
    <3>. QED
      BY <3>1
  <2>2. ASSUME ~(k < Base) PROVE D(k)[k \div Base] = F[k \div Base]
    <3>1. k \div Base \in 0..(k - 1)
      BY <2>2, DivIs, Constants
    <3>2. k \div Base \in Nat /\ k \div Base <= k
      BY <3>1
    <3>3. D(k)[k \div Base] = D(k \div Base)[k \div Base]
      BY <1>1, <3>2, DigitsAgree
    <3>. QED
      BY <3>2, <3>3
  <2>. HIDE DEF F
  <2>. QED
    BY <2>1, <2>2
<1>3. F = [k \in Nat |-> IF k < Base THEN <<DigitChars[k + 1]>>
                         ELSE Append(F[k \div Base], DigitChars[(k % Base) + 1])]
  <2>1. F = [k \in Nat |-> F[k]]
    OBVIOUS
  <2>. HIDE DEF F
  <2>. QED
    BY <1>2, <2>1, Zenon
<1>. QED
  BY <1>3, Zenon DEF IsDigits

LEMMA CharsAre ==
    ASSUME NEW n \in Nat
    PROVE  /\ Chars(n) \in Seq(Alphabet) /\ Len(Chars(n)) > 0 /\ AllDigits(Chars(n))
           /\ Horner(Chars(n)) = n
           /\ n > 0 => Chars(-n) = <<"-">> \o Chars(n)
<1>. DEFINE d == CHOOSE f : IsDigits(f, Nat)
            Good(s, k) == s \in Seq(Alphabet) /\ Len(s) > 0 /\ AllDigits(s) /\ Horner(s) = k
            Q == {k \in Nat : Good(d[k], k)}
<1>1. IsDigits(d, Nat)
  BY DigitsExist, Zenon
<1>2. \A k \in Int : Chars(k) = IF k < 0 THEN <<"-">> \o d[-k] ELSE d[k]
  BY Zenon DEF Chars, IsDigits
<1>. HIDE DEF d
<1>3. \A k \in Nat : d[k] = IF k < Base THEN <<DigitChars[k + 1]>>
                            ELSE Append(d[k \div Base], DigitChars[(k % Base) + 1])
  BY <1>1, Zenon DEF IsDigits
<1>4. \A i \in 1..Base : /\ DigitChars[i] \in Alphabet /\ IsDigit(DigitChars[i])
                         /\ Digit(DigitChars[i]) = i - 1
  BY DigitCharsAre, DigitOf
<1>5. ASSUME NEW k \in Nat, \A j \in 0..(k - 1) : j \in Q PROVE k \in Q
  <2>1. CASE k < Base
    <3>. DEFINE c == DigitChars[k + 1]
    <3>1. c \in Alphabet /\ IsDigit(c) /\ Digit(c) = k
      <4>1. k + 1 \in 1..Base
        BY <2>1, Constants
      <4>. QED
        BY <1>4, <4>1
    <3>2. d[k] = <<c>>
      BY <1>3, <2>1, Zenon
    <3>. HIDE DEF c
    <3>3. d[k] = Append(<<>>, c) /\ <<>> \in Seq(Alphabet) /\ AllDigits(<<>>)
      BY <3>1, <3>2 DEF AllDigits
    <3>4. AllDigits(d[k]) /\ Horner(d[k]) = Horner(<<>>) * Base + Digit(c)
      BY <3>1, <3>3, HornerAppend
    <3>5. Horner(d[k]) = k
      BY <3>1, <3>4, HornerEmpty, Constants
    <3>6. d[k] \in Seq(Alphabet) /\ Len(d[k]) > 0
      BY <3>1, <3>2
    <3>. QED
      BY <3>4, <3>5, <3>6
  <2>2. CASE ~(k < Base)
    <3>. DEFINE q == k \div Base
                r == k % Base
                c == DigitChars[r + 1]
    <3>1. q \in 0..(k - 1) /\ r \in 0..(Base - 1) /\ k = q * Base + r
      BY <2>2, DivIs, Constants
    <3>2. d[k] = Append(d[q], c)
      BY <1>3, <2>2, Zenon
    <3>. HIDE DEF q, r
    <3>3. c \in Alphabet /\ IsDigit(c) /\ Digit(c) = r
      <4>1. r + 1 \in 1..Base
        BY <3>1, Constants
      <4>. QED
        BY <1>4, <3>1, <4>1
    <3>4. d[q] \in Seq(Alphabet) /\ Len(d[q]) > 0 /\ AllDigits(d[q]) /\ Horner(d[q]) = q
      BY <1>5, <3>1
    <3>. HIDE DEF c
    <3>5. AllDigits(d[k]) /\ Horner(d[k]) = q * Base + r
      BY <3>2, <3>3, <3>4, HornerAppend
    <3>6. d[k] \in Seq(Alphabet) /\ Len(d[k]) > 0
      BY <3>2, <3>3, <3>4
    <3>. QED
      BY <3>1, <3>5, <3>6
  <2>. QED
    BY <2>1, <2>2
<1>6. \A k \in Nat : k \in Q
  <2>. HIDE DEF Q
  <2>. QED  BY <1>5, StrongInduction
<1>7. Good(d[n], n)
  BY <1>6
<1>8. Chars(n) = d[n]
  <2>1. n \in Int /\ ~(n < 0)
    OBVIOUS
  <2>. QED
    BY <1>2, <2>1, Zenon
<1>9. ASSUME n > 0 PROVE Chars(-n) = <<"-">> \o d[n]
  <2>1. -n \in Int /\ -n < 0 /\ -(-n) = n
    BY <1>9
  <2>. QED
    BY <1>2, <2>1
<1>. QED
  BY <1>7, <1>8, <1>9

-----------------------------------------------------------------------------
(* Signed numbers, and the flags. *)

\* A conversion to a signed type adds a multiple of the modulus, and keeps what fits.
LEMMA SignedIs ==
    ASSUME NEW x \in Int, NEW m \in Nat, m > 0
    PROVE  /\ Signed(x, m) \in Int
           /\ \E q \in Int : Signed(x, m) = x + m * q
           /\ -(m \div 2) <= x /\ x < m - (m \div 2) => Signed(x, m) = x
<1>1. PICK h \in Int : h = m \div 2
  OBVIOUS
<1>2. PICK q \in Int, r \in 0..(m - 1) : r = (x + h) % m /\ x + h = m * q + r
  OBVIOUS
<1>3. Signed(x, m) = r - h
  BY <1>1, <1>2 DEF Signed
<1>4. Signed(x, m) = x + m * (-q)
  <2>1. m * (-q) = -(m * q) /\ m * q \in Int
    OBVIOUS
  <2>. QED
    BY <1>2, <1>3, <2>1
<1>5. ASSUME -h <= x, x < m - h PROVE Signed(x, m) = x
  <2>1. x + h \in Nat /\ x + h < m
    BY <1>5
  <2>2. r = x + h
    BY <1>2, <2>1, SmallMod
  <2>. QED
    BY <1>3, <2>2
<1>6. Signed(x, m) \in Int /\ -q \in Int
  BY <1>3
<1>. QED
  BY <1>1, <1>4, <1>5, <1>6

LEMMA Widths ==
    /\ I <= U /\ I \div 2 \in Nat /\ U \div 2 \in Nat /\ I \div 2 <= U \div 2
    /\ I \div 2 = I - (I \div 2) /\ U \div 2 <= U - (U \div 2)
    /\ \E c \in Nat : U = I * c
    /\ kMaxWorkers \in 1..((I \div 2) - 1) /\ MaxNice \in 1..(I \div 2)
<1>1. PICK c \in Int : U = I * c
  BY Constants
<1>2. c >= 1
  <2>1. SUFFICES ASSUME c <= 0 PROVE FALSE
    BY <1>1
  <2>2. I * c <= 0
    BY <2>1, <1>1, Constants
  <2>. QED
    BY <1>1, <2>2, Constants
<1>3. I <= U
  <2>1. I * c >= I
    BY <1>2, <1>1, Constants
  <2>. QED
    BY <1>1, <2>1
<1>4. kMaxWorkers \in 1..((I \div 2) - 1) /\ MaxNice \in 1..(I \div 2)
  BY RecordsAssumption
<1>5. /\ I \div 2 \in Nat /\ U \div 2 \in Nat /\ I \div 2 <= U \div 2
      /\ I \div 2 = I - (I \div 2) /\ U \div 2 <= U - (U \div 2)
  BY <1>3, Constants
<1>. QED
  BY <1>1, <1>2, <1>3, <1>4, <1>5

\* An unsigned number is written and read back, and so is an int.
LEMMA ParseU ==
    ASSUME NEW n \in Nat, n < U
    PROVE  parse_u64(Chars(n)) = {n}
<1>1. /\ Chars(n) \in Seq(Alphabet) /\ Len(Chars(n)) > 0 /\ AllDigits(Chars(n))
      /\ Horner(Chars(n)) = n
  BY CharsAre
<1>2. Chars(n) # <<>>
  BY <1>1
<1>. QED
  BY <1>1, <1>2, ParseIsHorner

LEMMA ParseI ==
    ASSUME NEW n \in Int, -(I \div 2) <= n, n < I \div 2
    PROVE  {Signed(v, I) : v \in parse_i64(Chars(n))} = {n}
<1>1. Signed(n, I) = n /\ Signed(n, U) = n
  <2>1. -(I \div 2) <= n /\ n < I - (I \div 2) /\ -(U \div 2) <= n /\ n < U - (U \div 2)
    BY Widths
  <2>. QED
    BY <2>1, SignedIs, Constants
<1>2. CASE n >= 0
  <2>1. n \in Nat /\ n < U
    BY <1>2, Widths, Constants
  <2>2. Chars(n)[1] # "-"
    <3>1. IsDigit(Chars(n)[1])
      BY <2>1, CharsAre DEF AllDigits
    <3>. QED
      BY <3>1, DigitIs
  <2>3. parse_u64(Chars(n)) = {n}
    BY <2>1, ParseU
  <2>4. parse_i64(Chars(n)) = {n}
    BY <1>1, <2>2, <2>3 DEF parse_i64
  <2>. QED
    BY <1>1, <2>4
<1>3. CASE n < 0
  <2>. DEFINE m == -n
              s == Chars(m)
  <2>1. m \in Nat /\ m > 0 /\ m < U /\ -m = n
    BY <1>3, Widths, Constants
  <2>2. s \in Seq(Alphabet) /\ Chars(n) = <<"-">> \o s
    BY <2>1, CharsAre
  <2>3. parse_u64(s) = {m}
    BY <2>1, ParseU
  <2>. HIDE DEF m, s
  <2>4. Chars(n) # <<>> /\ Chars(n)[1] = "-" /\ Tail(Chars(n)) = s
    <3>1. <<"-">> \in Seq(Alphabet) /\ Len(<<"-">>) = 1 /\ <<"-">>[1] = "-"
      BY DEF Alphabet
    <3>2. /\ Len(<<"-">> \o s) = 1 + Len(s) /\ (<<"-">> \o s)[1] = "-"
          /\ <<"-">> \o s \in Seq(Alphabet)
      BY <2>2, <3>1
    <3>3. Tail(<<"-">> \o s) = s
      BY <2>2, <3>1
    <3>. QED
      BY <2>2, <3>2, <3>3
  <2>5. parse_i64(Chars(n)) = {Signed(-v, U) : v \in {m}}
    BY <2>3, <2>4 DEF parse_i64
  <2>6. parse_i64(Chars(n)) = {n}
    BY <1>1, <2>1, <2>5
  <2>. QED
    BY <1>1, <2>6
<1>. QED
  BY <1>2, <1>3

LEMMA IsNumberIs ==
    ASSUME NEW chars \in Seq(Alphabet)
    PROVE  /\ Magnitude(chars) \in Seq(Alphabet)
           /\ IsNumber(chars) <=> Magnitude(chars) # <<>> /\ AllDigits(Magnitude(chars))
<1>1. Magnitude(chars) \in Seq(Alphabet)
  BY DEF Magnitude, Negative
<1>. QED
  BY <1>1 DEF IsNumber, AllDigits, Range

\* An unsigned flag is refused or read exactly.
LEMMA NeedU ==
    ASSUME NEW chars \in Seq(Alphabet), chars # <<>>
    PROVE  /\ \A m \in need_u(chars) : /\ IsNumber(chars) /\ ~Negative(chars)
                                       /\ m = NumberOf(chars) /\ m \in 0..(U - 1)
           /\ need_u(chars) = {} =>
                 ~IsNumber(chars) \/ Negative(chars) \/ NumberOf(chars) >= U
<1>1. need_u(chars) = parse_u64(chars)
  BY DEF need_u
<1>2. CASE Negative(chars)
  <2>1. chars[1] = "-" /\ 1 \in 1..Len(chars)
    BY <1>2 DEF Negative
  <2>2. ~AllDigits(chars)
    BY <2>1, DigitIs DEF AllDigits
  <2>3. parse_u64(chars) = {}
    BY <2>2, ParseIsHorner
  <2>. QED
    BY <1>1, <1>2, <2>3
<1>3. CASE ~Negative(chars)
  <2>1. Magnitude(chars) = chars
    BY <1>3 DEF Magnitude
  <2>2. IsNumber(chars) <=> AllDigits(chars)
    BY <2>1, IsNumberIs
  <2>3. CASE AllDigits(chars)
    <3>1. NumberOf(chars) = Horner(chars) /\ Horner(chars) \in Nat
      BY <1>3, <2>1, <2>3, NumberIsHorner
    <3>2. parse_u64(chars) = IF Horner(chars) < U THEN {Horner(chars)} ELSE {}
      BY <2>3, ParseIsHorner
    <3>. QED
      BY <1>1, <1>3, <2>2, <2>3, <3>1, <3>2, Constants
  <2>4. CASE ~AllDigits(chars)
    <3>1. parse_u64(chars) = {}
      BY <2>4, ParseIsHorner
    <3>. QED
      BY <1>1, <2>2, <2>4, <3>1
  <2>. QED
    BY <2>3, <2>4
<1>. QED
  BY <1>2, <1>3

\* An int flag is read modulo 2^32.
LEMMA NeedI ==
    ASSUME NEW chars \in Seq(Alphabet), NEW fallback \in Int, NEW n \in need_i(chars, fallback)
    PROVE  n \in Int /\ TakenAs(chars, n, fallback)
<1>1. CASE chars = <<>>
  BY <1>1 DEF need_i, TakenAs
<1>2. CASE chars # <<>>
  <2>. DEFINE ds == Magnitude(chars)
              N  == NumberOf(chars)
  <2>1. PICK v \in parse_i64(chars) : n = Signed(v, I)
    BY <1>2 DEF need_i
  <2>2. ds \in Seq(Alphabet)
    BY IsNumberIs
  <2>3. PICK u \in parse_u64(ds) : v = IF Negative(chars) THEN Signed(-u, U) ELSE Signed(u, U)
    BY <2>1 DEF parse_i64, Magnitude, Negative
  <2>4. ds # <<>>
    BY <2>3 DEF parse_u64
  <2>5. AllDigits(ds) /\ u = Horner(ds)
    BY <2>2, <2>3, <2>4, ParseIsHorner
  <2>6. IsNumber(chars) /\ u \in Nat /\ N = IF Negative(chars) THEN -u ELSE u
    BY <2>2, <2>4, <2>5, IsNumberIs, NumberIsHorner
  <2>. HIDE DEF N
  <2>7. N \in Int /\ v = Signed(N, U)
    BY <2>3, <2>6
  <2>8. PICK a \in Int : v = N + U * a
    BY <2>7, SignedIs, Constants
  <2>9. v \in Int
    BY <2>7, SignedIs, Constants
  <2>10. n \in Int
    BY <2>1, <2>9, SignedIs, Constants
  <2>11. PICK b \in Int : n = v + I * b
    BY <2>1, <2>9, SignedIs, Constants
  <2>12. PICK c \in Nat : U = I * c
    BY Widths
  <2>13. n - N = I * (c * a + b)
    <3>1. U * a = I * (c * a)
      BY <2>12, Constants
    <3>2. I * (c * a + b) = I * (c * a) + I * b /\ c * a \in Int /\ I * (c * a) \in Int /\ I * b \in Int
      BY Constants
    <3>. DEFINE x == U * a
                y == I * b
                z == I * (c * a)
                w == I * (c * a + b)
    <3>3. x = z /\ w = z + y /\ z \in Int /\ y \in Int /\ v = N + x /\ n = v + y
      BY <2>8, <2>11, <3>1, <3>2
    <3>. HIDE DEF x, y, z, w
    <3>4. n - N = w
      BY <2>7, <3>3
    <3>. QED
      BY <3>4 DEF w
  <2>14. (I * (c * a + b)) % I = 0
    <3>1. c * a + b \in Int
      OBVIOUS
    <3>. QED
      BY <3>1, Constants
  <2>15. (n - N) % I = 0
    BY <2>13, <2>14
  <2>. QED
    BY <1>2, <2>6, <2>10, <2>15 DEF TakenAs, N
<1>. QED
  BY <1>1, <1>2

-----------------------------------------------------------------------------
(* Sequences and folds. *)

LEMMA SeqsEqual ==
    ASSUME NEW S, NEW s \in Seq(S), NEW t \in Seq(S), Len(s) = Len(t),
           \A i \in 1..Len(s) : s[i] = t[i]
    PROVE  s = t
OBVIOUS

LEMMA MaxIs ==
    ASSUME NEW k \in Nat, NEW s \in SUBSET (1..k), k \in s
    PROVE  Max(s) = k
<1>1. \A y \in s : k >= y
  OBVIOUS
<1>2. \A x \in s : x >= k => x = k
  OBVIOUS
<1>. QED
  BY <1>1, <1>2, Zenon DEF Max

\* One character, and one line, as text_to_meta takes them.
GetChar(lines, c) == IF c = "nl" THEN Append(lines, <<>>)
                     ELSE [lines EXCEPT ![Len(lines)] = Append(@, c)]
ReadLine(metas, line) == IF Skipped(line) THEN metas ELSE AssignLine(metas, Stripped(line))
ReadLines(metas, lines) ==
    FoldLeft(LAMBDA ms, line : IF Skipped(line) THEN ms ELSE AssignLine(ms, Stripped(line)),
             metas, lines)

FoldsLines(g, chars, S) ==
    g = [s \in SUBSET S |-> IF s = {} THEN <<<<>>>>
                            ELSE GetChar(g[s \ {Max(s)}], chars[Max(s)])]
FoldsRead(g, metas, lines, S) ==
    g = [s \in SUBSET S |-> IF s = {} THEN metas
                            ELSE ReadLine(g[s \ {Max(s)}], lines[Max(s)])]

LEMMA FoldsLinesExists ==
    ASSUME NEW chars
    PROVE  \A n \in Nat : \E g : FoldsLines(g, chars, 1..n)
<1>. DEFINE Q == {n \in Nat : \E g : FoldsLines(g, chars, 1..n)}
<1>1. 0 \in Q
  <2>. DEFINE g == [s \in SUBSET (1..0) |-> <<<<>>>>]
  <2>1. g = [s \in SUBSET (1..0) |-> IF s = {} THEN <<<<>>>>
                                     ELSE GetChar(g[s \ {Max(s)}], chars[Max(s)])]
    BY \A s \in SUBSET (1..0) : s = {}
  <2>2. \E g_1 : FoldsLines(g_1, chars, 1..0)
    BY <2>1, Zenon DEF FoldsLines
  <2>. QED
    BY <2>2, Zenon
<1>2. ASSUME NEW n \in Nat, n \in Q PROVE n + 1 \in Q
  <2>1. PICK f : FoldsLines(f, chars, 1..n)
    BY <1>2, Zenon
  <2>. DEFINE F(s) == IF s = {} THEN <<<<>>>> ELSE GetChar(f[s \ {Max(s)}], chars[Max(s)])
              g == [s \in SUBSET (1..(n + 1)) |-> F(s)]
  <2>2. \A s \in SUBSET (1..n) : f[s] = F(s)
    BY <2>1, Zenon DEF FoldsLines
  <2>3. \A s \in SUBSET (1..(n + 1)) : s \ {Max(s)} \in SUBSET (1..n)
    <3>. TAKE s \in SUBSET (1..(n + 1))
    <3>1. \A x \in s : x # n + 1 => x \in 1..n
      OBVIOUS
    <3>2. n + 1 \in s => Max(s) = n + 1
      BY MaxIs
    <3>. QED
      BY <3>1, <3>2, Zenon
  <2>. HIDE DEF F
  <2>4. \A s \in SUBSET (1..(n + 1)) : g[s \ {Max(s)}] = f[s \ {Max(s)}]
    <3>1. SUBSET (1..n) \subseteq SUBSET (1..(n + 1))
      OBVIOUS
    <3>. QED
      BY <2>2, <2>3, <3>1, Zenon
  <2>5. g = [s \in SUBSET (1..(n + 1)) |-> IF s = {} THEN <<<<>>>>
                                           ELSE GetChar(g[s \ {Max(s)}], chars[Max(s)])]
    BY <2>4, Zenon DEF F
  <2>6. \E g_1 : FoldsLines(g_1, chars, 1..(n + 1))
    BY <2>5, Zenon DEF FoldsLines
  <2>7. n + 1 \in Nat
    OBVIOUS
  <2>. QED
    BY <2>6, <2>7, Zenon
<1>. HIDE DEF Q
<1>3. \A n \in Nat : n \in Q
  BY <1>1, <1>2, Induction
<1>. QED
  BY <1>3 DEF Q

LEMMA FoldsReadExists ==
    ASSUME NEW metas, NEW lines
    PROVE  \A n \in Nat : \E g : FoldsRead(g, metas, lines, 1..n)
<1>. DEFINE Q == {n \in Nat : \E g : FoldsRead(g, metas, lines, 1..n)}
<1>1. 0 \in Q
  <2>. DEFINE g == [s \in SUBSET (1..0) |-> metas]
  <2>1. g = [s \in SUBSET (1..0) |-> IF s = {} THEN metas
                                     ELSE ReadLine(g[s \ {Max(s)}], lines[Max(s)])]
    BY \A s \in SUBSET (1..0) : s = {}
  <2>2. \E g_1 : FoldsRead(g_1, metas, lines, 1..0)
    BY <2>1, Zenon DEF FoldsRead
  <2>. QED
    BY <2>2, Zenon
<1>2. ASSUME NEW n \in Nat, n \in Q PROVE n + 1 \in Q
  <2>1. PICK f : FoldsRead(f, metas, lines, 1..n)
    BY <1>2, Zenon
  <2>. DEFINE F(s) == IF s = {} THEN metas ELSE ReadLine(f[s \ {Max(s)}], lines[Max(s)])
              g == [s \in SUBSET (1..(n + 1)) |-> F(s)]
  <2>2. \A s \in SUBSET (1..n) : f[s] = F(s)
    BY <2>1, Zenon DEF FoldsRead
  <2>3. \A s \in SUBSET (1..(n + 1)) : s \ {Max(s)} \in SUBSET (1..n)
    <3>. TAKE s \in SUBSET (1..(n + 1))
    <3>1. \A x \in s : x # n + 1 => x \in 1..n
      OBVIOUS
    <3>2. n + 1 \in s => Max(s) = n + 1
      BY MaxIs
    <3>. QED
      BY <3>1, <3>2, Zenon
  <2>. HIDE DEF F
  <2>4. \A s \in SUBSET (1..(n + 1)) : g[s \ {Max(s)}] = f[s \ {Max(s)}]
    <3>1. SUBSET (1..n) \subseteq SUBSET (1..(n + 1))
      OBVIOUS
    <3>. QED
      BY <2>2, <2>3, <3>1, Zenon
  <2>5. g = [s \in SUBSET (1..(n + 1)) |-> IF s = {} THEN metas
                                           ELSE ReadLine(g[s \ {Max(s)}], lines[Max(s)])]
    BY <2>4, Zenon DEF F
  <2>6. \E g_1 : FoldsRead(g_1, metas, lines, 1..(n + 1))
    BY <2>5, Zenon DEF FoldsRead
  <2>7. n + 1 \in Nat
    OBVIOUS
  <2>. QED
    BY <2>6, <2>7, Zenon
<1>. HIDE DEF Q
<1>3. \A n \in Nat : n \in Q
  BY <1>1, <1>2, Induction
<1>. QED
  BY <1>3 DEF Q

LEMMA UpTo ==
    ASSUME NEW n \in Nat, NEW k \in 1..n
    PROVE  (1..k) \ {k} = 1..(k - 1) /\ 1..k # {} /\ 1..k \in SUBSET (1..n)
<1>1. \A x : x \in (1..k) \ {k} <=> x \in 1..(k - 1)
  OBVIOUS
<1>2. k \in 1..k /\ \A x \in 1..k : x \in 1..n
  OBVIOUS
<1>. QED
  BY <1>1, <1>2, Zenon

\* The folds, one character or line after the other.
LEMMA LinesAre ==
    ASSUME NEW chars \in Seq(Alphabet)
    PROVE  \E f : /\ Lines(chars) = f[Len(chars)] /\ f[0] = <<<<>>>>
                  /\ \A k \in 1..Len(chars) : f[k] = GetChar(f[k - 1], chars[k])
<1>1. DOMAIN chars = 1..Len(chars) /\ Len(chars) \in Nat
  OBVIOUS
<1>2. PICK g : FoldsLines(g, chars, 1..Len(chars)) /\ Lines(chars) = g[1..Len(chars)]
  <2>1. \E g : FoldsLines(g, chars, 1..Len(chars))
    BY <1>1, FoldsLinesExists
  <2>2. Lines(chars) = (CHOOSE g : FoldsLines(g, chars, DOMAIN chars))[DOMAIN chars]
    BY Zenon DEF Lines, FoldLeft, MapThenFoldSet, FoldsLines, GetChar
  <2>. QED
    BY <1>1, <2>1, <2>2, Zenon
<1>. DEFINE f == [k \in 0..Len(chars) |-> g[1..k]]
<1>3. \A s \in SUBSET (1..Len(chars)) :
         g[s] = IF s = {} THEN <<<<>>>> ELSE GetChar(g[s \ {Max(s)}], chars[Max(s)])
  BY <1>2, Zenon DEF FoldsLines
<1>4. f[0] = <<<<>>>>
  <2>1. 1..0 = {} /\ f[0] = g[1..0]
    BY <1>1
  <2>. QED
    BY <1>3, <2>1
<1>5. ASSUME NEW k \in 1..Len(chars) PROVE f[k] = GetChar(f[k - 1], chars[k])
  <2>1. Max(1..k) = k
    BY MaxIs
  <2>2. (1..k) \ {k} = 1..(k - 1) /\ 1..k # {} /\ 1..k \in SUBSET (1..Len(chars))
    BY <1>1, UpTo
  <2>3. f[k] = g[1..k] /\ f[k - 1] = g[1..(k - 1)]
    <3>1. k \in 0..Len(chars) /\ k - 1 \in 0..Len(chars)
      BY <1>1
    <3>. QED
      BY <3>1
  <2>. QED
    BY <1>3, <2>1, <2>2, <2>3, Zenon
<1>6. Lines(chars) = f[Len(chars)]
  BY <1>1, <1>2
<1>. QED
  BY <1>4, <1>5, <1>6, Zenon

LEMMA ReadAre ==
    ASSUME NEW metas, NEW lines \in Seq(Seq(Alphabet))
    PROVE  \E f : /\ ReadLines(metas, lines) = f[Len(lines)] /\ f[0] = metas
                  /\ \A k \in 1..Len(lines) : f[k] = ReadLine(f[k - 1], lines[k])
<1>1. DOMAIN lines = 1..Len(lines) /\ Len(lines) \in Nat
  OBVIOUS
<1>2. PICK g : FoldsRead(g, metas, lines, 1..Len(lines)) /\ ReadLines(metas, lines) = g[1..Len(lines)]
  <2>1. \E g : FoldsRead(g, metas, lines, 1..Len(lines))
    BY <1>1, FoldsReadExists
  <2>2. ReadLines(metas, lines)
        = (CHOOSE g : FoldsRead(g, metas, lines, DOMAIN lines))[DOMAIN lines]
    BY Zenon DEF ReadLines, FoldLeft, MapThenFoldSet, FoldsRead, ReadLine
  <2>. QED
    BY <1>1, <2>1, <2>2, Zenon
<1>. DEFINE f == [k \in 0..Len(lines) |-> g[1..k]]
<1>3. \A s \in SUBSET (1..Len(lines)) :
         g[s] = IF s = {} THEN metas ELSE ReadLine(g[s \ {Max(s)}], lines[Max(s)])
  BY <1>2, Zenon DEF FoldsRead
<1>4. f[0] = metas
  <2>1. 1..0 = {} /\ f[0] = g[1..0]
    BY <1>1
  <2>. QED
    BY <1>3, <2>1
<1>5. ASSUME NEW k \in 1..Len(lines) PROVE f[k] = ReadLine(f[k - 1], lines[k])
  <2>1. Max(1..k) = k
    BY MaxIs
  <2>2. (1..k) \ {k} = 1..(k - 1) /\ 1..k # {} /\ 1..k \in SUBSET (1..Len(lines))
    BY <1>1, UpTo
  <2>3. f[k] = g[1..k] /\ f[k - 1] = g[1..(k - 1)]
    <3>1. k \in 0..Len(lines) /\ k - 1 \in 0..Len(lines)
      BY <1>1
    <3>. QED
      BY <3>1
  <2>. QED
    BY <1>3, <2>1, <2>2, <2>3, Zenon
<1>6. ReadLines(metas, lines) = f[Len(lines)]
  BY <1>1, <1>2
<1>. QED
  BY <1>4, <1>5, <1>6, Zenon

LEMMA ConsIs ==
    ASSUME NEW S, NEW a \in S, NEW s \in Seq(S)
    PROVE  /\ <<a>> \o s \in Seq(S) /\ Len(<<a>> \o s) = Len(s) + 1 /\ (<<a>> \o s)[1] = a
           /\ \A i \in 1..Len(s) : (<<a>> \o s)[i + 1] = s[i]
OBVIOUS

LEMMA AppendIs ==
    ASSUME NEW S, NEW s \in Seq(S), NEW x \in S
    PROVE  /\ Append(s, x) \in Seq(S) /\ Len(Append(s, x)) = Len(s) + 1
           /\ Append(s, x)[Len(s) + 1] = x /\ \A i \in 1..Len(s) : Append(s, x)[i] = s[i]
OBVIOUS

LEMMA SameFrom ==
    ASSUME NEW S, NEW a \in S, NEW s \in Seq(S), NEW t \in Seq(S), Len(t) = Len(s) + 1,
           t[1] = a, \A i \in 1..Len(s) : t[i + 1] = s[i]
    PROVE  t = <<a>> \o s
<1>. DEFINE u == <<a>> \o s
<1>1. u \in Seq(S) /\ Len(u) = Len(s) + 1 /\ u[1] = a /\ \A i \in 1..Len(s) : u[i + 1] = s[i]
  BY ConsIs
<1>. HIDE DEF u
<1>2. ASSUME NEW i \in 1..Len(t) PROVE t[i] = u[i]
  <2>1. CASE i = 1
    BY <1>1, <2>1
  <2>2. CASE i # 1
    <3>1. i - 1 \in 1..Len(s) /\ (i - 1) + 1 = i
      BY <2>2
    <3>. QED
      BY <1>1, <3>1
  <2>. QED
    BY <2>1, <2>2
<1>3. t = u
  BY <1>1, <1>2, SeqsEqual
<1>. QED
  BY <1>3 DEF u

LEMMA AppendUnder ==
    ASSUME NEW S, NEW a \in S, NEW s \in Seq(S), NEW x \in S
    PROVE  /\ Append(s, x) \in Seq(S) /\ Len(Append(s, x)) = Len(s) + 1
           /\ Append(<<a>> \o s, x) = <<a>> \o Append(s, x)
<1>. DEFINE al == <<a>> \o s
            sx == Append(s, x)
            t  == Append(al, x)
<1>1. /\ al \in Seq(S) /\ Len(al) = Len(s) + 1 /\ al[1] = a
      /\ \A i \in 1..Len(s) : al[i + 1] = s[i]
  BY ConsIs
<1>2. /\ sx \in Seq(S) /\ Len(sx) = Len(s) + 1 /\ sx[Len(s) + 1] = x
      /\ \A i \in 1..Len(s) : sx[i] = s[i]
  OBVIOUS
<1>. HIDE DEF al
<1>3. /\ t \in Seq(S) /\ Len(t) = Len(al) + 1 /\ t[Len(al) + 1] = x
      /\ \A i \in 1..Len(al) : t[i] = al[i]
  BY <1>1, AppendIs
<1>. HIDE DEF sx, t
<1>4. ASSUME NEW i \in 1..Len(sx) PROVE t[i + 1] = sx[i]
  <2>1. CASE i = Len(s) + 1
    BY <1>1, <1>2, <1>3, <2>1
  <2>2. CASE i # Len(s) + 1
    <3>1. i \in 1..Len(s) /\ i + 1 \in 1..Len(al)
      BY <1>1, <1>2, <2>2
    <3>. QED
      BY <1>1, <1>2, <1>3, <3>1
  <2>. QED
    BY <2>1, <2>2
<1>5. 1 \in 1..Len(al) /\ Len(t) = Len(sx) + 1 /\ t[1] = a
  <2>1. Len(s) \in Nat
    OBVIOUS
  <2>2. 1 \in 1..Len(al)
    BY <1>1, <2>1
  <2>. QED
    BY <1>1, <1>2, <1>3, <2>2
<1>6. t = <<a>> \o sx
  BY <1>2, <1>3, <1>4, <1>5, SameFrom
<1>. QED
  BY <1>2, <1>6 DEF sx, t, al

LEMMA ExceptUnder ==
    ASSUME NEW S, NEW a \in S, NEW s \in Seq(S), Len(s) > 0, NEW v \in S, NEW n, n = Len(s)
    PROVE  /\ [s EXCEPT ![n] = v] \in Seq(S) /\ Len([s EXCEPT ![n] = v]) = n
           /\ [(<<a>> \o s) EXCEPT ![n + 1] = v] = <<a>> \o [s EXCEPT ![n] = v]
<1>. DEFINE al == <<a>> \o s
            x == [s EXCEPT ![n] = v]
            t == [al EXCEPT ![n + 1] = v]
<1>1. /\ al \in Seq(S) /\ Len(al) = n + 1 /\ al[1] = a
      /\ \A i \in 1..n : al[i + 1] = s[i]
  BY ConsIs
<1>2. n \in Nat
  OBVIOUS
<1>3. /\ x \in Seq(S) /\ Len(x) = n /\ x[n] = v
      /\ \A i \in 1..n : i # n => x[i] = s[i]
  BY <1>2, n \in 1..Len(s)
<1>. HIDE DEF al
<1>4. /\ t \in Seq(S) /\ Len(t) = n + 1 /\ t[n + 1] = v
      /\ \A i \in 1..(n + 1) : i # n + 1 => t[i] = al[i]
  <2>1. n + 1 \in 1..Len(al)
    BY <1>1, <1>2
  <2>. QED
    BY <1>1, <2>1
<1>. HIDE DEF x, t
<1>5. ASSUME NEW i \in 1..n PROVE t[i + 1] = x[i]
  <2>1. CASE i = n
    BY <1>2, <1>3, <1>4, <2>1
  <2>2. CASE i # n
    <3>1. i + 1 \in 1..(n + 1) /\ i + 1 # n + 1
      BY <1>2, <2>2
    <3>. QED
      BY <1>1, <1>3, <1>4, <2>2, <3>1
  <2>. QED
    BY <2>1, <2>2
<1>6. t[1] = a
  <2>1. 1 \in 1..(n + 1) /\ 1 # n + 1
    BY <1>2
  <2>. QED
    BY <1>1, <1>4, <2>1
<1>7. t = <<a>> \o x
  <2>1. x \in Seq(S) /\ t \in Seq(S) /\ Len(t) = Len(x) + 1
    BY <1>3, <1>4
  <2>2. \A i \in 1..Len(x) : t[i + 1] = x[i]
    BY <1>3, <1>5
  <2>. QED
    BY <1>6, <2>1, <2>2, SameFrom
<1>. QED
  BY <1>3, <1>7 DEF x, t, al

\* What was read before the current line stays.
LEMMA GetCharUnder ==
    ASSUME NEW a \in Seq(Alphabet), NEW ls \in Seq(Seq(Alphabet)), Len(ls) > 0, NEW c \in Alphabet
    PROVE  /\ GetChar(ls, c) \in Seq(Seq(Alphabet)) /\ Len(GetChar(ls, c)) > 0
           /\ GetChar(<<a>> \o ls, c) = <<a>> \o GetChar(ls, c)
<1>. DEFINE n == Len(ls)
            al == <<a>> \o ls
<1>1. CASE c = "nl"
  <2>1. <<>> \in Seq(Alphabet)
    OBVIOUS
  <2>2. /\ Append(ls, <<>>) \in Seq(Seq(Alphabet)) /\ Len(Append(ls, <<>>)) = n + 1
        /\ Append(al, <<>>) = <<a>> \o Append(ls, <<>>)
    BY <2>1, AppendUnder
  <2>3. GetChar(ls, c) = Append(ls, <<>>) /\ GetChar(al, c) = Append(al, <<>>)
    BY <1>1 DEF GetChar
  <2>4. n + 1 > 0
    OBVIOUS
  <2>. HIDE DEF n
  <2>. QED
    BY <2>2, <2>3, <2>4
<1>2. CASE c # "nl"
  <2>. DEFINE v == Append(ls[n], c)
  <2>1. v \in Seq(Alphabet) /\ n \in Nat
    OBVIOUS
  <2>2. /\ al \in Seq(Seq(Alphabet)) /\ Len(al) = n + 1 /\ al[n + 1] = ls[n]
    BY ConsIs
  <2>. HIDE DEF v, al
  <2>3. GetChar(ls, c) = [ls EXCEPT ![n] = v]
    BY <1>2 DEF GetChar, v
  <2>4. GetChar(al, c) = [al EXCEPT ![n + 1] = v]
    BY <1>2, <2>2 DEF GetChar, v
  <2>5. /\ [ls EXCEPT ![n] = v] \in Seq(Seq(Alphabet)) /\ Len([ls EXCEPT ![n] = v]) = n
        /\ [al EXCEPT ![n + 1] = v] = <<a>> \o [ls EXCEPT ![n] = v]
    BY <2>1, ExceptUnder DEF al
  <2>. QED
    BY <2>3, <2>4, <2>5 DEF al
<1>. QED
  BY <1>1, <1>2

-----------------------------------------------------------------------------
(* A text, line by line. *)

LEMMA NlIsCharacter == "nl" \in Alphabet /\ "cr" \in Alphabet
BY DEF Alphabet

LEMMA LinesEmpty == Lines(<<>>) = <<<<>>>>
<1>1. <<>> \in Seq(Alphabet) /\ Len(<<>>) = 0
  OBVIOUS
<1>. QED
  BY <1>1, LinesAre

LEMMA LinesType ==
    ASSUME NEW chars \in Seq(Alphabet)
    PROVE  Lines(chars) \in Seq(Seq(Alphabet))
<1>1. PICK f : /\ Lines(chars) = f[Len(chars)] /\ f[0] = <<<<>>>>
               /\ \A k \in 1..Len(chars) : f[k] = GetChar(f[k - 1], chars[k])
  BY LinesAre
<1>. DEFINE Q == {k \in Nat : k <= Len(chars) => f[k] \in Seq(Seq(Alphabet)) /\ Len(f[k]) > 0}
<1>2. 0 \in Q
  <2>1. <<<<>>>> \in Seq(Seq(Alphabet)) /\ Len(<<<<>>>>) > 0
    OBVIOUS
  <2>2. f[0] \in Seq(Seq(Alphabet)) /\ Len(f[0]) > 0
    BY <1>1, <2>1, Zenon
  <2>. QED
    BY <2>2
<1>3. ASSUME NEW k \in Nat, k \in Q PROVE k + 1 \in Q
  <2>1. SUFFICES ASSUME k + 1 <= Len(chars)
                 PROVE  f[k + 1] \in Seq(Seq(Alphabet)) /\ Len(f[k + 1]) > 0
    OBVIOUS
  <2>2. k + 1 \in 1..Len(chars) /\ (k + 1) - 1 = k /\ k <= Len(chars)
    BY <2>1
  <2>3. f[k + 1] = GetChar(f[k], chars[k + 1]) /\ chars[k + 1] \in Alphabet
    BY <1>1, <2>2
  <2>4. f[k] \in Seq(Seq(Alphabet)) /\ Len(f[k]) > 0
    BY <1>3, <2>2
  <2>5. <<>> \in Seq(Alphabet)
    OBVIOUS
  <2>. QED
    BY <2>3, <2>4, <2>5, GetCharUnder
<1>4. \A k \in Nat : k \in Q
  <2>. HIDE DEF Q
  <2>. QED  BY <1>2, <1>3, Induction
<1>5. Len(chars) \in Nat
  OBVIOUS
<1>. QED
  BY <1>1, <1>4, <1>5

\* getline: what precedes the first newline is the first line.
LEMMA LinesOfLine ==
    ASSUME NEW a \in Seq(Alphabet), \A i \in 1..Len(a) : a[i] # "nl", NEW b \in Seq(Alphabet)
    PROVE  /\ a \o <<"nl">> \o b \in Seq(Alphabet)
           /\ Lines(a \o <<"nl">> \o b) = <<a>> \o Lines(b)
<1>. DEFINE t == a \o <<"nl">> \o b
            n == Len(a)
            m == Len(b)
<1>1. /\ n \in Nat /\ m \in Nat
      /\ t \in Seq(Alphabet) /\ Len(t) = n + 1 + m
      /\ \A i \in 1..n : t[i] = a[i]
      /\ t[n + 1] = "nl"
      /\ \A i \in 1..m : t[n + 1 + i] = b[i]
  BY NlIsCharacter
<1>2. PICK f : /\ Lines(t) = f[Len(t)] /\ f[0] = <<<<>>>>
               /\ \A k \in 1..Len(t) : f[k] = GetChar(f[k - 1], t[k])
  BY <1>1, LinesAre
<1>3. PICK g : /\ Lines(b) = g[m] /\ g[0] = <<<<>>>>
               /\ \A k \in 1..m : g[k] = GetChar(g[k - 1], b[k])
  BY LinesAre
<1>. HIDE DEF t, n, m
<1>. DEFINE Q == {k \in Nat : k <= n => f[k] = <<SubSeq(a, 1, k)>>}
<1>4. 0 \in Q
  <2>1. SubSeq(a, 1, 0) = <<>>
    OBVIOUS
  <2>. QED
    BY <1>2, <2>1
<1>5. ASSUME NEW k \in Nat, k \in Q PROVE k + 1 \in Q
  <2>1. SUFFICES ASSUME k + 1 <= n PROVE f[k + 1] = <<SubSeq(a, 1, k + 1)>>
    OBVIOUS
  <2>. DEFINE s == SubSeq(a, 1, k)
              c == a[k + 1]
  <2>2. k + 1 \in 1..n /\ k + 1 \in 1..Len(t) /\ (k + 1) - 1 = k /\ k <= n /\ k \in 0..n
    BY <1>1, <2>1
  <2>3. c # "nl" /\ c \in Alphabet /\ t[k + 1] = c
    BY <1>1, <2>2 DEF n
  <2>4. s \in Seq(Alphabet) /\ Append(s, c) = SubSeq(a, 1, k + 1)
    BY <2>2 DEF n
  <2>5. f[k + 1] = GetChar(<<s>>, c)
    BY <1>2, <1>5, <2>2, <2>3
  <2>. HIDE DEF s, c
  <2>6. GetChar(<<s>>, c) = <<Append(s, c)>>
    BY <2>3, <2>4 DEF GetChar
  <2>. QED
    BY <2>4, <2>5, <2>6
<1>6. \A k \in Nat : k \in Q
  <2>. HIDE DEF Q
  <2>. QED  BY <1>4, <1>5, Induction
<1>7. f[n] = <<a>>
  <2>1. SubSeq(a, 1, n) = a
    BY DEF n
  <2>. QED
    BY <1>1, <1>6, <2>1
<1>8. f[n + 1] = <<a>> \o <<<<>>>>
  <2>1. n + 1 \in 1..Len(t) /\ (n + 1) - 1 = n
    BY <1>1
  <2>2. f[n + 1] = GetChar(<<a>>, "nl")
    BY <1>1, <1>2, <1>7, <2>1
  <2>. QED
    BY <2>2 DEF GetChar
<1>. DEFINE R == {k \in Nat : k <= m => /\ f[n + 1 + k] = <<a>> \o g[k]
                                        /\ g[k] \in Seq(Seq(Alphabet)) /\ Len(g[k]) > 0}
<1>9. 0 \in R
  <2>1. <<<<>>>> \in Seq(Seq(Alphabet)) /\ Len(<<<<>>>>) > 0
    OBVIOUS
  <2>2. n + 1 + 0 = n + 1
    BY <1>1
  <2>3. g[0] \in Seq(Seq(Alphabet)) /\ Len(g[0]) > 0
    BY <1>3, <2>1, Zenon
  <2>4. f[n + 1 + 0] = <<a>> \o g[0]
    BY <1>3, <1>8, <2>2, Zenon
  <2>. QED
    BY <2>3, <2>4
<1>10. ASSUME NEW k \in Nat, k \in R PROVE k + 1 \in R
  <2>1. SUFFICES ASSUME k + 1 <= m
                 PROVE  /\ f[n + 1 + (k + 1)] = <<a>> \o g[k + 1]
                        /\ g[k + 1] \in Seq(Seq(Alphabet)) /\ Len(g[k + 1]) > 0
    OBVIOUS
  <2>2. /\ k + 1 \in 1..m /\ (k + 1) - 1 = k /\ k <= m
        /\ n + 1 + (k + 1) \in 1..Len(t) /\ (n + 1 + (k + 1)) - 1 = n + 1 + k
    BY <1>1, <2>1
  <2>. DEFINE c == b[k + 1]
  <2>3. c \in Alphabet /\ t[n + 1 + (k + 1)] = c
    BY <1>1, <2>2 DEF m
  <2>4. f[n + 1 + k] = <<a>> \o g[k] /\ g[k] \in Seq(Seq(Alphabet)) /\ Len(g[k]) > 0
    BY <1>10, <2>2
  <2>5. f[n + 1 + (k + 1)] = GetChar(<<a>> \o g[k], c) /\ g[k + 1] = GetChar(g[k], c)
    BY <1>2, <1>3, <2>2, <2>3, <2>4
  <2>. HIDE DEF c
  <2>6. c \in Alphabet
    BY <2>3
  <2>7. /\ GetChar(g[k], c) \in Seq(Seq(Alphabet)) /\ Len(GetChar(g[k], c)) > 0
        /\ GetChar(<<a>> \o g[k], c) = <<a>> \o GetChar(g[k], c)
    <3>1. \A ls \in Seq(Seq(Alphabet)) : \A x \in Alphabet : Len(ls) > 0 =>
              /\ GetChar(ls, x) \in Seq(Seq(Alphabet)) /\ Len(GetChar(ls, x)) > 0
              /\ GetChar(<<a>> \o ls, x) = <<a>> \o GetChar(ls, x)
      BY GetCharUnder
    <3>. QED
      BY <2>4, <2>6, <3>1, Zenon
  <2>. QED
    BY <2>5, <2>7, Zenon
<1>11. \A k \in Nat : k \in R
  <2>. HIDE DEF R
  <2>. QED  BY <1>9, <1>10, Induction
<1>12. f[n + 1 + m] = <<a>> \o g[m]
  <2>1. m \in Nat /\ m <= m
    BY <1>1
  <2>2. m \in R
    BY <1>11, <2>1, Zenon
  <2>. QED
    BY <2>1, <2>2, Zenon
<1>. QED
  BY <1>1, <1>2, <1>3, <1>12 DEF t

LEMMA ReadNone ==
    ASSUME NEW metas
    PROVE  ReadLines(metas, <<>>) = metas
<1>1. <<>> \in Seq(Seq(Alphabet)) /\ Len(<<>>) = 0
  OBVIOUS
<1>2. PICK f : ReadLines(metas, <<>>) = f[Len(<<>>)] /\ f[0] = metas
  <2>1. \A l \in Seq(Seq(Alphabet)) :
           \E f : /\ ReadLines(metas, l) = f[Len(l)] /\ f[0] = metas
                  /\ \A k \in 1..Len(l) : f[k] = ReadLine(f[k - 1], l[k])
    BY ReadAre
  <2>. QED
    BY ONLY <1>1, <2>1, Zenon
<1>. QED
  BY <1>1, <1>2, Zenon

LEMMA ReadFirst ==
    ASSUME NEW metas, NEW a \in Seq(Alphabet), NEW ls \in Seq(Seq(Alphabet))
    PROVE  ReadLines(metas, <<a>> \o ls) = ReadLines(ReadLine(metas, a), ls)
<1>. DEFINE t == <<a>> \o ls
            n == Len(ls)
<1>1. /\ n \in Nat /\ t \in Seq(Seq(Alphabet)) /\ Len(t) = n + 1 /\ t[1] = a
      /\ \A i \in 1..n : t[i + 1] = ls[i]
  BY ConsIs
<1>. HIDE DEF t
<1>2. PICK f : /\ ReadLines(metas, t) = f[Len(t)] /\ f[0] = metas
               /\ \A k \in 1..Len(t) : f[k] = ReadLine(f[k - 1], t[k])
  <2>1. t \in Seq(Seq(Alphabet))
    BY <1>1
  <2>. HIDE DEF n
  <2>2. \A l \in Seq(Seq(Alphabet)) :
           \E f : /\ ReadLines(metas, l) = f[Len(l)] /\ f[0] = metas
                  /\ \A k \in 1..Len(l) : f[k] = ReadLine(f[k - 1], l[k])
    BY ReadAre
  <2>. QED
    BY ONLY <2>1, <2>2, Zenon
<1>3. PICK g : /\ ReadLines(ReadLine(metas, a), ls) = g[n] /\ g[0] = ReadLine(metas, a)
               /\ \A k \in 1..n : g[k] = ReadLine(g[k - 1], ls[k])
  BY ReadAre
<1>. HIDE DEF n
<1>. DEFINE Q == {k \in Nat : k <= n => f[k + 1] = g[k]}
<1>4. 0 \in Q
  <2>1. 1 \in 1..Len(t) /\ 1 - 1 = 0 /\ 0 + 1 = 1
    BY <1>1
  <2>2. f[1] = ReadLine(metas, a)
    BY <1>1, <1>2, <2>1
  <2>. QED
    BY <1>3, <2>1, <2>2
<1>5. ASSUME NEW k \in Nat, k \in Q PROVE k + 1 \in Q
  <2>1. SUFFICES ASSUME k + 1 <= n PROVE f[(k + 1) + 1] = g[k + 1]
    OBVIOUS
  <2>2. /\ k + 1 \in 1..n /\ (k + 1) - 1 = k /\ k <= n
        /\ (k + 1) + 1 \in 1..Len(t) /\ ((k + 1) + 1) - 1 = k + 1
    BY <1>1, <2>1
  <2>3. f[(k + 1) + 1] = ReadLine(f[k + 1], ls[k + 1])
    BY <1>1, <1>2, <2>2
  <2>4. g[k + 1] = ReadLine(g[k], ls[k + 1]) /\ f[k + 1] = g[k]
    BY <1>3, <1>5, <2>2
  <2>. QED
    BY <2>3, <2>4
<1>6. \A k \in Nat : k \in Q
  <2>. HIDE DEF Q
  <2>. QED  BY <1>4, <1>5, Induction
<1>7. f[n + 1] = g[n]
  BY <1>1, <1>6
<1>. QED
  BY <1>1, <1>2, <1>3, <1>7 DEF t

\* text_to_meta from any text on.
ReadText(metas, chars) == ReadLines(metas, Lines(chars))

LEMMA ReadTextIs ==
    \A chars : text_to_meta(chars)
                  = {m \in ReadText({Fresh}, chars) : m.op # <<>> /\ m.state # <<>>}
BY Zenon DEF text_to_meta, ReadText, ReadLines

LEMMA ReadTextEmpty ==
    ASSUME NEW metas
    PROVE  ReadText(metas, <<>>) = metas
<1>1. <<<<>>>> = <<<<>>>> \o <<>> /\ <<>> \in Seq(Alphabet) /\ <<>> \in Seq(Seq(Alphabet))
  OBVIOUS
<1>2. ReadText(metas, <<>>) = ReadLines(ReadLine(metas, <<>>), <<>>)
  <2>1. ReadLines(metas, <<<<>>>> \o <<>>) = ReadLines(ReadLine(metas, <<>>), <<>>)
    <3>1. \A a \in Seq(Alphabet) : \A ls \in Seq(Seq(Alphabet)) :
              ReadLines(metas, <<a>> \o ls) = ReadLines(ReadLine(metas, a), ls)
      BY ReadFirst
    <3>. QED
      BY <1>1, <3>1, Zenon
  <2>. QED
    BY <1>1, <2>1, LinesEmpty, Zenon DEF ReadText
<1>3. ReadLine(metas, <<>>) = metas
  BY DEF ReadLine, Skipped
<1>. QED
  BY <1>2, <1>3, ReadNone

LEMMA ReadTextLine ==
    ASSUME NEW metas, NEW a \in Seq(Alphabet), \A i \in 1..Len(a) : a[i] # "nl",
           NEW b \in Seq(Alphabet)
    PROVE  ReadText(metas, a \o <<"nl">> \o b) = ReadText(ReadLine(metas, a), b)
<1>1. Lines(b) \in Seq(Seq(Alphabet))
  BY LinesType
<1>2. Lines(a \o <<"nl">> \o b) = <<a>> \o Lines(b)
  BY LinesOfLine
<1>3. ReadLines(metas, <<a>> \o Lines(b)) = ReadLines(ReadLine(metas, a), Lines(b))
  BY <1>1, ReadFirst
<1>. QED
  BY <1>2, <1>3 DEF ReadText

-----------------------------------------------------------------------------
(* One line of a record. *)

LEMMA OneIs ==
    ASSUME NEW S, NEW s \in Seq(S), Len(s) = 1
    PROVE  s = <<s[1]>>
OBVIOUS

LEMMA FrontIs ==
    ASSUME NEW S, NEW s \in Seq(S), s # <<>>
    PROVE  /\ Front(s) \in Seq(S) /\ Len(Front(s)) = Len(s) - 1
           /\ \A i \in 1..(Len(s) - 1) : Front(s)[i] = s[i]
<1>. DEFINE n == Len(s) - 1
<1>1. n \in 0..Len(s)
  OBVIOUS
<1>. HIDE DEF n
<1>2. /\ SubSeq(s, 1, n) \in Seq(S) /\ Len(SubSeq(s, 1, n)) = n
      /\ \A i \in 1..n : SubSeq(s, 1, n)[i] = s[i]
  BY <1>1, PrefixIs
<1>. QED
  BY <1>2 DEF Front, n

Drop(value) == IF Last(value) = "cr" THEN Front(value) ELSE value

LEMMA KeyedIs ==
    ASSUME NEW key \in Alphabet, NEW v \in Seq(Alphabet)
    PROVE  /\ <<key, "=">> \o v \in Seq(Alphabet) /\ Len(<<key, "=">> \o v) = Len(v) + 2
           /\ (<<key, "=">> \o v)[1] = key /\ (<<key, "=">> \o v)[2] = "="
           /\ \A i \in 1..Len(v) : (<<key, "=">> \o v)[i + 2] = v[i]
<1>1. <<key, "=">> \in Seq(Alphabet) /\ Len(<<key, "=">>) = 2
  BY DEF Alphabet
<1>2. <<key, "=">>[1] = key /\ <<key, "=">>[2] = "="
  OBVIOUS
<1>. QED
  BY <1>1, <1>2

\* A line is cut at its first '='.
LEMMA AssignKeyed ==
    ASSUME NEW m, NEW key \in Alphabet, key # "=", NEW v \in Seq(Alphabet)
    PROVE  AssignLine({m}, <<key, "=">> \o v) = assign_meta_field(m, <<key>>, v)
<1>. DEFINE line == <<key, "=">> \o v
            eqs  == {i \in DOMAIN line : line[i] = "="}
            eq   == CHOOSE i \in eqs : \A k \in eqs : i <= k
<1>1. /\ line \in Seq(Alphabet) /\ Len(line) = Len(v) + 2 /\ line[1] = key /\ line[2] = "="
      /\ \A i \in 1..Len(v) : line[i + 2] = v[i]
  BY KeyedIs
<1>. HIDE DEF line
<1>2. 2 \in eqs /\ \A k \in eqs : 2 <= k
  BY <1>1
<1>3. eq = 2
  <2>1. eqs \subseteq Int
    BY <1>1
  <2>2. \A i \in eqs : (\A k \in eqs : i <= k) => i = 2
    BY <1>2, <2>1
  <2>. HIDE DEF eqs
  <2>. QED
    BY <1>2, <2>2, Zenon
<1>. HIDE DEF eq
<1>4. SubSeq(line, 1, 1) = <<key>>
  <2>1. 1 \in 0..Len(line)
    BY <1>1
  <2>2. /\ SubSeq(line, 1, 1) \in Seq(Alphabet) /\ Len(SubSeq(line, 1, 1)) = 1
        /\ \A i \in 1..1 : SubSeq(line, 1, 1)[i] = line[i]
    BY <1>1, <2>1, PrefixIs
  <2>3. SubSeq(line, 1, 1)[1] = key
    BY <1>1, <2>2
  <2>4. SubSeq(line, 1, 1) = <<SubSeq(line, 1, 1)[1]>>
    BY <2>2, OneIs
  <2>. QED
    BY <2>3, <2>4, Zenon
<1>5. SubSeq(line, 3, Len(line)) = v
  <2>. DEFINE w == SubSeq(line, 3, Len(line))
  <2>1. /\ w \in Seq(Alphabet) /\ Len(w) = Len(v)
        /\ \A i \in 1..Len(v) : w[i] = line[i + 2]
    BY <1>1
  <2>. HIDE DEF w
  <2>2. w = v
    BY <1>1, <2>1, SeqsEqual
  <2>. QED
    BY <2>2 DEF w
<1>6. AssignLine({m}, line)
      = UNION {assign_meta_field(x, SubSeq(line, 1, eq - 1), SubSeq(line, eq + 1, Len(line)))
               : x \in {m}}
  <2>1. eqs # {}
    BY <1>2
  <2>. QED
    BY <2>1, Zenon DEF AssignLine, eq
<1>7. eq - 1 = 1 /\ eq + 1 = 3
  BY <1>3
<1>8. AssignLine({m}, line) = UNION {assign_meta_field(x, <<key>>, v) : x \in {m}}
  BY <1>4, <1>5, <1>6, <1>7, Zenon
<1>9. UNION {assign_meta_field(x, <<key>>, v) : x \in {m}} = assign_meta_field(m, <<key>>, v)
  OBVIOUS
<1>. QED
  BY <1>8, <1>9 DEF line

LEMMA ReadKeyed ==
    ASSUME NEW m, NEW key \in Alphabet, key \notin {"=", "#"}, NEW v \in Seq(Alphabet), v # <<>>
    PROVE  ReadLine({m}, <<key, "=">> \o v) = assign_meta_field(m, <<key>>, Drop(v))
<1>. DEFINE line == <<key, "=">> \o v
<1>1. /\ line \in Seq(Alphabet) /\ Len(line) = Len(v) + 2 /\ line[1] = key /\ line[2] = "="
      /\ \A i \in 1..Len(v) : line[i + 2] = v[i]
  BY KeyedIs
<1>2. Len(v) \in Nat /\ Len(v) > 0
  OBVIOUS
<1>3. Front(v) \in Seq(Alphabet) /\ Len(Front(v)) = Len(v) - 1
      /\ \A i \in 1..(Len(v) - 1) : Front(v)[i] = v[i]
  BY FrontIs
<1>4. Last(line) = Last(v)
  BY <1>1, <1>2 DEF Last
<1>5. Front(line) = <<key, "=">> \o Front(v)
  <2>. DEFINE x == Front(line)
              y == <<key, "=">> \o Front(v)
  <2>. HIDE DEF line
  <2>1. /\ x \in Seq(Alphabet) /\ Len(x) = Len(v) + 1
        /\ \A i \in 1..(Len(v) + 1) : x[i] = line[i]
    BY <1>1, <1>2 DEF Front
  <2>2. /\ y \in Seq(Alphabet) /\ Len(y) = Len(Front(v)) + 2 /\ y[1] = key /\ y[2] = "="
        /\ \A i \in 1..Len(Front(v)) : y[i + 2] = Front(v)[i]
    BY <1>3, KeyedIs
  <2>. HIDE DEF x, y
  <2>3. ASSUME NEW i \in 1..(Len(v) + 1) PROVE x[i] = y[i]
    <3>1. CASE i \in {1, 2}
      BY <1>1, <2>1, <2>2, <3>1
    <3>2. CASE i \notin {1, 2}
      <4>1. i - 2 \in 1..(Len(v) - 1) /\ (i - 2) + 2 = i /\ i - 2 \in 1..Len(v)
        BY <1>2, <3>2
      <4>2. x[i] = v[i - 2]
        BY <1>1, <2>1, <4>1
      <4>3. y[i] = v[i - 2]
        BY <1>3, <2>2, <4>1
      <4>. QED
        BY <4>2, <4>3
    <3>. QED
      BY <3>1, <3>2
  <2>4. Len(x) = Len(y)
    BY <1>2, <1>3, <2>1, <2>2
  <2>5. x = y
    BY <2>1, <2>2, <2>3, <2>4, SeqsEqual
  <2>. QED
    BY <2>5 DEF x, y
<1>6. ~Skipped(line)
  BY <1>1, <1>2 DEF Skipped
<1>7. Stripped(line) = <<key, "=">> \o Drop(v) /\ Drop(v) \in Seq(Alphabet)
  BY <1>3, <1>4, <1>5 DEF Stripped, Drop
<1>8. ReadLine({m}, line) = AssignLine({m}, <<key, "=">> \o Drop(v))
  BY <1>6, <1>7, Zenon DEF ReadLine
<1>9. AssignLine({m}, <<key, "=">> \o Drop(v)) = assign_meta_field(m, <<key>>, Drop(v))
  BY <1>7, AssignKeyed
<1>. QED
  BY <1>8, <1>9, Zenon

\* A line without '=' spoils the whole record.
LEMMA ReadKeyless ==
    ASSUME NEW metas, NEW a \in Seq(Alphabet), a # <<>>, a[1] # "#", \A i \in 1..Len(a) : a[i] # "="
    PROVE  ReadLine(metas, a) = {}
<1>1. ~Skipped(a)
  BY DEF Skipped
<1>. DEFINE b == Stripped(a)
<1>2. b \in Seq(Alphabet) /\ \A i \in 1..Len(b) : b[i] # "="
  <2>1. /\ Front(a) \in Seq(Alphabet) /\ Len(Front(a)) = Len(a) - 1
        /\ \A i \in 1..(Len(a) - 1) : Front(a)[i] = a[i]
    BY FrontIs
  <2>. QED
    BY <2>1 DEF Stripped
<1>. HIDE DEF b
<1>3. {i \in DOMAIN b : b[i] = "="} = {}
  BY <1>2
<1>4. AssignLine(metas, b) = {}
  BY <1>3, Zenon DEF AssignLine
<1>. QED
  BY <1>1, <1>4 DEF ReadLine, b

LEMMA ReadTextNothing ==
    ASSUME NEW b \in Seq(Alphabet)
    PROVE  ReadText({}, b) = {}
<1>1. \A line : AssignLine({}, line) = {}
  BY DEF AssignLine
<1>2. \A line : ReadLine({}, line) = {}
  BY <1>1 DEF ReadLine
<1>. DEFINE ls == Lines(b)
<1>3. ls \in Seq(Seq(Alphabet))
  BY LinesType
<1>. HIDE DEF ls
<1>4. PICK f : /\ ReadLines({}, ls) = f[Len(ls)] /\ f[0] = {}
               /\ \A k \in 1..Len(ls) : f[k] = ReadLine(f[k - 1], ls[k])
  <2>1. \A l \in Seq(Seq(Alphabet)) :
           \E f : /\ ReadLines({}, l) = f[Len(l)] /\ f[0] = {}
                  /\ \A k \in 1..Len(l) : f[k] = ReadLine(f[k - 1], l[k])
    BY ReadAre
  <2>. QED
    BY ONLY <1>3, <2>1, Zenon
<1>. DEFINE Q == {k \in Nat : k <= Len(ls) => f[k] = {}}
<1>5. 0 \in Q
  BY <1>4
<1>6. ASSUME NEW k \in Nat, k \in Q PROVE k + 1 \in Q
  <2>1. SUFFICES ASSUME k + 1 <= Len(ls) PROVE f[k + 1] = {}
    OBVIOUS
  <2>2. k + 1 \in 1..Len(ls) /\ (k + 1) - 1 = k /\ k <= Len(ls)
    BY <1>3, <2>1
  <2>3. f[k + 1] = ReadLine({}, ls[k + 1])
    BY <1>4, <1>6, <2>2
  <2>. QED
    BY <1>2, <2>3
<1>7. \A k \in Nat : k \in Q
  <2>. HIDE DEF Q
  <2>. QED  BY <1>5, <1>6, Induction
<1>8. f[Len(ls)] = {}
  BY <1>3, <1>7
<1>. QED
  BY <1>4, <1>8 DEF ReadText, ls

-----------------------------------------------------------------------------
(* The text of a record, line by line, for either way to end a line. *)

Field(key, value, end) == <<key, "=">> \o value \o end \o <<"nl">>

NoNewline(s) == \A i \in 1..Len(s) : s[i] # "nl"

LEMMA ConcatIs ==
    ASSUME NEW S, NEW s \in Seq(S), NEW t \in Seq(S)
    PROVE  /\ s \o t \in Seq(S) /\ Len(s \o t) = Len(s) + Len(t)
           /\ \A i \in 1..Len(s) : (s \o t)[i] = s[i]
           /\ \A i \in 1..Len(t) : (s \o t)[Len(s) + i] = t[i]
OBVIOUS

LEMMA Assoc ==
    ASSUME NEW S, NEW s \in Seq(S), NEW t \in Seq(S), NEW u \in Seq(S)
    PROVE  (s \o t) \o u = s \o (t \o u)
BY ConcatAssociative

LEMMA NoNewlineConcat ==
    ASSUME NEW s \in Seq(Alphabet), NEW t \in Seq(Alphabet), NoNewline(s), NoNewline(t)
    PROVE  s \o t \in Seq(Alphabet) /\ NoNewline(s \o t)
<1>1. /\ s \o t \in Seq(Alphabet) /\ Len(s \o t) = Len(s) + Len(t)
      /\ \A i \in 1..Len(s) : (s \o t)[i] = s[i]
      /\ \A i \in 1..Len(t) : (s \o t)[Len(s) + i] = t[i]
  BY ConcatIs
<1>2. Len(s) \in Nat /\ Len(t) \in Nat
  OBVIOUS
<1>. DEFINE st == s \o t
<1>. HIDE DEF st
<1>3. ASSUME NEW i \in 1..Len(st) PROVE st[i] # "nl"
  <2>1. CASE i <= Len(s)
    BY <1>1, <1>2, <2>1 DEF NoNewline, st
  <2>2. CASE ~(i <= Len(s))
    <3>1. i - Len(s) \in 1..Len(t) /\ Len(s) + (i - Len(s)) = i
      BY <1>1, <1>2, <2>2 DEF st
    <3>. QED
      BY <1>1, <3>1 DEF NoNewline, st
  <2>. QED
    BY <2>1, <2>2
<1>. QED
  BY <1>1, <1>3 DEF NoNewline, st

Ends == {<<>>, <<"cr">>}

LEMMA EndsAre ==
    \A end \in Ends : end \in Seq(Alphabet) /\ NoNewline(end)
<1>1. <<>> \in Seq(Alphabet) /\ NoNewline(<<>>)
  BY DEF NoNewline
<1>2. <<"cr">> \in Seq(Alphabet) /\ NoNewline(<<"cr">>)
  BY DEF NoNewline, Alphabet
<1>. QED
  BY <1>1, <1>2 DEF Ends

LEMMA KeyAndValue ==
    ASSUME NEW key \in Alphabet, key # "nl", NEW v \in Seq(Alphabet), NoNewline(v), NEW end \in Ends
    PROVE  /\ <<key, "=">> \o v \in Seq(Alphabet) /\ NoNewline(<<key, "=">> \o v)
           /\ <<key, "=">> \o v \o end \in Seq(Alphabet) /\ NoNewline(<<key, "=">> \o v \o end)
           /\ Field(key, v, end) \in Seq(Alphabet)
<1>1. <<key, "=">> \in Seq(Alphabet) /\ NoNewline(<<key, "=">>)
  BY DEF Alphabet, NoNewline
<1>2. <<key, "=">> \o v \in Seq(Alphabet) /\ NoNewline(<<key, "=">> \o v)
  BY <1>1, NoNewlineConcat
<1>3. (<<key, "=">> \o v) \o end \in Seq(Alphabet) /\ NoNewline((<<key, "=">> \o v) \o end)
  BY <1>2, EndsAre, NoNewlineConcat
<1>4. <<"nl">> \in Seq(Alphabet)
  BY DEF Alphabet
<1>5. ((<<key, "=">> \o v) \o end) \o <<"nl">> \in Seq(Alphabet)
  BY <1>3, <1>4, ConcatIs
<1>. QED
  BY <1>2, <1>3, <1>5 DEF Field

LEMMA DropOf ==
    ASSUME NEW v \in Seq(Alphabet), v # <<>>, NEW end \in Ends
    PROVE  Drop(v \o end) = IF end = <<>> THEN Drop(v) ELSE v
<1>1. CASE end = <<>>
  <2>1. v \o <<>> = v
    OBVIOUS
  <2>. QED
    BY <1>1, <2>1
<1>2. CASE end = <<"cr">>
  <2>. DEFINE w == v \o <<"cr">>
  <2>1. <<"cr">> \in Seq(Alphabet) /\ Len(<<"cr">>) = 1 /\ <<"cr">>[1] = "cr"
    BY DEF Alphabet
  <2>2. /\ w \in Seq(Alphabet) /\ Len(w) = Len(v) + 1 /\ w[Len(v) + 1] = "cr"
        /\ \A i \in 1..Len(v) : w[i] = v[i]
    BY <2>1, ConcatIs
  <2>3. w # <<>> /\ Len(v) \in Nat
    BY <2>2
  <2>. HIDE DEF w
  <2>4. Last(w) = "cr"
    BY <2>2 DEF Last
  <2>5. /\ Front(w) \in Seq(Alphabet) /\ Len(Front(w)) = Len(v)
        /\ \A i \in 1..Len(v) : Front(w)[i] = v[i]
    BY <2>2, <2>3, FrontIs
  <2>6. Front(w) = v
    BY <2>5, SeqsEqual
  <2>7. end # <<>>
    BY <1>2
  <2>. QED
    BY <1>2, <2>4, <2>6, <2>7 DEF Drop, w
<1>. QED
  BY <1>1, <1>2 DEF Ends

Kept(v, end) == IF end = <<>> THEN Drop(v) ELSE v

\* A line with a key assigns its field; the '\r' that an editor has added is dropped.
LEMMA ReadField ==
    ASSUME NEW m, NEW key \in Alphabet, key \notin {"=", "#", "nl"},
           NEW v \in Seq(Alphabet), v # <<>>, NoNewline(v), NEW end \in Ends,
           NEW r \in Seq(Alphabet)
    PROVE  ReadText({m}, Field(key, v, end) \o r)
           = ReadText(assign_meta_field(m, <<key>>, Kept(v, end)), r)
<1>. DEFINE a == <<key, "=">> \o v \o end
<1>1. a \in Seq(Alphabet) /\ NoNewline(a)
  BY KeyAndValue
<1>2. ReadText({m}, a \o <<"nl">> \o r) = ReadText(ReadLine({m}, a), r)
  <2>. HIDE DEF a
  <2>. QED
    BY <1>1, ReadTextLine DEF NoNewline
<1>3. a = <<key, "=">> \o (v \o end)
  BY EndsAre, Assoc, <<key, "=">> \in Seq(Alphabet) DEF Alphabet
<1>4. v \o end \in Seq(Alphabet) /\ v \o end # <<>>
  <2>1. v \o end \in Seq(Alphabet) /\ Len(v \o end) = Len(v) + Len(end)
    BY EndsAre, ConcatIs
  <2>2. Len(v) > 0 /\ Len(end) \in Nat /\ Len(v) \in Nat
    BY EndsAre
  <2>3. Len(v \o end) > 0
    BY <2>1, <2>2
  <2>. QED
    BY <2>1, <2>3
<1>5. ReadLine({m}, <<key, "=">> \o (v \o end)) = assign_meta_field(m, <<key>>, Drop(v \o end))
  <2>. DEFINE w == v \o end
  <2>. HIDE DEF w
  <2>1. w \in Seq(Alphabet) /\ w # <<>>
    BY <1>4 DEF w
  <2>2. ReadLine({m}, <<key, "=">> \o w) = assign_meta_field(m, <<key>>, Drop(w))
    BY <2>1, ReadKeyed
  <2>. QED
    BY <2>2 DEF w
<1>6. Drop(v \o end) = Kept(v, end)
  BY DropOf DEF Kept
<1>. QED
  BY <1>2, <1>3, <1>5, <1>6, Zenon DEF Field

\* An editor's "\r\n".
Dos(chars) == FlattenSeq([i \in DOMAIN chars |-> IF chars[i] = "nl" THEN <<"cr", "nl">>
                                                 ELSE <<chars[i]>>])
Ended(c) == IF c = "nl" THEN <<"cr", "nl">> ELSE <<c>>

IsFlat(f, seqs, n) == f = [i \in 1..n |-> IF i = 1 THEN seqs[i] ELSE f[i - 1] \o seqs[i]]

LEMMA FlatExists ==
    ASSUME NEW seqs
    PROVE  \A n \in Nat : \E f : IsFlat(f, seqs, n)
<1>. DEFINE Q == {n \in Nat : \E f : IsFlat(f, seqs, n)}
<1>1. 0 \in Q
  <2>. DEFINE f == [i \in 1..0 |-> seqs[i]]
  <2>1. f = [i \in 1..0 |-> IF i = 1 THEN seqs[i] ELSE f[i - 1] \o seqs[i]]
    BY \A i \in 1..0 : FALSE
  <2>2. \E f_1 : IsFlat(f_1, seqs, 0)
    BY <2>1, Zenon DEF IsFlat
  <2>. QED
    BY <2>2, Zenon
<1>2. ASSUME NEW n \in Nat, n \in Q PROVE n + 1 \in Q
  <2>1. PICK f : IsFlat(f, seqs, n)
    BY <1>2, Zenon
  <2>. DEFINE g == [i \in 1..(n + 1) |-> IF i = 1 THEN seqs[i] ELSE f[i - 1] \o seqs[i]]
  <2>2. \A i \in 1..n : f[i] = IF i = 1 THEN seqs[i] ELSE f[i - 1] \o seqs[i]
    BY <2>1, Zenon DEF IsFlat
  <2>3. \A i \in 1..n : g[i] = f[i]
    BY <2>2
  <2>4. \A i \in 1..(n + 1) : i # 1 => g[i - 1] = f[i - 1]
    <3>. HIDE DEF g
    <3>. QED  BY <2>3
  <2>5. g = [i \in 1..(n + 1) |-> IF i = 1 THEN seqs[i] ELSE g[i - 1] \o seqs[i]]
    BY <2>4, Zenon
  <2>6. \E f_1 : IsFlat(f_1, seqs, n + 1)
    BY <2>5, Zenon DEF IsFlat
  <2>7. n + 1 \in Nat
    OBVIOUS
  <2>. QED
    BY <2>6, <2>7, Zenon
<1>. HIDE DEF Q
<1>3. \A n \in Nat : n \in Q
  BY <1>1, <1>2, Induction
<1>. QED
  BY <1>3 DEF Q

LEMMA DosEmpty == Dos(<<>>) = <<>>
<1>. DEFINE seqs == [i \in DOMAIN <<>> |-> IF <<>>[i] = "nl" THEN <<"cr", "nl">> ELSE <<<<>>[i]>>]
<1>1. seqs = <<>> /\ Len(seqs) = 0
  OBVIOUS
<1>. HIDE DEF seqs
<1>2. FlattenSeq(seqs) = <<>>
  BY <1>1, Zenon DEF FlattenSeq
<1>. QED
  BY <1>2 DEF Dos, seqs

LEMMA DosIs ==
    ASSUME NEW chars \in Seq(Alphabet)
    PROVE  /\ Dos(chars) \in Seq(Alphabet)
           /\ \E f : /\ Dos(chars) = f[Len(chars)] /\ f[0] = <<>>
                     /\ \A k \in 0..Len(chars) : f[k] \in Seq(Alphabet)
                     /\ \A k \in 1..Len(chars) : f[k] = f[k - 1] \o Ended(chars[k])
<1>. DEFINE n == Len(chars)
            seqs == [i \in DOMAIN chars |-> IF chars[i] = "nl" THEN <<"cr", "nl">> ELSE <<chars[i]>>]
<1>1. n \in Nat /\ DOMAIN chars = 1..n
  OBVIOUS
<1>2. \A i \in 1..n : seqs[i] = Ended(chars[i]) /\ seqs[i] \in Seq(Alphabet)
  <2>1. <<"cr", "nl">> \in Seq(Alphabet)
    BY NlIsCharacter
  <2>2. \A i \in 1..n : <<chars[i]>> \in Seq(Alphabet)
    OBVIOUS
  <2>. QED
    BY <2>1, <2>2 DEF Ended
<1>3. Len(seqs) = n /\ seqs \in Seq(Seq(Alphabet))
  <2>1. DOMAIN seqs = 1..n
    BY <1>1
  <2>2. seqs \in [1..n -> Seq(Alphabet)]
    BY <1>1, <1>2
  <2>. QED
    BY <1>1, <2>1, <2>2
<1>4. Dos(chars) = FlattenSeq(seqs)
  BY DEF Dos
<1>. HIDE DEF n, seqs
<1>5. CASE n = 0
  <2>1. seqs = <<>>
    BY <1>3, <1>5
  <2>2. Dos(chars) = <<>>
    BY <1>3, <1>4, <1>5, <2>1, Zenon DEF FlattenSeq
  <2>. DEFINE f == [k \in 0..0 |-> <<>>]
  <2>3. <<>> \in Seq(Alphabet)
    OBVIOUS
  <2>4. /\ f[n] = <<>> /\ f[0] = <<>> /\ \A k \in 0..n : f[k] = <<>>
        /\ \A k \in 1..n : FALSE
    BY <1>5
  <2>. HIDE DEF f
  <2>5. /\ Dos(chars) = f[n] /\ f[0] = <<>> /\ \A k \in 0..n : f[k] \in Seq(Alphabet)
        /\ \A k \in 1..n : f[k] = f[k - 1] \o Ended(chars[k])
    BY <2>2, <2>3, <2>4, Zenon
  <2>. QED
    BY <2>2, <2>3, <2>5, Zenon DEF n
<1>6. CASE n # 0
  <2>1. PICK g : IsFlat(g, seqs, n) /\ FlattenSeq(seqs) = g[n]
    <3>1. \E g : IsFlat(g, seqs, n)
      BY <1>1, FlatExists
    <3>2. FlattenSeq(seqs) = (CHOOSE g : IsFlat(g, seqs, Len(seqs)))[Len(seqs)]
      BY <1>3, <1>6, Zenon DEF FlattenSeq, IsFlat
    <3>. QED
      BY <1>3, <3>1, <3>2, Zenon
  <2>2. \A i \in 1..n : g[i] = IF i = 1 THEN seqs[i] ELSE g[i - 1] \o seqs[i]
    BY <2>1, Zenon DEF IsFlat
  <2>. DEFINE f == [k \in 0..n |-> IF k = 0 THEN <<>> ELSE g[k]]
              Q == {k \in Nat : k <= n => f[k] \in Seq(Alphabet)}
  <2>3. f[0] = <<>> /\ \A k \in 1..n : f[k] = g[k]
    BY <1>1
  <2>. HIDE DEF f
  <2>4. \A k \in 1..n : f[k - 1] \in Seq(Alphabet) => f[k] = f[k - 1] \o Ended(chars[k])
    <3>. TAKE k \in 1..n
    <3>1. CASE k = 1
      <4>1. k - 1 = 0
        BY <3>1
      <4>2. f[k] = seqs[k]
        BY <2>2, <2>3, <3>1, Zenon
      <4>3. <<>> \o seqs[k] = seqs[k]
        BY <1>2
      <4>. QED
        BY <1>2, <2>3, <4>1, <4>2, <4>3
    <3>2. CASE k # 1
      <4>1. k - 1 \in 1..n
        BY <1>1, <3>2
      <4>2. f[k] = f[k - 1] \o seqs[k]
        BY <2>2, <2>3, <3>2, <4>1, Zenon
      <4>. QED
        BY <1>2, <4>2
    <3>. QED
      BY <3>1, <3>2
  <2>5. 0 \in Q
    <3>1. <<>> \in Seq(Alphabet)
      OBVIOUS
    <3>2. f[0] \in Seq(Alphabet)
      BY <2>3, <3>1, Zenon
    <3>. QED
      BY <3>2
  <2>6. ASSUME NEW k \in Nat, k \in Q PROVE k + 1 \in Q
    <3>1. SUFFICES ASSUME k + 1 <= n PROVE f[k + 1] \in Seq(Alphabet)
      OBVIOUS
    <3>2. k + 1 \in 1..n /\ (k + 1) - 1 = k /\ k <= n
      BY <1>1, <3>1
    <3>3. f[k] \in Seq(Alphabet)
      BY <2>6, <3>2
    <3>4. f[k + 1] = f[k] \o Ended(chars[k + 1])
      BY <2>4, <3>2, <3>3
    <3>5. Ended(chars[k + 1]) \in Seq(Alphabet)
      BY <1>2, <3>2
    <3>. QED
      BY <3>3, <3>4, <3>5, ConcatIs
  <2>7. \A k \in Nat : k \in Q
    <3>. HIDE DEF Q
    <3>. QED  BY <2>5, <2>6, Induction
  <2>8. \A k \in 0..n : f[k] \in Seq(Alphabet)
    BY <1>1, <2>7
  <2>9. \A k \in 1..n : f[k] = f[k - 1] \o Ended(chars[k])
    <3>1. \A k \in 1..n : k - 1 \in 0..n
      BY <1>1
    <3>. QED
      BY <2>4, <2>8, <3>1
  <2>10. Dos(chars) = f[n] /\ n \in 0..n
    BY <1>1, <1>4, <1>6, <2>1, <2>3
  <2>. QED
    BY <2>3, <2>8, <2>9, <2>10, Zenon DEF n
<1>. QED
  BY <1>5, <1>6

LEMMA DosLine ==
    ASSUME NEW a \in Seq(Alphabet), NoNewline(a), NEW b \in Seq(Alphabet)
    PROVE  Dos(a \o <<"nl">> \o b) = (a \o <<"cr">> \o <<"nl">>) \o Dos(b)
<1>. DEFINE t == a \o <<"nl">> \o b
            n == Len(a)
            m == Len(b)
            p == a \o <<"cr">> \o <<"nl">>
<1>1. /\ n \in Nat /\ m \in Nat
      /\ t \in Seq(Alphabet) /\ Len(t) = n + 1 + m
      /\ \A i \in 1..n : t[i] = a[i]
      /\ t[n + 1] = "nl"
      /\ \A i \in 1..m : t[n + 1 + i] = b[i]
  BY NlIsCharacter
<1>. HIDE DEF t
<1>2. PICK f : /\ Dos(t) = f[Len(t)] /\ f[0] = <<>>
               /\ \A k \in 0..Len(t) : f[k] \in Seq(Alphabet)
               /\ \A k \in 1..Len(t) : f[k] = f[k - 1] \o Ended(t[k])
  <2>1. t \in Seq(Alphabet)
    BY <1>1
  <2>. QED
    BY <2>1, DosIs, Zenon
<1>3. PICK g : /\ Dos(b) = g[m] /\ g[0] = <<>>
               /\ \A k \in 0..m : g[k] \in Seq(Alphabet)
               /\ \A k \in 1..m : g[k] = g[k - 1] \o Ended(b[k])
  BY DosIs, Zenon
<1>. HIDE DEF n, m
<1>. DEFINE Q == {k \in Nat : k <= n => f[k] = SubSeq(a, 1, k)}
<1>4. 0 \in Q
  <2>1. SubSeq(a, 1, 0) = <<>>
    OBVIOUS
  <2>. QED
    BY <1>2, <2>1
<1>5. ASSUME NEW k \in Nat, k \in Q PROVE k + 1 \in Q
  <2>1. SUFFICES ASSUME k + 1 <= n PROVE f[k + 1] = SubSeq(a, 1, k + 1)
    OBVIOUS
  <2>. DEFINE s == SubSeq(a, 1, k)
              c == a[k + 1]
  <2>2. k + 1 \in 1..n /\ k + 1 \in 1..Len(t) /\ (k + 1) - 1 = k /\ k <= n /\ k \in 0..n
    BY <1>1, <2>1
  <2>3. c # "nl" /\ c \in Alphabet /\ t[k + 1] = c
    BY <1>1, <2>2 DEF n, NoNewline
  <2>4. s \in Seq(Alphabet) /\ Append(s, c) = SubSeq(a, 1, k + 1)
    BY <2>2 DEF n
  <2>5. f[k + 1] = s \o Ended(c)
    BY <1>2, <1>5, <2>2, <2>3
  <2>. HIDE DEF s, c
  <2>6. s \o Ended(c) = Append(s, c)
    BY <2>3, <2>4 DEF Ended
  <2>. QED
    BY <2>4, <2>5, <2>6
<1>6. \A k \in Nat : k \in Q
  <2>. HIDE DEF Q
  <2>. QED  BY <1>4, <1>5, Induction
<1>7. f[n] = a
  <2>1. SubSeq(a, 1, n) = a
    BY DEF n
  <2>. QED
    BY <1>1, <1>6, <2>1
<1>8. f[n + 1] = p
  <2>1. n + 1 \in 1..Len(t) /\ (n + 1) - 1 = n
    BY <1>1
  <2>2. f[n + 1] = a \o <<"cr", "nl">>
    BY <1>1, <1>2, <1>7, <2>1 DEF Ended
  <2>3. <<"cr">> \in Seq(Alphabet) /\ <<"nl">> \in Seq(Alphabet)
    BY NlIsCharacter
  <2>4. <<"cr", "nl">> = <<"cr">> \o <<"nl">>
    OBVIOUS
  <2>5. p = a \o (<<"cr">> \o <<"nl">>)
    BY <2>3, Assoc
  <2>. QED
    BY <2>2, <2>4, <2>5
<1>9. p \in Seq(Alphabet)
  BY NlIsCharacter
<1>. HIDE DEF p
<1>. DEFINE R == {k \in Nat : k <= m => f[n + 1 + k] = p \o g[k]}
<1>10. 0 \in R
  <2>1. n + 1 + 0 = n + 1 /\ p \o <<>> = p
    BY <1>1, <1>9
  <2>2. f[n + 1 + 0] = p \o g[0]
    BY <1>3, <1>8, <2>1, Zenon
  <2>. QED
    BY <2>2
<1>11. ASSUME NEW k \in Nat, k \in R PROVE k + 1 \in R
  <2>1. SUFFICES ASSUME k + 1 <= m PROVE f[n + 1 + (k + 1)] = p \o g[k + 1]
    OBVIOUS
  <2>2. /\ k + 1 \in 1..m /\ (k + 1) - 1 = k /\ k <= m /\ k \in 0..m
        /\ n + 1 + (k + 1) \in 1..Len(t) /\ (n + 1 + (k + 1)) - 1 = n + 1 + k
    BY <1>1, <2>1
  <2>. DEFINE c == b[k + 1]
  <2>3. c \in Alphabet /\ t[n + 1 + (k + 1)] = c
    BY <1>1, <2>2 DEF m
  <2>4. f[n + 1 + k] = p \o g[k] /\ g[k] \in Seq(Alphabet)
    BY <1>3, <1>11, <2>2
  <2>5. f[n + 1 + (k + 1)] = (p \o g[k]) \o Ended(c)
    BY <1>2, <2>2, <2>3, <2>4
  <2>6. g[k + 1] = g[k] \o Ended(c)
    BY <1>3, <2>2
  <2>. HIDE DEF c
  <2>7. Ended(c) \in Seq(Alphabet)
    BY <2>3, NlIsCharacter DEF Ended
  <2>8. (p \o g[k]) \o Ended(c) = p \o (g[k] \o Ended(c))
    <3>1. g[k] \in Seq(Alphabet)
      BY <2>4
    <3>2. \A x, y, z \in Seq(Alphabet) : (x \o y) \o z = x \o (y \o z)
      BY Assoc, SMTT(30)
    <3>. QED
      BY ONLY <1>9, <2>7, <3>1, <3>2, ZenonT(40)
  <2>. QED
    BY <2>5, <2>6, <2>8
<1>12. \A k \in Nat : k \in R
  <2>. HIDE DEF R
  <2>. QED  BY <1>10, <1>11, Induction
<1>13. f[n + 1 + m] = p \o g[m]
  <2>1. m \in Nat /\ m <= m
    BY <1>1
  <2>2. m \in R
    BY <1>12, <2>1, Zenon
  <2>. QED
    BY <2>1, <2>2, Zenon
<1>. QED
  BY <1>1, <1>2, <1>3, <1>13 DEF t, p

-----------------------------------------------------------------------------
(* A record that the program writes. *)

Broken == <<"p", "nl", "p">>        \* the one path with a newline

MetaSet ==
    [state : {<<"submitted">>, <<"queued">>, <<"failed">>}, op : {<<"count">>, <<"copy">>},
     path : Paths \ {<<>>}, workers : 1..kMaxWorkers, nice : -MaxNice..(MaxNice - 1),
     mem_mb : 0..(U - 1)]

PathText(path, end, r) ==
    IF path = Broken
      THEN Field("path", <<"p">>, end) \o ((<<"p">> \o end \o <<"nl">>) \o r)
      ELSE Field("path", path, end) \o r

Text(m, end, r) ==
    Field("state", m.state, end) \o (Field("op", m.op, end) \o PathText(m.path, end,
    Field("workers", Chars(m.workers), end) \o (Field("nice", Chars(m.nice), end) \o
    (Field("mem_mb", Chars(m.mem_mb), end) \o r))))

\* What is read of it: a '\r' at the end of the path is lost unless an editor has added its own.
ReadOf(m, end) == [m EXCEPT !.path = IF end = <<>> THEN Drop(m.path) ELSE m.path]

LEMMA KeysAre ==
    {"state", "op", "path", "workers", "nice", "mem_mb", "newer", "p"} \subseteq
        Alphabet \ {"=", "#", "nl"}
BY DEF Alphabet

LEMMA PathIs ==
    ASSUME NEW path \in Paths \ {<<>>}
    PROVE  /\ path \in Seq(Alphabet)
           /\ path # Broken => NoNewline(path) /\ "nl" \notin Range(path)
           /\ path = Broken => "nl" \in Range(path)
<1>1. path \in {<<"p">>, <<"p", "=", "p">>, <<"#", "p">>, <<"p", "cr">>, <<"p", "cr", "p">>, Broken}
  BY DEF Paths, Broken
<1>2. path \in Seq(Alphabet)
  <2>1. /\ <<"p">> \in Seq(Alphabet) /\ <<"#", "p">> \in Seq(Alphabet)
        /\ <<"p", "cr">> \in Seq(Alphabet)
    BY DEF Alphabet
  <2>2. /\ <<"p", "=", "p">> \in Seq(Alphabet) /\ <<"p", "cr", "p">> \in Seq(Alphabet)
        /\ <<"p", "nl", "p">> \in Seq(Alphabet)
    BY DEF Alphabet
  <2>. QED
    BY <1>1, <2>1, <2>2, Zenon DEF Broken
<1>3. path # Broken => NoNewline(path)
  BY <1>1 DEF NoNewline
<1>4. NoNewline(path) => "nl" \notin Range(path)
  BY <1>2 DEF NoNewline, Range
<1>5. Broken[2] = "nl" /\ 2 \in DOMAIN Broken
  BY DEF Broken
<1>6. "nl" \in Range(Broken)
  BY <1>5, Zenon DEF Range
<1>. QED
  BY <1>2, <1>3, <1>4, <1>6

LEMMA DropPath ==
    ASSUME NEW path \in Paths \ {<<>>}, path # Broken
    PROVE  /\ Drop(path) \in Paths \ {<<>>} /\ Drop(path) # Broken
           /\ Drop(path) = path \/ Drop(path) \o <<"cr">> = path
<1>1. path \in {<<"p">>, <<"p", "=", "p">>, <<"#", "p">>, <<"p", "cr">>, <<"p", "cr", "p">>}
  BY DEF Paths, Broken
<1>2. CASE path = <<"p", "cr">>
  <2>1. <<"p", "cr">> \in Seq(Alphabet) /\ Len(<<"p", "cr">>) = 2 /\ <<"p", "cr">>[2] = "cr"
    BY DEF Alphabet
  <2>2. SubSeq(<<"p", "cr">>, 1, 1) = <<"p">>
    <3>1. /\ SubSeq(<<"p", "cr">>, 1, 1) \in Seq(Alphabet) /\ Len(SubSeq(<<"p", "cr">>, 1, 1)) = 1
          /\ \A i \in 1..1 : SubSeq(<<"p", "cr">>, 1, 1)[i] = <<"p", "cr">>[i]
      BY <2>1, 1 \in 0..2, PrefixIs
    <3>2. SubSeq(<<"p", "cr">>, 1, 1)[1] = "p"
      BY <3>1
    <3>. QED
      BY <3>1, <3>2, OneIs
  <2>3. Drop(path) = <<"p">>
    BY <1>2, <2>1, <2>2 DEF Drop, Last, Front
  <2>4. <<"p">> \in Paths /\ <<"p">> # <<>>
    BY DEF Paths
  <2>5. <<"p">> # Broken
    BY DEF Broken
  <2>6. <<"p", "cr">> = <<"p">> \o <<"cr">>
    OBVIOUS
  <2>. QED
    BY <1>2, <2>3, <2>4, <2>5, <2>6
<1>3. CASE path # <<"p", "cr">>
  <2>1. Last(path) # "cr"
    BY <1>1, <1>3 DEF Last
  <2>2. Drop(path) = path
    BY <2>1 DEF Drop
  <2>. QED
    BY <2>2
<1>. QED
  BY <1>2, <1>3

\* A number is written without newlines, and does not end in '\r'.
LEMMA CharsOf ==
    ASSUME NEW n \in Int
    PROVE  /\ Chars(n) \in Seq(Alphabet) /\ Chars(n) # <<>> /\ NoNewline(Chars(n))
           /\ Drop(Chars(n)) = Chars(n)
<1>1. \E s \in Seq(Alphabet) :
          /\ Len(s) > 0 /\ AllDigits(s) /\ (Chars(n) = s \/ Chars(n) = <<"-">> \o s)
  <2>1. CASE n >= 0
    BY <2>1, CharsAre
  <2>2. CASE n < 0
    <3>1. -n \in Nat /\ -n > 0 /\ -(-n) = n
      BY <2>2
    <3>2. /\ Chars(-n) \in Seq(Alphabet) /\ Len(Chars(-n)) > 0 /\ AllDigits(Chars(-n))
          /\ Chars(-(-n)) = <<"-">> \o Chars(-n)
      BY <3>1, CharsAre
    <3>. QED
      BY <3>1, <3>2
  <2>. QED
    BY <2>1, <2>2
<1>2. PICK s \in Seq(Alphabet) :
          /\ Len(s) > 0 /\ AllDigits(s) /\ (Chars(n) = s \/ Chars(n) = <<"-">> \o s)
  BY <1>1
<1>3. \A i \in 1..Len(s) : s[i] # "nl" /\ s[i] # "cr"
  BY <1>2, DigitIs DEF AllDigits
<1>4. NoNewline(s) /\ Len(s) \in Nat
  BY <1>3 DEF NoNewline
<1>5. CASE Chars(n) = s
  <2>1. Last(s) # "cr"
    BY <1>2, <1>3, <1>4 DEF Last
  <2>. QED
    BY <1>2, <1>4, <1>5, <2>1 DEF Drop
<1>6. CASE Chars(n) = <<"-">> \o s
  <2>. DEFINE w == <<"-">> \o s
  <2>1. "-" \in Alphabet /\ <<"-">> \in Seq(Alphabet) /\ NoNewline(<<"-">>)
    BY DEF Alphabet, NoNewline
  <2>2. w \in Seq(Alphabet) /\ NoNewline(w)
    BY <1>4, <2>1, NoNewlineConcat
  <2>3. Len(w) = Len(s) + 1 /\ \A i \in 1..Len(s) : w[i + 1] = s[i]
    BY <2>1, ConsIs
  <2>. HIDE DEF w
  <2>4. Last(w) # "cr" /\ w # <<>>
    <3>1. Len(s) \in 1..Len(s)
      BY <1>2, <1>4
    <3>2. w[Len(w)] = s[Len(s)]
      BY <2>3, <3>1
    <3>3. Len(w) # 0
      BY <1>4, <2>3
    <3>. QED
      BY <1>3, <3>1, <3>2, <3>3 DEF Last
  <2>. QED
    BY <1>6, <2>2, <2>4 DEF Drop, w
<1>. QED
  BY <1>2, <1>5, <1>6

LEMMA NameIs ==
    ASSUME NEW v, v \in {<<"submitted">>, <<"queued">>, <<"failed">>, <<"count">>, <<"copy">>, <<"p">>}
    PROVE  v \in Seq(Alphabet) /\ v # <<>> /\ NoNewline(v) /\ Drop(v) = v
<1>1. /\ <<"submitted">> \in Seq(Alphabet) /\ <<"queued">> \in Seq(Alphabet)
      /\ <<"failed">> \in Seq(Alphabet) /\ <<"count">> \in Seq(Alphabet)
      /\ <<"copy">> \in Seq(Alphabet) /\ <<"p">> \in Seq(Alphabet)
  BY DEF Alphabet
<1>2. v \in Seq(Alphabet)
  BY <1>1, Zenon
<1>3. Len(v) = 1 /\ v[1] \notin {"nl", "cr"}
  OBVIOUS
<1>4. NoNewline(v)
  BY <1>3 DEF NoNewline
<1>5. Last(v) # "cr" /\ v # <<>>
  BY <1>3 DEF Last
<1>. QED
  BY <1>2, <1>4, <1>5 DEF Drop

LEMMA MetaIs ==
    ASSUME NEW m \in MetaSet
    PROVE  /\ m.state \in {<<"submitted">>, <<"queued">>, <<"failed">>}
           /\ m.op \in {<<"count">>, <<"copy">>} /\ m.path \in Paths \ {<<>>}
           /\ m.workers \in 1..kMaxWorkers /\ m.nice \in -MaxNice..(MaxNice - 1)
           /\ m.mem_mb \in 0..(U - 1)
           /\ m.workers \in Int /\ m.nice \in Int /\ m.mem_mb \in Int
BY DEF MetaSet

LEMMA LineIs ==
    ASSUME NEW key \in Alphabet, NEW v \in Seq(Alphabet)
    PROVE  Line(key, v) = Field(key, v, <<>>)
<1>1. <<key, "=">> \o v \in Seq(Alphabet)
  BY KeyedIs
<1>2. (<<key, "=">> \o v) \o <<>> = <<key, "=">> \o v
  BY <1>1
<1>. QED
  BY <1>2 DEF Line, Field

LEMMA FieldType ==
    ASSUME NEW key \in Alphabet, key # "nl", NEW v \in Seq(Alphabet), NoNewline(v), NEW end \in Ends,
           NEW r \in Seq(Alphabet)
    PROVE  Field(key, v, end) \o r \in Seq(Alphabet)
BY KeyAndValue, ConcatIs

\* The path with a newline makes two lines, the second of them without '='.
LEMMA SecondLine ==
    ASSUME NEW end \in Ends, NEW r \in Seq(Alphabet)
    PROVE  /\ <<"p">> \o end \in Seq(Alphabet) /\ NoNewline(<<"p">> \o end)
           /\ (<<"p">> \o end \o <<"nl">>) \o r \in Seq(Alphabet)
           /\ \A metas : ReadText(metas, (<<"p">> \o end \o <<"nl">>) \o r) = {}
<1>. DEFINE a == <<"p">> \o end
<1>1. a \in Seq(Alphabet) /\ NoNewline(a)
  BY NameIs, EndsAre, NoNewlineConcat
<1>2. a \o <<"nl">> \in Seq(Alphabet) /\ (a \o <<"nl">>) \o r \in Seq(Alphabet)
  <2>1. <<"nl">> \in Seq(Alphabet)
    BY NlIsCharacter
  <2>. HIDE DEF a
  <2>2. a \o <<"nl">> \in Seq(Alphabet)
    BY <1>1, <2>1, ConcatIs
  <2>. QED
    BY <2>2, ConcatIs
<1>3. a # <<>> /\ a[1] # "#" /\ \A i \in 1..Len(a) : a[i] # "="
  <2>1. CASE end = <<>>
    <3>1. a = <<"p">>
      BY <2>1
    <3>. QED
      BY <3>1
  <2>2. CASE end = <<"cr">>
    <3>1. <<"p", "cr">> = <<"p">> \o <<"cr">>
      OBVIOUS
    <3>2. a = <<"p", "cr">>
      BY <2>2, <3>1
    <3>3. Len(<<"p", "cr">>) = 2 /\ <<"p", "cr">>[1] = "p" /\ <<"p", "cr">>[2] = "cr"
      OBVIOUS
    <3>. HIDE DEF a
    <3>4. Len(a) = 2 /\ a[1] = "p" /\ a[2] = "cr"
      BY <3>2, <3>3
    <3>5. \A i \in 1..2 : i = 1 \/ i = 2
      OBVIOUS
    <3>6. a # <<>>
      <4>1. Len(<<>>) = 0 /\ Len(a) # 0
        BY <3>4
      <4>. QED
        BY <4>1, Zenon
    <3>7. \A i \in 1..Len(a) : a[i] # "="
      BY <3>4, <3>5
    <3>. QED
      BY <3>4, <3>6, <3>7
  <2>. QED
    BY <2>1, <2>2 DEF Ends
<1>. HIDE DEF a
<1>4. ASSUME NEW metas PROVE ReadText(metas, (a \o <<"nl">>) \o r) = {}
  <2>1. ReadText(metas, a \o <<"nl">> \o r) = ReadText(ReadLine(metas, a), r)
    BY <1>1, ReadTextLine DEF NoNewline
  <2>2. ReadLine(metas, a) = {}
    BY <1>1, <1>3, ReadKeyless
  <2>3. ReadText({}, r) = {}
    BY ReadTextNothing
  <2>. QED
    BY <2>1, <2>2, <2>3
<1>. QED
  BY <1>1, <1>2, <1>4 DEF a

LEMMA PathTextType ==
    ASSUME NEW path \in Paths \ {<<>>}, NEW end \in Ends, NEW r \in Seq(Alphabet)
    PROVE  PathText(path, end, r) \in Seq(Alphabet)
<1>1. "path" \in Alphabet /\ "path" # "nl"
  BY KeysAre
<1>2. CASE path = Broken
  <2>1. (<<"p">> \o end \o <<"nl">>) \o r \in Seq(Alphabet)
    BY SecondLine
  <2>2. <<"p">> \in Seq(Alphabet) /\ NoNewline(<<"p">>)
    BY NameIs
  <2>. QED
    BY <1>1, <1>2, <2>1, <2>2, FieldType DEF PathText
<1>3. CASE path # Broken
  <2>1. path \in Seq(Alphabet) /\ NoNewline(path)
    BY <1>3, PathIs
  <2>. QED
    BY <1>1, <1>3, <2>1, FieldType DEF PathText
<1>. QED
  BY <1>2, <1>3

\* The parts of a text, from the last line up.
LEMMA TextType ==
    ASSUME NEW m \in MetaSet, NEW end \in Ends, NEW r \in Seq(Alphabet)
    PROVE  LET r1 == Field("mem_mb", Chars(m.mem_mb), end) \o r
               r2 == Field("nice", Chars(m.nice), end) \o r1
               r3 == Field("workers", Chars(m.workers), end) \o r2
               r4 == PathText(m.path, end, r3)
               r5 == Field("op", m.op, end) \o r4
           IN  /\ r1 \in Seq(Alphabet) /\ r2 \in Seq(Alphabet) /\ r3 \in Seq(Alphabet)
               /\ r4 \in Seq(Alphabet) /\ r5 \in Seq(Alphabet)
               /\ Text(m, end, r) = Field("state", m.state, end) \o r5
               /\ Text(m, end, r) \in Seq(Alphabet)
<1>. DEFINE r1 == Field("mem_mb", Chars(m.mem_mb), end) \o r
            r2 == Field("nice", Chars(m.nice), end) \o r1
            r3 == Field("workers", Chars(m.workers), end) \o r2
            r4 == PathText(m.path, end, r3)
            r5 == Field("op", m.op, end) \o r4
<1>1. /\ m.workers \in Int /\ m.nice \in Int /\ m.mem_mb \in Int /\ m.path \in Paths \ {<<>>}
      /\ m.op \in {<<"count">>, <<"copy">>} /\ m.state \in {<<"submitted">>, <<"queued">>, <<"failed">>}
  BY MetaIs
<1>2. \A key \in {"state", "op", "path", "workers", "nice", "mem_mb"} : key \in Alphabet /\ key # "nl"
  BY KeysAre
<1>3. r1 \in Seq(Alphabet)
  BY <1>1, <1>2, CharsOf, FieldType
<1>. HIDE DEF r1
<1>4. r2 \in Seq(Alphabet)
  BY <1>1, <1>2, <1>3, CharsOf, FieldType
<1>. HIDE DEF r2
<1>5. r3 \in Seq(Alphabet)
  BY <1>1, <1>2, <1>4, CharsOf, FieldType
<1>. HIDE DEF r3
<1>6. r4 \in Seq(Alphabet)
  BY <1>1, <1>5, PathTextType
<1>. HIDE DEF r4
<1>7. r5 \in Seq(Alphabet)
  BY <1>1, <1>2, <1>6, NameIs, FieldType
<1>. HIDE DEF r5
<1>8. Field("state", m.state, end) \o r5 \in Seq(Alphabet)
  BY <1>1, <1>2, <1>7, NameIs, FieldType
<1>9. Text(m, end, r) = Field("state", m.state, end) \o r5
  BY Zenon DEF Text, r1, r2, r3, r4, r5
<1>. QED
  BY <1>3, <1>4, <1>5, <1>6, <1>7, <1>8, <1>9 DEF r1, r2, r3, r4, r5

LEMMA Concats ==
    /\ \A s, t \in Seq(Alphabet) : s \o t \in Seq(Alphabet)
    /\ \A s, t, u \in Seq(Alphabet) : (s \o t) \o u = s \o (t \o u)
<1>1. ASSUME NEW s \in Seq(Alphabet), NEW t \in Seq(Alphabet)
      PROVE  s \o t \in Seq(Alphabet)
  BY ConcatIs
<1>2. ASSUME NEW s \in Seq(Alphabet), NEW t \in Seq(Alphabet), NEW u \in Seq(Alphabet)
      PROVE  (s \o t) \o u = s \o (t \o u)
  BY Assoc
<1>3. \A s, t \in Seq(Alphabet) : s \o t \in Seq(Alphabet)
  BY <1>1, Zenon
<1>4. \A s, t, u \in Seq(Alphabet) : (s \o t) \o u = s \o (t \o u)
  BY <1>2
<1>. QED
  BY <1>3, <1>4, Zenon

LEMMA BrokenPath ==
    ASSUME NEW r \in Seq(Alphabet)
    PROVE  /\ Line("path", Broken) \in Seq(Alphabet)
           /\ Line("path", Broken) \o r = PathText(Broken, <<>>, r)
<1>. DEFINE a == <<"path", "=", "p", "nl">>
            b == <<"p", "nl">>
<1>1. a \in Seq(Alphabet) /\ b \in Seq(Alphabet)
  BY DEF Alphabet
<1>2. <<"path", "=", "p", "nl", "p">> = <<"path", "=">> \o <<"p", "nl", "p">>
  OBVIOUS
<1>3. <<"path", "=", "p", "nl", "p">> \o <<"nl">> = a \o b
  OBVIOUS
<1>4. Line("path", Broken) = a \o b
  BY <1>2, <1>3, Zenon DEF Line, Broken
<1>5. Field("path", <<"p">>, <<>>) = a
  <2>1. <<"path", "=", "p">> = <<"path", "=">> \o <<"p">>
    OBVIOUS
  <2>2. <<"path", "=", "p">> \o <<>> = <<"path", "=", "p">>
    <3>1. \A s \in Seq(Alphabet) : s \o <<>> = s
      OBVIOUS
    <3>2. <<"path", "=", "p">> \in Seq(Alphabet)
      BY DEF Alphabet
    <3>. QED
      BY <3>1, <3>2, Zenon
  <2>3. a = <<"path", "=", "p">> \o <<"nl">>
    OBVIOUS
  <2>. QED
    BY <2>1, <2>2, <2>3, Zenon DEF Field
<1>6. <<"p">> \o <<>> \o <<"nl">> = b
  <2>1. <<"p">> \o <<>> = <<"p">>
    OBVIOUS
  <2>2. b = <<"p">> \o <<"nl">>
    OBVIOUS
  <2>. QED
    BY <2>1, <2>2, Zenon
<1>. HIDE DEF a, b
<1>7. (a \o b) \o r = a \o (b \o r) /\ a \o b \in Seq(Alphabet)
  BY <1>1, Assoc, ConcatIs
<1>. QED
  BY <1>4, <1>5, <1>6, <1>7 DEF PathText

\* What Save writes, line by line.
LEMMA TextIs ==
    ASSUME NEW m \in MetaSet, NEW r \in Seq(Alphabet)
    PROVE  meta_to_text(m) \in Seq(Alphabet) /\ meta_to_text(m) \o r = Text(m, <<>>, r)
<1>. DEFINE a == Line("state", m.state)
            b == Line("op", m.op)
            c == Line("path", m.path)
            d == Line("workers", Chars(m.workers))
            e == Line("nice", Chars(m.nice))
            f == Line("mem_mb", Chars(m.mem_mb))
<1>1. /\ m.workers \in Int /\ m.nice \in Int /\ m.mem_mb \in Int /\ m.path \in Paths \ {<<>>}
      /\ m.op \in {<<"count">>, <<"copy">>} /\ m.state \in {<<"submitted">>, <<"queued">>, <<"failed">>}
  BY MetaIs
<1>2. \A key \in {"state", "op", "path", "workers", "nice", "mem_mb"} : key \in Alphabet /\ key # "nl"
  BY KeysAre
<1>3. <<>> \in Ends
  BY DEF Ends
<1>4. \A key \in Alphabet \ {"nl"} : \A v \in Seq(Alphabet) :
          NoNewline(v) => Line(key, v) = Field(key, v, <<>>) /\ Line(key, v) \in Seq(Alphabet)
  BY <1>3, LineIs, KeyAndValue
<1>5. a = Field("state", m.state, <<>>) /\ a \in Seq(Alphabet)
  BY <1>1, <1>2, <1>4, NameIs
<1>6. b = Field("op", m.op, <<>>) /\ b \in Seq(Alphabet)
  BY <1>1, <1>2, <1>4, NameIs
<1>7. d = Field("workers", Chars(m.workers), <<>>) /\ d \in Seq(Alphabet)
  BY <1>1, <1>2, <1>4, CharsOf
<1>8. e = Field("nice", Chars(m.nice), <<>>) /\ e \in Seq(Alphabet)
  BY <1>1, <1>2, <1>4, CharsOf
<1>9. f = Field("mem_mb", Chars(m.mem_mb), <<>>) /\ f \in Seq(Alphabet)
  BY <1>1, <1>2, <1>4, CharsOf
<1>10. c \in Seq(Alphabet) /\ \A s \in Seq(Alphabet) : c \o s = PathText(m.path, <<>>, s)
  <2>1. CASE m.path = Broken
    BY <2>1, <1>1, BrokenPath, PathIs
  <2>2. CASE m.path # Broken
    <3>1. m.path \in Seq(Alphabet) /\ NoNewline(m.path)
      BY <1>1, <2>2, PathIs
    <3>2. c = Field("path", m.path, <<>>) /\ c \in Seq(Alphabet)
      BY <1>2, <1>4, <3>1
    <3>. QED
      BY <2>2, <3>2 DEF PathText
  <2>. QED
    BY <2>1, <2>2
<1>11. meta_to_text(m) = a \o b \o c \o d \o e \o f
  BY Zenon DEF meta_to_text
<1>. HIDE DEF a, b, c, d, e, f
<1>21. a \in Seq(Alphabet)
  BY <1>5
<1>22. b \in Seq(Alphabet)
  BY <1>6
<1>23. c \in Seq(Alphabet)
  BY <1>10
<1>24. d \in Seq(Alphabet)
  BY <1>7
<1>25. e \in Seq(Alphabet)
  BY <1>8
<1>26. f \in Seq(Alphabet)
  BY <1>9
<1>12. /\ meta_to_text(m) \in Seq(Alphabet)
       /\ meta_to_text(m) \o r = a \o (b \o (c \o (d \o (e \o (f \o r)))))
  <2>1. /\ a \o b \o c \o d \o e \o f \in Seq(Alphabet)
        /\ (a \o b \o c \o d \o e \o f) \o r = a \o (b \o (c \o (d \o (e \o (f \o r)))))
    <3>. DEFINE ab == a \o b
                abc == ab \o c
                abcd == abc \o d
                abcde == abcd \o e
                fr == f \o r
                efr == e \o fr
                defr == d \o efr
                cdefr == c \o defr
    <3>1. ab \in Seq(Alphabet) /\ \A x \in Seq(Alphabet) : ab \o x = a \o (b \o x)
      <4>1. ab \in Seq(Alphabet)
        BY <1>21, <1>22, Concats, Zenon
      <4>2. ASSUME NEW x \in Seq(Alphabet) PROVE (a \o b) \o x = a \o (b \o x)
        BY <1>21, <1>22, Concats, Zenon
      <4>. QED
        BY <4>1, <4>2, Zenon
    <3>. HIDE DEF ab
    <3>2. abc \in Seq(Alphabet) /\ \A x \in Seq(Alphabet) : abc \o x = ab \o (c \o x)
      <4>1. abc \in Seq(Alphabet)
        BY <1>23, <3>1, Concats, Zenon
      <4>2. ASSUME NEW x \in Seq(Alphabet) PROVE (ab \o c) \o x = ab \o (c \o x)
        BY <1>23, <3>1, Concats, Zenon
      <4>. QED
        BY <4>1, <4>2, Zenon
    <3>. HIDE DEF abc
    <3>3. abcd \in Seq(Alphabet) /\ \A x \in Seq(Alphabet) : abcd \o x = abc \o (d \o x)
      <4>1. abcd \in Seq(Alphabet)
        BY <1>24, <3>2, Concats, Zenon
      <4>2. ASSUME NEW x \in Seq(Alphabet) PROVE (abc \o d) \o x = abc \o (d \o x)
        BY <1>24, <3>2, Concats, Zenon
      <4>. QED
        BY <4>1, <4>2, Zenon
    <3>. HIDE DEF abcd
    <3>4. abcde \in Seq(Alphabet) /\ \A x \in Seq(Alphabet) : abcde \o x = abcd \o (e \o x)
      <4>1. abcde \in Seq(Alphabet)
        BY <1>25, <3>3, Concats, Zenon
      <4>2. ASSUME NEW x \in Seq(Alphabet) PROVE (abcd \o e) \o x = abcd \o (e \o x)
        BY <1>25, <3>3, Concats, Zenon
      <4>. QED
        BY <4>1, <4>2, Zenon
    <3>. HIDE DEF abcde
    <3>5. abcde \o f \in Seq(Alphabet) /\ (abcde \o f) \o r = abcde \o (f \o r)
      BY <1>26, <3>4, Concats, Zenon
    <3>6. fr \in Seq(Alphabet)
      BY <1>26, Concats, Zenon
    <3>. HIDE DEF fr
    <3>7. efr \in Seq(Alphabet)
      BY <1>25, <3>6, Concats, Zenon
    <3>. HIDE DEF efr
    <3>8. defr \in Seq(Alphabet)
      BY <1>24, <3>7, Concats, Zenon
    <3>. HIDE DEF defr
    <3>9. cdefr \in Seq(Alphabet)
      BY <1>23, <3>8, Concats, Zenon
    <3>. HIDE DEF cdefr
    <3>10. (abcde \o f) \o r = abcde \o fr
      BY <3>5 DEF fr
    <3>11. abcde \o fr = abcd \o efr
      BY <3>4, <3>6 DEF efr
    <3>12. abcd \o efr = abc \o defr
      BY <3>3, <3>7 DEF defr
    <3>13. abc \o defr = ab \o cdefr
      BY <3>2, <3>8 DEF cdefr
    <3>14. ab \o cdefr = a \o (b \o cdefr)
      BY <3>1, <3>9, <1>21
    <3>. QED
      BY <3>5, <3>10, <3>11, <3>12, <3>13, <3>14, Zenon
         DEF ab, abc, abcd, abcde, fr, efr, defr, cdefr
  <2>. QED
    BY <1>11, <2>1, Zenon
<1>13. f \o r \in Seq(Alphabet)
  BY <1>9, ConcatIs
<1>14. e \o (f \o r) \in Seq(Alphabet)
  BY <1>8, <1>13, ConcatIs
<1>15. d \o (e \o (f \o r)) \in Seq(Alphabet)
  BY <1>7, <1>14, ConcatIs
<1>16. c \o (d \o (e \o (f \o r))) = PathText(m.path, <<>>, d \o (e \o (f \o r)))
  BY <1>10, <1>15, Zenon
<1>17. a \o (b \o (c \o (d \o (e \o (f \o r))))) = Text(m, <<>>, r)
  BY <1>5, <1>6, <1>7, <1>8, <1>9, <1>16, Zenon DEF Text
<1>. QED
  BY <1>12, <1>17

LEMMA DosField ==
    ASSUME NEW key \in Alphabet, key # "nl", NEW v \in Seq(Alphabet), NoNewline(v),
           NEW b \in Seq(Alphabet)
    PROVE  Dos(Field(key, v, <<>>) \o b) = Field(key, v, <<"cr">>) \o Dos(b)
<1>. DEFINE a == <<key, "=">> \o v
<1>1. a \in Seq(Alphabet) /\ NoNewline(a)
  BY KeyAndValue DEF Ends
<1>2. a \o <<>> = a
  BY <1>1
<1>3. Field(key, v, <<>>) = a \o <<"nl">> /\ Field(key, v, <<"cr">>) = a \o <<"cr">> \o <<"nl">>
  BY <1>2 DEF Field
<1>. HIDE DEF a
<1>. QED
  BY <1>1, <1>3, DosLine

LEMMA DosPath ==
    ASSUME NEW path \in Paths \ {<<>>}, NEW b \in Seq(Alphabet)
    PROVE  Dos(PathText(path, <<>>, b)) = PathText(path, <<"cr">>, Dos(b))
<1>1. "path" \in Alphabet /\ "path" # "nl" /\ Dos(b) \in Seq(Alphabet)
  BY KeysAre, DosIs
<1>2. CASE path = Broken
  <2>1. <<"p">> \in Seq(Alphabet) /\ NoNewline(<<"p">>)
    BY NameIs
  <2>2. <<"p">> \o <<>> = <<"p">>
    OBVIOUS
  <2>3. /\ (<<"p">> \o <<>> \o <<"nl">>) \o b \in Seq(Alphabet)
        /\ Dos((<<"p">> \o <<>> \o <<"nl">>) \o b) = (<<"p">> \o <<"cr">> \o <<"nl">>) \o Dos(b)
    <3>1. Dos(<<"p">> \o <<"nl">> \o b) = (<<"p">> \o <<"cr">> \o <<"nl">>) \o Dos(b)
      BY <2>1, DosLine
    <3>. QED
      BY <2>2, <3>1, SecondLine DEF Ends
  <2>. DEFINE s == (<<"p">> \o <<>> \o <<"nl">>) \o b
              t == (<<"p">> \o <<"cr">> \o <<"nl">>) \o Dos(b)
  <2>4. Dos(Field("path", <<"p">>, <<>>) \o s) = Field("path", <<"p">>, <<"cr">>) \o Dos(s)
    BY <1>1, <2>1, <2>3, DosField
  <2>5. PathText(path, <<>>, b) = Field("path", <<"p">>, <<>>) \o s
    BY <1>2 DEF PathText
  <2>6. PathText(path, <<"cr">>, Dos(b)) = Field("path", <<"p">>, <<"cr">>) \o t
    BY <1>2 DEF PathText
  <2>. QED
    BY <2>3, <2>4, <2>5, <2>6, Zenon
<1>3. CASE path # Broken
  <2>1. path \in Seq(Alphabet) /\ NoNewline(path)
    BY <1>3, PathIs
  <2>. QED
    BY <1>1, <1>3, <2>1, DosField DEF PathText
<1>. QED
  BY <1>2, <1>3

\* Edit, first disjunct: every line gets a '\r'.
LEMMA DosText ==
    ASSUME NEW m \in MetaSet
    PROVE  Dos(meta_to_text(m)) = Text(m, <<"cr">>, <<>>)
<1>. DEFINE r == <<>>
            r1 == Field("mem_mb", Chars(m.mem_mb), <<>>) \o r
            r2 == Field("nice", Chars(m.nice), <<>>) \o r1
            r3 == Field("workers", Chars(m.workers), <<>>) \o r2
            r4 == PathText(m.path, <<>>, r3)
            r5 == Field("op", m.op, <<>>) \o r4
            t1 == Field("mem_mb", Chars(m.mem_mb), <<"cr">>) \o r
            t2 == Field("nice", Chars(m.nice), <<"cr">>) \o t1
            t3 == Field("workers", Chars(m.workers), <<"cr">>) \o t2
            t4 == PathText(m.path, <<"cr">>, t3)
            t5 == Field("op", m.op, <<"cr">>) \o t4
<1>1. /\ m.workers \in Int /\ m.nice \in Int /\ m.mem_mb \in Int /\ m.path \in Paths \ {<<>>}
      /\ m.op \in {<<"count">>, <<"copy">>} /\ m.state \in {<<"submitted">>, <<"queued">>, <<"failed">>}
  BY MetaIs
<1>2. \A key \in {"state", "op", "path", "workers", "nice", "mem_mb"} : key \in Alphabet /\ key # "nl"
  BY KeysAre
<1>3. r \in Seq(Alphabet) /\ <<>> \in Ends
  BY DEF Ends
<1>4. /\ r1 \in Seq(Alphabet) /\ r2 \in Seq(Alphabet) /\ r3 \in Seq(Alphabet)
      /\ r4 \in Seq(Alphabet) /\ r5 \in Seq(Alphabet)
      /\ Text(m, <<>>, r) = Field("state", m.state, <<>>) \o r5
  BY <1>3, TextType
<1>5. meta_to_text(m) = Text(m, <<>>, r)
  <2>1. meta_to_text(m) \in Seq(Alphabet) /\ meta_to_text(m) \o r = Text(m, <<>>, r)
    BY <1>3, TextIs
  <2>2. meta_to_text(m) \o r = meta_to_text(m)
    BY <2>1
  <2>. QED
    BY <2>1, <2>2
<1>6. Text(m, <<"cr">>, r) = Field("state", m.state, <<"cr">>) \o t5
  BY Zenon DEF Text
<1>7. Dos(r) = r
  BY DosEmpty
<1>14. \A key \in Alphabet : \A v, b \in Seq(Alphabet) :
           key # "nl" /\ NoNewline(v)
               => Dos(Field(key, v, <<>>) \o b) = Field(key, v, <<"cr">>) \o Dos(b)
  BY DosField
<1>15. /\ Chars(m.mem_mb) \in Seq(Alphabet) /\ NoNewline(Chars(m.mem_mb))
       /\ Chars(m.nice) \in Seq(Alphabet) /\ NoNewline(Chars(m.nice))
       /\ Chars(m.workers) \in Seq(Alphabet) /\ NoNewline(Chars(m.workers))
       /\ m.op \in Seq(Alphabet) /\ NoNewline(m.op)
       /\ m.state \in Seq(Alphabet) /\ NoNewline(m.state)
  BY <1>1, CharsOf, NameIs
<1>16. "mem_mb" \in Alphabet /\ "mem_mb" # "nl" /\ "op" \in Alphabet /\ "op" # "nl"
       /\ "state" \in Alphabet /\ "state" # "nl" /\ "nice" \in Alphabet /\ "nice" # "nl"
       /\ "workers" \in Alphabet /\ "workers" # "nl"
  BY <1>2
<1>8. Dos(r1) = t1
  <2>. HIDE DEF r
  <2>1. Dos(Field("mem_mb", Chars(m.mem_mb), <<>>) \o r)
            = Field("mem_mb", Chars(m.mem_mb), <<"cr">>) \o Dos(r)
    BY <1>3, <1>14, <1>15, <1>16
  <2>. QED
    BY <1>7, <2>1, Zenon
<1>. HIDE DEF r1, t1
<1>9. Dos(r2) = t2
  <2>1. Chars(m.nice) \in Seq(Alphabet) /\ NoNewline(Chars(m.nice)) /\ r1 \in Seq(Alphabet)
    BY <1>4, <1>15
  <2>2. Dos(Field("nice", Chars(m.nice), <<>>) \o r1)
            = Field("nice", Chars(m.nice), <<"cr">>) \o Dos(r1)
    BY <2>1, <1>14, <1>16, ZenonT(30)
  <2>. QED
    BY <1>8, <2>2, Zenon
<1>. HIDE DEF r2, t2
<1>10. Dos(r3) = t3
  <2>1. Chars(m.workers) \in Seq(Alphabet) /\ NoNewline(Chars(m.workers)) /\ r2 \in Seq(Alphabet)
    BY <1>4, <1>15
  <2>2. Dos(Field("workers", Chars(m.workers), <<>>) \o r2)
            = Field("workers", Chars(m.workers), <<"cr">>) \o Dos(r2)
    BY <2>1, <1>14, <1>16, ZenonT(30)
  <2>. QED
    BY <1>9, <2>2, Zenon
<1>. HIDE DEF r3, t3
<1>11. Dos(r4) = t4
  BY <1>1, <1>4, <1>10, DosPath
<1>. HIDE DEF r4, t4
<1>12. Dos(r5) = t5
  <2>1. m.op \in Seq(Alphabet) /\ NoNewline(m.op) /\ r4 \in Seq(Alphabet)
    BY <1>4, <1>15
  <2>2. Dos(Field("op", m.op, <<>>) \o r4) = Field("op", m.op, <<"cr">>) \o Dos(r4)
    BY <2>1, <1>14, <1>16, ZenonT(30)
  <2>. QED
    BY <1>11, <2>2, Zenon
<1>. HIDE DEF r5, t5
<1>13. Dos(Field("state", m.state, <<>>) \o r5) = Field("state", m.state, <<"cr">>) \o t5
  <2>1. m.state \in Seq(Alphabet) /\ NoNewline(m.state) /\ r5 \in Seq(Alphabet)
    BY <1>4, <1>15
  <2>2. Dos(Field("state", m.state, <<>>) \o r5)
            = Field("state", m.state, <<"cr">>) \o Dos(r5)
    BY <2>1, <1>14, <1>16, ZenonT(30)
  <2>. QED
    BY <1>12, <2>2, Zenon
<1>. QED
  BY <1>4, <1>5, <1>6, <1>13 DEF r

LEMMA AssignFields ==
    ASSUME NEW m
    PROVE  /\ \A v : /\ assign_meta_field(m, <<"state">>, v) = {[m EXCEPT !.state = v]}
                     /\ assign_meta_field(m, <<"op">>, v) = {[m EXCEPT !.op = v]}
                     /\ assign_meta_field(m, <<"path">>, v) = {[m EXCEPT !.path = v]}
                     /\ assign_meta_field(m, <<"newer">>, v) = {m}
           /\ \A n \in 1..kMaxWorkers :
                  assign_meta_field(m, <<"workers">>, Chars(n)) = {[m EXCEPT !.workers = n]}
           /\ \A n \in -MaxNice..(MaxNice - 1) :
                  assign_meta_field(m, <<"nice">>, Chars(n)) = {[m EXCEPT !.nice = n]}
           /\ \A n \in 0..(U - 1) :
                  assign_meta_field(m, <<"mem_mb">>, Chars(n)) = {[m EXCEPT !.mem_mb = n]}
<1>1. ASSUME NEW v
      PROVE  /\ assign_meta_field(m, <<"state">>, v) = {[m EXCEPT !.state = v]}
             /\ assign_meta_field(m, <<"op">>, v) = {[m EXCEPT !.op = v]}
             /\ assign_meta_field(m, <<"path">>, v) = {[m EXCEPT !.path = v]}
             /\ assign_meta_field(m, <<"newer">>, v) = {m}
  BY DEF assign_meta_field
<1>2. ASSUME NEW n \in 1..kMaxWorkers
      PROVE  assign_meta_field(m, <<"workers">>, Chars(n)) = {[m EXCEPT !.workers = n]}
  <2>1. n \in Nat /\ n < U /\ n < I \div 2
    BY Widths, Constants
  <2>2. parse_u64(Chars(n)) = {n}
    BY <2>1, ParseU
  <2>3. Signed(n, I) = n
    <3>1. -(I \div 2) <= n /\ n < I - (I \div 2)
      BY <2>1, Widths
    <3>. QED
      BY <2>1, <3>1, SignedIs, Constants
  <2>4. assign_meta_field(m, <<"workers">>, Chars(n))
            = {[m EXCEPT !.workers = Signed(k, I)] : k \in parse_u64(Chars(n))}
    BY DEF assign_meta_field
  <2>. QED
    BY <2>2, <2>3, <2>4
<1>3. ASSUME NEW n \in -MaxNice..(MaxNice - 1)
      PROVE  assign_meta_field(m, <<"nice">>, Chars(n)) = {[m EXCEPT !.nice = n]}
  <2>1. n \in Int /\ -(I \div 2) <= n /\ n < I \div 2
    BY Widths
  <2>2. {Signed(v, I) : v \in parse_i64(Chars(n))} = {n}
    BY <2>1, ParseI
  <2>. DEFINE P == parse_i64(Chars(n))
  <2>3. assign_meta_field(m, <<"nice">>, Chars(n))
            = {[m EXCEPT !.nice = Signed(k, I)] : k \in P}
    BY DEF assign_meta_field
  <2>. HIDE DEF P
  <2>4. \A k \in P : Signed(k, I) = n
    BY <2>2 DEF P
  <2>5. \E k \in P : Signed(k, I) = n
    BY <2>2 DEF P
  <2>. QED
    BY <2>3, <2>4, <2>5
<1>4. ASSUME NEW n \in 0..(U - 1)
      PROVE  assign_meta_field(m, <<"mem_mb">>, Chars(n)) = {[m EXCEPT !.mem_mb = n]}
  <2>1. n \in Nat /\ n < U
    BY Constants
  <2>2. parse_u64(Chars(n)) = {n}
    BY <2>1, ParseU
  <2>3. assign_meta_field(m, <<"mem_mb">>, Chars(n))
            = {[m EXCEPT !.mem_mb = k] : k \in parse_u64(Chars(n))}
    BY DEF assign_meta_field
  <2>. QED
    BY <2>2, <2>3
<1>. QED
  BY <1>1, <1>2, <1>3, <1>4, Zenon

\* Load, line by line: what was saved, but for the path, is read.
LEMMA ReadMeta ==
    ASSUME NEW m \in MetaSet, NEW end \in Ends, NEW r \in Seq(Alphabet)
    PROVE  ReadText({Fresh}, Text(m, end, r))
           = IF m.path = Broken THEN {} ELSE ReadText({ReadOf(m, end)}, r)
<1>. DEFINE r1 == Field("mem_mb", Chars(m.mem_mb), end) \o r
            r2 == Field("nice", Chars(m.nice), end) \o r1
            r3 == Field("workers", Chars(m.workers), end) \o r2
            r4 == PathText(m.path, end, r3)
            r5 == Field("op", m.op, end) \o r4
            m1 == [Fresh EXCEPT !.state = m.state]
            m2 == [m1 EXCEPT !.op = m.op]
            m3 == [m2 EXCEPT !.path = Kept(m.path, end)]
            m4 == [m3 EXCEPT !.workers = m.workers]
            m5 == [m4 EXCEPT !.nice = m.nice]
            m6 == [m5 EXCEPT !.mem_mb = m.mem_mb]
<1>1. /\ m.state \in {<<"submitted">>, <<"queued">>, <<"failed">>}
      /\ m.op \in {<<"count">>, <<"copy">>} /\ m.path \in Paths \ {<<>>}
      /\ m.workers \in 1..kMaxWorkers /\ m.nice \in -MaxNice..(MaxNice - 1)
      /\ m.mem_mb \in 0..(U - 1)
      /\ m.workers \in Int /\ m.nice \in Int /\ m.mem_mb \in Int
  BY MetaIs
<1>2. \A key \in {"state", "op", "path", "workers", "nice", "mem_mb"} :
          key \in Alphabet /\ key \notin {"=", "#", "nl"}
  BY KeysAre
<1>3. /\ r1 \in Seq(Alphabet) /\ r2 \in Seq(Alphabet) /\ r3 \in Seq(Alphabet)
      /\ r4 \in Seq(Alphabet) /\ r5 \in Seq(Alphabet)
      /\ Text(m, end, r) = Field("state", m.state, end) \o r5
  BY TextType
<1>4. m6 = ReadOf(m, end)
  BY DEF MetaSet, ReadOf, Fresh, Kept
<1>5. /\ m.state \in Seq(Alphabet) /\ m.state # <<>> /\ NoNewline(m.state)
      /\ m.state = Kept(m.state, end)
      /\ m.op \in Seq(Alphabet) /\ m.op # <<>> /\ NoNewline(m.op)
      /\ m.op = Kept(m.op, end)
  BY <1>1, NameIs DEF Kept
<1>6. \A n \in {m.workers, m.nice, m.mem_mb} :
          /\ Chars(n) \in Seq(Alphabet) /\ Chars(n) # <<>> /\ NoNewline(Chars(n))
          /\ Chars(n) = Kept(Chars(n), end)
  BY <1>1, CharsOf DEF Kept
<1>7. /\ assign_meta_field(Fresh, <<"state">>, m.state) = {m1}
      /\ assign_meta_field(m1, <<"op">>, m.op) = {m2}
      /\ assign_meta_field(m2, <<"path">>, Kept(m.path, end)) = {m3}
  <2>. HIDE DEF m1, m2
  <2>1. assign_meta_field(Fresh, <<"state">>, m.state) = {m1}
    BY AssignFields DEF m1
  <2>2. assign_meta_field(m1, <<"op">>, m.op) = {m2}
    BY AssignFields DEF m2
  <2>3. assign_meta_field(m2, <<"path">>, Kept(m.path, end)) = {m3}
    BY AssignFields
  <2>. QED
    BY <2>1, <2>2, <2>3 DEF m1, m2
<1>8. assign_meta_field(m3, <<"workers">>, Chars(m.workers)) = {m4}
  <2>. HIDE DEF m3
  <2>. QED
    BY <1>1, AssignFields
<1>9. assign_meta_field(m4, <<"nice">>, Chars(m.nice)) = {m5}
  <2>. HIDE DEF m4
  <2>. QED
    BY <1>1, AssignFields
<1>10. assign_meta_field(m5, <<"mem_mb">>, Chars(m.mem_mb)) = {m6}
  <2>. HIDE DEF m5
  <2>. QED
    BY <1>1, AssignFields
<1>. HIDE DEF m1, m2, m3, m4, m5, m6, r5
<1>11. ReadText({Fresh}, Text(m, end, r)) = ReadText({m1}, r5)
  <2>1. "state" \in Alphabet /\ "state" \notin {"=", "#", "nl"}
    BY <1>2
  <2>2. ReadText({Fresh}, Field("state", m.state, end) \o r5) = ReadText({m1}, r5)
    <3>1. m.state \in Seq(Alphabet) /\ m.state # <<>> /\ NoNewline(m.state)
      BY <1>5
    <3>3. r5 \in Seq(Alphabet)
      BY <1>3
    <3>2. ReadText({Fresh}, Field("state", m.state, end) \o r5)
              = ReadText(assign_meta_field(Fresh, <<"state">>, Kept(m.state, end)), r5)
      BY <3>3, <2>1, <3>1, ReadField
    <3>. QED
      BY <1>5, <1>7, <3>2
  <2>. QED
    BY <1>3, <2>2, Zenon
<1>12. ReadText({m1}, r5) = ReadText({m2}, r4)
  <2>. HIDE DEF r4
  <2>. QED
    <3>1. "op" \in Alphabet /\ "op" \notin {"=", "#", "nl"}
      BY <1>2
    <3>2. ReadText({m1}, Field("op", m.op, end) \o r4) = ReadText({m2}, r4)
      <4>1. m.op \in Seq(Alphabet) /\ m.op # <<>> /\ NoNewline(m.op)
        BY <1>5
      <4>3. r4 \in Seq(Alphabet)
        BY <1>3
      <4>2. ReadText({m1}, Field("op", m.op, end) \o r4)
                = ReadText(assign_meta_field(m1, <<"op">>, Kept(m.op, end)), r4)
        BY <4>3, <3>1, <4>1, ReadField
      <4>. QED
        BY <1>5, <1>7, <4>2
    <3>. QED
      BY <3>2, Zenon DEF r5
<1>13. CASE m.path = Broken
  <2>. DEFINE s == (<<"p">> \o end \o <<"nl">>) \o r3
  <2>. HIDE DEF r3
  <2>1. s \in Seq(Alphabet) /\ \A metas : ReadText(metas, s) = {}
    BY <1>3, SecondLine
  <2>2. r4 = Field("path", <<"p">>, end) \o s
    BY <1>13 DEF PathText
  <2>3. /\ <<"p">> \in Seq(Alphabet) /\ <<"p">> # <<>> /\ NoNewline(<<"p">>)
    BY NameIs
  <2>. HIDE DEF s
  <2>4. ReadText({m2}, Field("path", <<"p">>, end) \o s)
        = ReadText(assign_meta_field(m2, <<"path">>, Kept(<<"p">>, end)), s)
    BY <1>2, <2>1, <2>3, ReadField
  <2>. QED
    BY <1>11, <1>12, <1>13, <2>1, <2>2, <2>4
<1>14. CASE m.path # Broken
  <2>1. m.path \in Seq(Alphabet) /\ NoNewline(m.path) /\ m.path # <<>>
    BY <1>1, <1>14, PathIs
  <2>2. ReadText({m2}, r4) = ReadText({m3}, r3)
    <3>. HIDE DEF r3
    <3>1. r4 = Field("path", m.path, end) \o r3
      BY <1>14 DEF PathText
    <3>4. "path" \in Alphabet /\ "path" \notin {"=", "#", "nl"}
      BY <1>2
    <3>5. ReadText({m2}, Field("path", m.path, end) \o r3) = ReadText({m3}, r3)
      <4>1. m.path \in Seq(Alphabet) /\ m.path # <<>> /\ NoNewline(m.path)
        BY <2>1
      <4>3. r3 \in Seq(Alphabet)
        BY <1>3
      <4>2. ReadText({m2}, Field("path", m.path, end) \o r3)
                = ReadText(assign_meta_field(m2, <<"path">>, Kept(m.path, end)), r3)
        BY <4>3, <2>1, <3>4, <4>1, ReadField
      <4>. QED
        BY <2>1, <1>7, <4>2
    <3>. QED
      BY <3>1, <3>5, Zenon
  <2>3. ReadText({m3}, r3) = ReadText({m4}, r2)
    <3>. HIDE DEF r2
    <3>4. "workers" \in Alphabet /\ "workers" \notin {"=", "#", "nl"}
      BY <1>2
    <3>5. ReadText({m3}, Field("workers", Chars(m.workers), end) \o r2) = ReadText({m4}, r2)
      <4>1. Chars(m.workers) \in Seq(Alphabet) /\ Chars(m.workers) # <<>> /\ NoNewline(Chars(m.workers))
        BY <1>6
      <4>3. r2 \in Seq(Alphabet)
        BY <1>3
      <4>2. ReadText({m3}, Field("workers", Chars(m.workers), end) \o r2)
                = ReadText(assign_meta_field(m3, <<"workers">>, Kept(Chars(m.workers), end)), r2)
        BY <4>3, <3>4, <4>1, ReadField
      <4>. QED
        BY <1>6, <1>8, <4>2
    <3>. QED
      BY <3>5, Zenon
  <2>4. ReadText({m4}, r2) = ReadText({m5}, r1)
    <3>. HIDE DEF r1
    <3>4. "nice" \in Alphabet /\ "nice" \notin {"=", "#", "nl"}
      BY <1>2
    <3>5. ReadText({m4}, Field("nice", Chars(m.nice), end) \o r1) = ReadText({m5}, r1)
      <4>1. Chars(m.nice) \in Seq(Alphabet) /\ Chars(m.nice) # <<>> /\ NoNewline(Chars(m.nice))
        BY <1>6
      <4>3. r1 \in Seq(Alphabet)
        BY <1>3
      <4>2. ReadText({m4}, Field("nice", Chars(m.nice), end) \o r1)
                = ReadText(assign_meta_field(m4, <<"nice">>, Kept(Chars(m.nice), end)), r1)
        BY <4>3, <3>4, <4>1, ReadField
      <4>. QED
        BY <1>6, <1>9, <4>2
    <3>. QED
      BY <3>5, Zenon
  <2>5. ReadText({m5}, r1) = ReadText({m6}, r)
    <3>4. "mem_mb" \in Alphabet /\ "mem_mb" \notin {"=", "#", "nl"}
      BY <1>2
    <3>5. ReadText({m5}, Field("mem_mb", Chars(m.mem_mb), end) \o r) = ReadText({m6}, r)
      <4>1. Chars(m.mem_mb) \in Seq(Alphabet) /\ Chars(m.mem_mb) # <<>> /\ NoNewline(Chars(m.mem_mb))
        BY <1>6
      <4>2. ReadText({m5}, Field("mem_mb", Chars(m.mem_mb), end) \o r)
                = ReadText(assign_meta_field(m5, <<"mem_mb">>, Kept(Chars(m.mem_mb), end)), r)
        BY <3>4, <4>1, ReadField
      <4>. QED
        BY <1>6, <1>10, <4>2
    <3>. QED
      BY <3>5, Zenon
  <2>. QED
    BY <1>4, <1>11, <1>12, <1>14, <2>2, <2>3, <2>4, <2>5, Zenon
<1>. QED
  BY <1>13, <1>14

Newer == Line("newer", <<"x", "=", "1">>)

\* The file as Save has left it, or after an Edit of it.
TextsOf(m) == {meta_to_text(m), Dos(meta_to_text(m)), <<"#", "word", "nl">> \o meta_to_text(m),
               meta_to_text(m) \o Newer}

LEMMA ReadNewer ==
    ASSUME NEW m
    PROVE  Newer \in Seq(Alphabet) /\ ReadText({m}, Newer) = {m}
<1>. DEFINE v == <<"x", "=", "1">>
<1>1. "newer" \in Alphabet /\ "newer" \notin {"=", "#", "nl"}
  BY KeysAre
<1>2. v \in Seq(Alphabet) /\ Len(v) = 3
  BY DEF Alphabet
<1>3. v # <<>> /\ NoNewline(v)
  <2>1. v[1] = "x" /\ v[2] = "=" /\ v[3] = "1"
    OBVIOUS
  <2>. HIDE DEF v
  <2>2. \A i \in 1..3 : i = 1 \/ i = 2 \/ i = 3
    OBVIOUS
  <2>. QED
    BY <1>2, <2>1, <2>2 DEF NoNewline
<1>. HIDE DEF v
<1>4. Newer = Field("newer", v, <<>>)
  <2>1. Newer = Line("newer", v)
    BY Zenon DEF Newer, v
  <2>. QED
    BY <1>1, <1>2, <2>1, LineIs
<1>5. Field("newer", v, <<>>) \in Seq(Alphabet)
  BY <1>1, <1>2, <1>3, KeyAndValue DEF Ends
<1>. DEFINE w == Field("newer", v, <<>>)
<1>6. w \o <<>> = w
  <2>. HIDE DEF w
  <2>1. w \in Seq(Alphabet)
    BY <1>5 DEF w
  <2>. QED
    BY <2>1
<1>7. <<>> \in Ends /\ <<>> \in Seq(Alphabet)
  BY DEF Ends
<1>8. ReadText({m}, w \o <<>>) = ReadText(assign_meta_field(m, <<"newer">>, Kept(v, <<>>)), <<>>)
  <2>1. ASSUME NEW end \in Ends, NEW r \in Seq(Alphabet)
        PROVE  ReadText({m}, Field("newer", v, end) \o r)
                   = ReadText(assign_meta_field(m, <<"newer">>, Kept(v, end)), r)
    BY <1>1, <1>2, <1>3, ReadField
  <2>. QED
    BY <1>7, <2>1, Zenon
<1>9. assign_meta_field(m, <<"newer">>, Kept(v, <<>>)) = {m}
  BY AssignFields
<1>10. ReadText({m}, <<>>) = {m}
  BY ReadTextEmpty
<1>. QED
  BY <1>4, <1>5, <1>6, <1>8, <1>9, <1>10, Zenon

LEMMA ReadComment ==
    ASSUME NEW metas, NEW b \in Seq(Alphabet)
    PROVE  ReadText(metas, <<"#", "word", "nl">> \o b) = ReadText(metas, b)
<1>. DEFINE a == <<"#", "word">>
<1>1. a \in Seq(Alphabet) /\ Len(a) = 2 /\ a[1] = "#" /\ a[2] = "word"
  BY DEF Alphabet
<1>2. <<"#", "word", "nl">> = a \o <<"nl">>
  OBVIOUS
<1>. HIDE DEF a
<1>3. \A i \in 1..Len(a) : a[i] # "nl"
  <2>1. \A i \in 1..2 : i = 1 \/ i = 2
    OBVIOUS
  <2>. QED
    BY <1>1, <2>1
<1>4. ReadText(metas, a \o <<"nl">> \o b) = ReadText(ReadLine(metas, a), b)
  BY <1>1, <1>3, ReadTextLine
<1>5. ReadLine(metas, a) = metas
  BY <1>1 DEF ReadLine, Skipped
<1>. QED
  BY <1>2, <1>4, <1>5, Zenon

\* What Load makes of the file.
LEMMA LoadIs ==
    ASSUME NEW m \in MetaSet, NEW t \in TextsOf(m)
    PROVE  \E end \in Ends :
               text_to_meta(t) = IF m.path = Broken THEN {} ELSE {ReadOf(m, end)}
<1>1. \A end \in Ends : \A r \in Seq(Alphabet) :
          ReadText({Fresh}, Text(m, end, r))
              = IF m.path = Broken THEN {} ELSE ReadText({ReadOf(m, end)}, r)
  BY ReadMeta
<1>2. <<>> \in Ends /\ <<"cr">> \in Ends /\ <<>> \in Seq(Alphabet)
  BY DEF Ends
<1>3. \A end \in Ends : ReadText({Fresh}, Text(m, end, <<>>))
                            = IF m.path = Broken THEN {} ELSE {ReadOf(m, end)}
  <2>1. \A metas : ReadText(metas, <<>>) = metas
    BY ReadTextEmpty
  <2>. QED
    BY <1>1, <1>2, <2>1, Zenon
<1>4. meta_to_text(m) \in Seq(Alphabet) /\ meta_to_text(m) = Text(m, <<>>, <<>>)
  <2>1. /\ meta_to_text(m) \in Seq(Alphabet)
        /\ meta_to_text(m) \o <<>> = Text(m, <<>>, <<>>)
    BY <1>2, TextIs
  <2>. DEFINE s == meta_to_text(m)
  <2>2. s \o <<>> = s
    <3>1. s \in Seq(Alphabet)
      BY <2>1
    <3>. HIDE DEF s
    <3>. QED
      BY <3>1
  <2>. QED
    BY <2>1, <2>2, Zenon
<1>5. \E end \in Ends : ReadText({Fresh}, t)
                            = IF m.path = Broken THEN {} ELSE {ReadOf(m, end)}
  <2>1. CASE t = meta_to_text(m)
    BY <1>2, <1>3, <1>4, <2>1, Zenon
  <2>2. CASE t = Dos(meta_to_text(m))
    <3>1. t = Text(m, <<"cr">>, <<>>)
      BY <2>2, DosText, Zenon
    <3>. QED
      BY <1>2, <1>3, <3>1, Zenon
  <2>3. CASE t = <<"#", "word", "nl">> \o meta_to_text(m)
    <3>1. ReadText({Fresh}, t) = ReadText({Fresh}, meta_to_text(m))
      BY <1>4, <2>3, ReadComment
    <3>. QED
      BY <1>2, <1>3, <1>4, <3>1, Zenon
  <2>4. CASE t = meta_to_text(m) \o Newer
    <3>1. Newer \in Seq(Alphabet) /\ ReadText({ReadOf(m, <<>>)}, Newer) = {ReadOf(m, <<>>)}
      BY ReadNewer
    <3>2. meta_to_text(m) \o Newer = Text(m, <<>>, Newer)
      BY <3>1, TextIs
    <3>. QED
      BY <1>1, <1>2, <2>4, <3>1, <3>2, Zenon
  <2>. QED
    BY <2>1, <2>2, <2>3, <2>4, Zenon DEF TextsOf
<1>6. PICK end \in Ends : ReadText({Fresh}, t)
                              = IF m.path = Broken THEN {} ELSE {ReadOf(m, end)}
  BY <1>5
<1>7. ReadOf(m, end).op # <<>> /\ ReadOf(m, end).state # <<>>
  <2>1. ReadOf(m, end).op = m.op /\ ReadOf(m, end).state = m.state
    BY DEF ReadOf, MetaSet
  <2>. QED
    BY <2>1, MetaIs, NameIs
<1>8. text_to_meta(t) = {x \in ReadText({Fresh}, t) : x.op # <<>> /\ x.state # <<>>}
  BY ReadTextIs, Zenon
<1>9. text_to_meta(t) = IF m.path = Broken THEN {} ELSE {ReadOf(m, end)}
  BY <1>6, <1>7, <1>8
<1>. QED
  BY <1>9

-----------------------------------------------------------------------------
(* The inductive invariant. *)

\* What is typed of a flag bounds what is kept, from the command line to every later load.
Typed ==
    /\ TakenAs(typed.workers, meta.workers, 1)
    /\ TakenAs(typed.nice, meta.nice, 0)
    /\ IF typed.mem_mb = <<>> THEN meta.mem_mb = 0
       ELSE /\ IsNumber(typed.mem_mb) /\ ~Negative(typed.mem_mb)
            /\ meta.mem_mb = NumberOf(typed.mem_mb)

Refused ==
    pc = "refused" /\ typed.mem_mb # <<>> =>
        ~IsNumber(typed.mem_mb) \/ Negative(typed.mem_mb) \/ NumberOf(typed.mem_mb) >= U

\* A copy has one worker: validate_meta asks it of what was typed, and it stays so.
Valid ==
    pc \notin {"start", "refused"} =>
        Typed /\ meta \in MetaSet /\ (meta.op = <<"copy">> => meta.workers = 1)

\* The file holds what was saved, and what is in memory came from there.
File ==
    /\ pc \in {"saved", "read", "unreadable"} => saved \in MetaSet
    /\ pc = "saved" =>
           /\ saved = meta /\ text \in TextsOf(saved)
           /\ ~edited => text = meta_to_text(saved)
    /\ pc = "read" => saved.path # Broken /\ \E end \in Ends : meta = ReadOf(saved, end)
    /\ pc = "unreadable" => saved.path = Broken

IInv == Refused /\ Valid /\ File

LEMMA NumbersAre == Numbers \subseteq Seq(Alphabet)
<1>1. Range(DigitChars) \cup {"-", "x"} \subseteq Alphabet
  BY DigitCharsAre DEF Alphabet, Range
<1>. DEFINE S == Range(DigitChars) \cup {"-", "x"}
<1>2. ASSUME NEW n \in Numbers PROVE n \in Seq(Alphabet)
  <2>. HIDE DEF S
  <2>1. PICK k \in 0..MaxLength : n \in [1..k -> S]
    BY <1>2, Zenon DEF Numbers, SeqOf, S
  <2>2. k \in Nat
    BY <2>1, RecordsAssumption
  <2>3. n \in [1..k -> Alphabet]
    BY <1>1, <2>1 DEF S
  <2>. QED
    BY <2>2, <2>3
<1>. QED
  BY <1>2

LEMMA CommandIs ==
    ASSUME NEW c \in Commands
    PROVE  /\ c.workers \in Seq(Alphabet) /\ c.nice \in Seq(Alphabet) /\ c.mem_mb \in Seq(Alphabet)
           /\ c.path \in Paths
           /\ c.mem_mb # <<>> => /\ c.op = <<"count">> /\ c.path = <<"p">>
                                 /\ c.workers = <<>> /\ c.nice = <<>>
<1>1. <<>> \in Seq(Alphabet) /\ <<"1">> \in Seq(Alphabet) /\ <<"1", "0">> \in Seq(Alphabet)
      /\ <<"p">> \in Paths
  BY DEF Alphabet, Paths
<1>2. CASE \E f \in Flags, n \in Numbers : c = [Plain EXCEPT ![f] = n]
  <2>1. PICK f \in Flags, n \in Numbers : c = [Plain EXCEPT ![f] = n]
    BY <1>2
  <2>2. n \in Seq(Alphabet)
    BY NumbersAre
  <2>3. f = "workers" \/ f = "nice" \/ f = "mem_mb"
    BY DEF Flags
  <2>4. CASE f = "workers"
    BY <1>1, <2>1, <2>2, <2>4 DEF Plain
  <2>5. CASE f = "nice"
    BY <1>1, <2>1, <2>2, <2>5 DEF Plain
  <2>6. CASE f = "mem_mb"
    BY <1>1, <2>1, <2>2, <2>6 DEF Plain
  <2>. QED
    BY <2>3, <2>4, <2>5, <2>6
<1>3. CASE c \in [op : {<<>>, <<"count">>, <<"copy">>}, path : Paths,
                  workers : {<<>>, <<"1">>, <<"1", "0">>}, nice : {<<>>}, mem_mb : {<<>>}]
  <2>1. /\ c.path \in Paths /\ c.workers \in {<<>>, <<"1">>, <<"1", "0">>}
        /\ c.nice = <<>> /\ c.mem_mb = <<>>
    BY <1>3
  <2>. QED
    BY <1>1, <2>1
<1>. QED
  BY <1>2, <1>3 DEF Commands

Made(c, w, n, k) ==
    [Fresh EXCEPT !.op = c.op, !.path = c.path, !.workers = w, !.nice = n, !.mem_mb = k]

LEMMA MadeIs ==
    ASSUME NEW c
    PROVE  Parsed(c) = {Made(c, w, n, m) : w \in need_i(c.workers, 1), n \in need_i(c.nice, 0),
                                           m \in need_u(c.mem_mb)}
BY DEF Parsed, Made

\* A job that is accepted has the numbers that were typed, in the ranges of a record.
LEMMA ParsedIs ==
    ASSUME NEW c \in Commands, NEW m \in Parsed(c), validate_meta(m)
    PROVE  /\ m \in MetaSet /\ (m.op = <<"copy">> => m.workers = 1)
           /\ TakenAs(c.workers, m.workers, 1) /\ TakenAs(c.nice, m.nice, 0)
           /\ IF c.mem_mb = <<>> THEN m.mem_mb = 0
              ELSE /\ IsNumber(c.mem_mb) /\ ~Negative(c.mem_mb)
                   /\ m.mem_mb = NumberOf(c.mem_mb)
<1>1. PICK w \in need_i(c.workers, 1), n \in need_i(c.nice, 0), k \in need_u(c.mem_mb) :
          m = Made(c, w, n, k)
  BY MadeIs
<1>2. m = [state |-> <<"submitted">>, op |-> c.op, path |-> c.path, workers |-> w, nice |-> n,
           mem_mb |-> k]
  BY <1>1 DEF Made, Fresh
<1>3. /\ c.workers \in Seq(Alphabet) /\ c.nice \in Seq(Alphabet) /\ c.mem_mb \in Seq(Alphabet)
      /\ c.path \in Paths
  BY CommandIs
<1>4. TakenAs(c.workers, w, 1)
  BY <1>3, NeedI
<1>5. TakenAs(c.nice, n, 0)
  BY <1>3, NeedI
<1>6. CASE c.mem_mb = <<>>
  <2>1. k = 0
    BY <1>6 DEF need_u
  <2>. QED
    BY <1>2, <1>3, <1>4, <1>5, <1>6, <2>1, Constants DEF validate_meta, MetaSet
<1>7. CASE c.mem_mb # <<>>
  <2>1. IsNumber(c.mem_mb) /\ ~Negative(c.mem_mb) /\ k = NumberOf(c.mem_mb) /\ k \in 0..(U - 1)
    BY <1>3, <1>7, NeedU
  <2>. QED
    BY <1>2, <1>3, <1>4, <1>5, <1>7, <2>1 DEF validate_meta, MetaSet
<1>. QED
  BY <1>6, <1>7

\* A job is refused for the number of bytes typed only if that is none or too large.
LEMMA RefusedIs ==
    ASSUME NEW c \in Commands, \A m \in Parsed(c) : ~validate_meta(m), c.mem_mb # <<>>
    PROVE  ~IsNumber(c.mem_mb) \/ Negative(c.mem_mb) \/ NumberOf(c.mem_mb) >= U
<1>1. /\ c.mem_mb \in Seq(Alphabet) /\ c.op = <<"count">> /\ c.path = <<"p">>
      /\ c.workers = <<>> /\ c.nice = <<>>
  BY CommandIs
<1>2. SUFFICES ASSUME need_u(c.mem_mb) # {} PROVE FALSE
  BY <1>1, NeedU
<1>3. PICK k \in need_u(c.mem_mb) : TRUE
  BY <1>2
<1>4. need_i(c.workers, 1) = {1} /\ need_i(c.nice, 0) = {0}
  BY <1>1 DEF need_i
<1>. DEFINE m == Made(c, 1, 0, k)
<1>5. m \in Parsed(c)
  <2>1. 1 \in need_i(c.workers, 1) /\ 0 \in need_i(c.nice, 0)
    BY <1>4
  <2>. QED
    BY <1>3, <2>1, MadeIs
<1>6. validate_meta(m)
  <2>1. m.op = <<"count">> /\ m.path = <<"p">> /\ m.workers = 1 /\ m.nice = 0
    BY <1>1 DEF Made, Fresh
  <2>2. 1 \in 1..kMaxWorkers /\ 0 \in -MaxNice..(MaxNice - 1)
    BY Widths
  <2>3. Range(<<"p">>) \cap {"nl", "cr"} = {} /\ <<"p">> # <<>> /\ <<"count">> # <<"copy">>
    BY DEF Range
  <2>. HIDE DEF m
  <2>. QED
    BY <2>1, <2>2, <2>3 DEF validate_meta
<1>. QED
  BY <1>5, <1>6

LEMMA ReadOfIs ==
    ASSUME NEW m \in MetaSet, m.path # Broken, NEW end \in Ends
    PROVE  /\ ReadOf(m, end) \in MetaSet /\ [ReadOf(m, end) EXCEPT !.path = m.path] = m
           /\ ReadOf(m, end).state = m.state /\ ReadOf(m, end).op = m.op
           /\ ReadOf(m, end).workers = m.workers /\ ReadOf(m, end).nice = m.nice
           /\ ReadOf(m, end).mem_mb = m.mem_mb
           /\ ReadOf(m, end).path = m.path \/ ReadOf(m, end).path \o <<"cr">> = m.path
<1>. DEFINE path == IF end = <<>> THEN Drop(m.path) ELSE m.path
<1>1. m.path \in Paths \ {<<>>}
  BY MetaIs
<1>2. path \in Paths \ {<<>>} /\ (path = m.path \/ path \o <<"cr">> = m.path)
  BY <1>1, DropPath
<1>3. ReadOf(m, end) = [m EXCEPT !.path = path]
  BY Zenon DEF ReadOf
<1>. HIDE DEF path
<1>. QED
  BY <1>2, <1>3 DEF MetaSet

\* A record is valid again unless its path has lost a '\r' or still has one.
LEMMA ValidAgain ==
    ASSUME NEW m \in MetaSet, m.op = <<"copy">> => m.workers = 1, m.path # Broken,
           "cr" \notin Range(m.path)
    PROVE  validate_meta(m)
<1>1. m.path \in Paths \ {<<>>}
  BY MetaIs
<1>2. "nl" \notin Range(m.path)
  BY <1>1, PathIs
<1>. QED
  BY <1>1, <1>2, MetaIs DEF validate_meta

-----------------------------------------------------------------------------
(* The steps. *)

LEMMA TypedStays ==
    ASSUME Typed, UNCHANGED typed, meta'.workers = meta.workers, meta'.nice = meta.nice,
           meta'.mem_mb = meta.mem_mb
    PROVE  Typed'
BY DEF Typed

LEMMA RecordsInit == ASSUME Init PROVE IInv
BY DEF Init, IInv, Refused, Valid, File

LEMMA SubmitStep == ASSUME NEW c \in Commands, Submit(c) PROVE IInv'
<1>1. typed' = c
  BY DEF Submit
<1>2. CASE (\E m \in Parsed(c) : validate_meta(m) /\ meta' = m) /\ pc' = "accepted"
  <2>1. PICK m \in Parsed(c) : validate_meta(m) /\ meta' = m
    BY <1>2
  <2>2. /\ m \in MetaSet /\ (m.op = <<"copy">> => m.workers = 1)
        /\ TakenAs(c.workers, m.workers, 1) /\ TakenAs(c.nice, m.nice, 0)
        /\ IF c.mem_mb = <<>> THEN m.mem_mb = 0
           ELSE /\ IsNumber(c.mem_mb) /\ ~Negative(c.mem_mb)
                /\ m.mem_mb = NumberOf(c.mem_mb)
    BY <2>1, ParsedIs
  <2>3. Typed'
    BY <1>1, <2>1, <2>2 DEF Typed
  <2>. QED
    BY <1>2, <2>1, <2>2, <2>3 DEF IInv, Refused, Valid, File
<1>3. CASE (\A m \in Parsed(c) : ~validate_meta(m)) /\ pc' = "refused"
  <2>1. c.mem_mb # <<>> => ~IsNumber(c.mem_mb) \/ Negative(c.mem_mb) \/ NumberOf(c.mem_mb) >= U
    BY <1>3, RefusedIs
  <2>. QED
    BY <1>1, <1>3, <2>1 DEF IInv, Refused, Valid, File
<1>. QED
  BY <1>2, <1>3 DEF Submit

LEMMA ResolveStep == ASSUME IInv, Resolve PROVE IInv'
<1>1. PICK path \in Paths \ {<<>>} : meta' = [meta EXCEPT !.path = path]
  BY DEF Resolve
<1>2. pc = "accepted" /\ pc' = "save" /\ UNCHANGED typed
  BY DEF Resolve
<1>3. Typed /\ meta \in MetaSet /\ (meta.op = <<"copy">> => meta.workers = 1)
  BY <1>2 DEF IInv, Valid
<1>4. /\ meta' \in MetaSet /\ meta'.op = meta.op /\ meta'.workers = meta.workers
      /\ meta'.nice = meta.nice /\ meta'.mem_mb = meta.mem_mb
  BY <1>1, <1>3 DEF MetaSet
<1>5. Typed'
  BY <1>2, <1>3, <1>4, TypedStays
<1>. QED
  BY <1>2, <1>3, <1>4, <1>5 DEF IInv, Refused, Valid, File

LEMMA SaveStep == ASSUME IInv, Save PROVE IInv'
<1>1. /\ pc = "save" /\ pc' = "saved" /\ UNCHANGED <<typed, meta>>
      /\ saved' = meta /\ text' = meta_to_text(meta)
  BY DEF Save
<1>2. Typed /\ meta \in MetaSet /\ (meta.op = <<"copy">> => meta.workers = 1)
  BY <1>1 DEF IInv, Valid
<1>3. Typed'
  BY <1>1, <1>2, TypedStays
<1>4. text' \in TextsOf(saved') /\ text' = meta_to_text(saved')
  BY <1>1 DEF TextsOf
<1>. QED
  BY <1>1, <1>2, <1>3, <1>4 DEF IInv, Refused, Valid, File

LEMMA EditStep == ASSUME IInv, Edit PROVE IInv'
<1>1. pc = "saved" /\ pc' = "saved" /\ UNCHANGED <<typed, meta, saved>> /\ edited' /\ ~edited
  BY DEF Edit
<1>2. Typed /\ meta \in MetaSet /\ (meta.op = <<"copy">> => meta.workers = 1)
  BY <1>1 DEF IInv, Valid
<1>3. saved \in MetaSet /\ saved = meta /\ text = meta_to_text(saved)
  BY <1>1 DEF IInv, File
<1>4. text' \in {Dos(text), <<"#", "word", "nl">> \o text, text \o Newer}
  BY Zenon DEF Edit, Dos, Newer
<1>5. text' \in TextsOf(saved)
  BY <1>3, <1>4, Zenon DEF TextsOf
<1>6. Typed'
  BY <1>1, <1>2, TypedStays
<1>. QED
  BY <1>1, <1>2, <1>3, <1>5, <1>6 DEF IInv, Refused, Valid, File

LEMMA LoadStep == ASSUME IInv, Load PROVE IInv'
<1>1. pc = "saved" /\ UNCHANGED <<typed, saved>>
  BY DEF Load
<1>2. Typed /\ meta \in MetaSet /\ (meta.op = <<"copy">> => meta.workers = 1)
  BY <1>1 DEF IInv, Valid
<1>3. saved \in MetaSet /\ saved = meta /\ text \in TextsOf(saved)
  BY <1>1 DEF IInv, File
<1>4. PICK end \in Ends : text_to_meta(text) = IF saved.path = Broken THEN {} ELSE {ReadOf(saved, end)}
  BY <1>3, LoadIs
<1>5. CASE meta' \in text_to_meta(text) /\ pc' = "read"
  <2>1. saved.path # Broken /\ meta' = ReadOf(saved, end)
    BY <1>4, <1>5
  <2>2. /\ meta' \in MetaSet /\ meta'.op = meta.op /\ meta'.workers = meta.workers
        /\ meta'.nice = meta.nice /\ meta'.mem_mb = meta.mem_mb
    BY <1>3, <2>1, ReadOfIs
  <2>3. Typed'
    BY <1>1, <1>2, <2>2, TypedStays
  <2>. QED
    BY <1>1, <1>2, <1>3, <1>5, <2>1, <2>2, <2>3 DEF IInv, Refused, Valid, File
<1>6. CASE text_to_meta(text) = {} /\ pc' = "unreadable" /\ meta' = meta
  <2>1. saved.path = Broken
    BY <1>4, <1>6
  <2>2. Typed'
    BY <1>1, <1>2, <1>6, TypedStays
  <2>. QED
    BY <1>1, <1>2, <1>3, <1>6, <2>1, <2>2 DEF IInv, Refused, Valid, File
<1>. QED
  BY <1>5, <1>6 DEF Load

LEMMA EnqueueStep == ASSUME IInv, Enqueue PROVE IInv'
<1>1. pc = "read" /\ pc' = "save" /\ UNCHANGED typed
  BY DEF Enqueue
<1>2. Typed /\ meta \in MetaSet /\ (meta.op = <<"copy">> => meta.workers = 1)
  BY <1>1 DEF IInv, Valid
<1>3. PICK state \in {<<"queued">>, <<"failed">>} : meta' = [meta EXCEPT !.state = state]
  BY DEF Enqueue
<1>4. /\ meta' \in MetaSet /\ meta'.op = meta.op /\ meta'.workers = meta.workers
      /\ meta'.nice = meta.nice /\ meta'.mem_mb = meta.mem_mb
  BY <1>2, <1>3 DEF MetaSet
<1>5. Typed'
  BY <1>1, <1>2, <1>4, TypedStays
<1>. QED
  BY <1>1, <1>2, <1>4, <1>5 DEF IInv, Refused, Valid, File

LEMMA RecordsStep == ASSUME IInv, [Next]_vars PROVE IInv'
<1>1. CASE \E c \in Commands : Submit(c)
  BY <1>1, SubmitStep
<1>2. CASE UNCHANGED vars
  BY <1>2 DEF vars, IInv, Refused, Valid, File, Typed
<1>. QED
  BY <1>1, <1>2, ResolveStep, SaveStep, EditStep, LoadStep, EnqueueStep DEF Next

-----------------------------------------------------------------------------
(* The theorems. *)

\* The inductive invariant: from the command line on the numbers in memory are those typed, and
\* the file holds the text of what was saved, or one of the edits of it (cmd_submit, job_save,
\* job_load).
THEOREM RecordsInvariant == Spec => []IInv
<1>. QED
  BY RecordsInit, RecordsStep, PTL DEF Spec

\* The numbers of an accepted job are those that were typed, through every save and load of its
\* record, for every base and every width of the integers: parse_u64 is exact and refuses only
\* what does not fit, need_i narrows modulo the width of an int, and operator<< and text_to_meta
\* are inverse to each other.
THEOREM RecordsNumbers == Spec => []NumbersAreThoseTyped
<1>1. ASSUME IInv PROVE NumbersAreThoseTyped
  <2>1. pc \notin {"start", "refused"} =>
            Typed /\ meta.workers \in 1..kMaxWorkers /\ meta.nice \in -MaxNice..(MaxNice - 1)
    BY <1>1, MetaIs DEF IInv, Valid
  <2>. QED
    BY <1>1, <2>1 DEF IInv, Refused, Typed, NumbersAreThoseTyped
<1>. QED
  BY <1>1, RecordsInvariant, PTL

\* What was saved is read back the same, edits included, and is valid again; the two exceptions
\* are a path with a newline, which cannot be read, and one with '\r', which may lose it
\* (meta_to_text, text_to_meta, validate_meta).
THEOREM RecordsRoundTrip == Spec => []SavedIsReadBack
<1>1. ASSUME IInv PROVE SavedIsReadBack
  <2>1. ASSUME pc = "read"
        PROVE  /\ [meta EXCEPT !.path = saved.path] = saved
               /\ meta.path = saved.path \/ meta.path \o <<"cr">> = saved.path
               /\ validate_meta(meta) \/ "cr" \in Range(saved.path)
    <3>1. PICK end \in Ends : meta = ReadOf(saved, end)
      BY <1>1, <2>1 DEF IInv, File
    <3>2. saved \in MetaSet /\ saved.path # Broken
      BY <1>1, <2>1 DEF IInv, File
    <3>3. meta \in MetaSet /\ (meta.op = <<"copy">> => meta.workers = 1)
      BY <1>1, <2>1 DEF IInv, Valid
    <3>4. /\ [meta EXCEPT !.path = saved.path] = saved
          /\ meta.path = saved.path \/ meta.path \o <<"cr">> = saved.path
      BY <3>1, <3>2, ReadOfIs
    <3>5. CASE meta.path = saved.path
      BY <3>2, <3>3, <3>4, <3>5, ValidAgain
    <3>6. CASE meta.path \o <<"cr">> = saved.path
      <4>1. meta.path \in Seq(Alphabet) /\ <<"cr">> \in Seq(Alphabet)
        BY <3>3, MetaIs, PathIs, NlIsCharacter
      <4>. DEFINE w == meta.path \o <<"cr">>
      <4>2. Len(w) = Len(meta.path) + 1 /\ w[Len(meta.path) + 1] = "cr" /\ w \in Seq(Alphabet)
        BY <4>1
      <4>. HIDE DEF w
      <4>3. Len(w) \in 1..Len(w) /\ w[Len(w)] = "cr"
        BY <4>1, <4>2
      <4>4. "cr" \in Range(w)
        BY <4>2, <4>3 DEF Range
      <4>. QED
        BY <3>4, <3>6, <4>4 DEF w
    <3>. QED
      BY <3>4, <3>5, <3>6
  <2>2. ASSUME pc = "unreadable" PROVE "nl" \in Range(saved.path)
    <3>1. saved \in MetaSet /\ saved.path = Broken
      BY <1>1, <2>2 DEF IInv, File
    <3>. QED
      BY <3>1, MetaIs, PathIs
  <2>. QED
    BY <2>1, <2>2 DEF SavedIsReadBack
<1>. QED
  BY <1>1, RecordsInvariant, PTL
=============================================================================
